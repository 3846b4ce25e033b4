------------------------------ MODULE HexBoard ------------------------------
(* The board and its rules (crates/hexgame-core/src/board.rs): one stone     *)
(* opens at the origin, then two stones per turn within reach of the stones  *)
(* on the board, until a line of WinLength wins.  Besides the stones a board *)
(* keeps a hash, two maps of reference counts of the empty cells near the    *)
(* stones, the evaluation, and a record per placement to undo it with; all   *)
(* are kept up to date by increments and decrements.                         *)
EXTENDS EvalState

CONSTANTS
    NearRadius,        \* radius of `candidates`, 2 in the code
    PlacementRadius,   \* PLACEMENT_RADIUS, 8 in the code
    Offered,           \* the cells the callers try to play on
    MaxStones,         \* bound on the stones of a game
    MaxLoaded          \* bound on the stones of a position that is loaded

ASSUME RadiiOK ==
    /\ NearRadius \in Nat /\ PlacementRadius \in Nat
    /\ NearRadius <= PlacementRadius
    /\ Offered \subseteq Cells
    /\ MaxStones \in Nat /\ MaxLoaded \in Nat

(* A cell that a window of stones lacks is within reach: see Tactics.        *)
ASSUME ReachOK == PlacementRadius >= 2

NoWinner == 2

-----------------------------------------------------------------------------
(* CandidateSet: for every empty cell near a stone, how many stones are near *)
(* it.  A map is a function whose domain are its keys.                       *)

NoCandidates == [h \in {} |-> 0]

Count(rc, h) == IF h \in DOMAIN rc THEN rc[h] ELSE 0

(* remove the cell, then incr_candidate_neighbors: both maps, own radius.    *)
CandidatesOnPlace(rc, cell, stones, radius) ==
    LET hits == {h \in Ball(cell, radius) : h \notin DOMAIN stones}
    IN  [h \in (DOMAIN rc \ {cell}) \cup hits |->
            Count(rc, h) + (IF h \in hits THEN 1 ELSE 0)]

(* Mutant: the cell itself does not come back. *)
CandidatesOnUnplaceWithoutCell(rc, cell, stones, radius) ==
    LET hits == {h \in Ball(cell, radius) : h \in DOMAIN rc /\ h \notin DOMAIN stones}
        kept == {h \in DOMAIN rc : ~(h \in hits /\ rc[h] = 1)}
    IN  [h \in kept |-> rc[h] - (IF h \in hits THEN 1 ELSE 0)]

(* on_unplace, called when the stone is off the board. *)
CandidatesOnUnplace(rc, cell, stones, radius) ==
    LET hits == {h \in Ball(cell, radius) : h \in DOMAIN rc /\ h \notin DOMAIN stones}
        around == {h \in Ball(cell, radius) : h \in DOMAIN stones}
        kept == {h \in DOMAIN rc : ~(h \in hits /\ rc[h] = 1)}
        back == IF around = {} THEN {} ELSE {cell}
    IN  [h \in kept \cup back |->
            IF h \in back THEN Cardinality(around)
            ELSE rc[h] - (IF h \in hits THEN 1 ELSE 0)]

(* recompute_candidates: what the maps should hold. *)
NearStones(h, stones, radius) == {s \in DOMAIN stones : HexDistance(s, h) <= radius}

Recompute(stones, radius) ==
    [h \in (UNION {Ball(s, radius) : s \in DOMAIN stones}) \ DOMAIN stones |->
        Cardinality(NearStones(h, stones, radius))]

-----------------------------------------------------------------------------
(* Win detection. *)

Owns(stones, cell, player) == cell \in DOMAIN stones /\ stones[cell] = player

(* collect_run: how many stones follow a cell along a direction.             *)
RunLength(stones, cell, d, player) ==
    CHOOSE n \in 0 .. Cardinality(DOMAIN stones) :
        /\ \A k \in 1 .. n : Owns(stones, Along(cell, d, k), player)
        /\ ~Owns(stones, Along(cell, d, n + 1), player)

(* Mutant: the start is not clamped to the run. *)
SelectStartUnclamped(len, pivot) == Larger(0, pivot - ((WinLength - 1) \div 2))

(* select_segment: where in a run of len stones, the last placed one at      *)
(* index pivot, the reported line starts.                                    *)
SelectStart(len, pivot) ==
    LET lo == Larger(0, pivot - (WinLength - 1))
        hi == Smaller(pivot, len - WinLength)
        preferred == Larger(0, pivot - ((WinLength - 1) \div 2))
    IN  Smaller(hi, Larger(lo, preferred))

LineThrough(stones, last, d, player) ==
    LET behind == RunLength(stones, last, <<-d[1], -d[2]>>, player)
        len == behind + 1 + RunLength(stones, last, d, player)
        start == SelectStart(len, behind)
    IN  IF len < WinLength THEN <<>>
        ELSE [i \in 1 .. WinLength |-> Along(last, d, start + i - 1 - behind)]

(* find_winning_line: the first of the three axes that has one. *)
FindWinningLine(stones, last, player) ==
    LET line(dir) == LineThrough(stones, last, Directions[dir], player)
        won == {dir \in DOMAIN Directions : line(dir) # <<>>}
    IN  IF won = {} THEN <<>>
        ELSE line(CHOOSE dir \in won : \A other \in won : dir <= other)

-----------------------------------------------------------------------------
(* Boards. *)

NewBoard ==
    [stones     |-> [c \in {} |-> 0],
     player     |-> 0,
     remaining  |-> 1,
     winner     |-> NoWinner,
     line       |-> <<>>,
     history    |-> <<>>,
     zobrist    |-> {},
     eval       |-> EmptyEval,
     candidates |-> NoCandidates,
     placement  |-> NoCandidates]

(* The hash is the XOR of a word per piece: the set of the pieces that were  *)
(* toggled an odd number of times.                                           *)
Toggle(zobrist, piece) ==
    IF piece \in zobrist THEN zobrist \ {piece} ELSE zobrist \cup {piece}

(* What commit_placement and set_position do alike: the stone, its record    *)
(* with the turn it is entered under, and every cache.                       *)
PutStone(b, cell, owner, player, remaining) ==
    LET stones == [c \in DOMAIN b.stones \cup {cell} |->
                      IF c = cell THEN owner ELSE b.stones[c]]
        record == [cell |-> cell, player |-> owner,
                   playerBefore |-> player, remainingBefore |-> remaining,
                   winnerBefore |-> b.winner, lineBefore |-> b.line]
    IN  [stones     |-> stones,
         player     |-> b.player,
         remaining  |-> b.remaining,
         winner     |-> b.winner,
         line       |-> b.line,
         history    |-> Append(b.history, record),
         zobrist    |-> Toggle(b.zobrist, <<owner, cell>>),
         eval       |-> EvalPlace(b.eval, cell, owner),
         candidates |-> CandidatesOnPlace(b.candidates, cell, stones, NearRadius),
         placement  |-> CandidatesOnPlace(b.placement, cell, stones, PlacementRadius)]

(* commit_placement: a line ends the game, the last stone ends the turn.     *)
Commit(b, cell) ==
    LET put == PutStone(b, cell, b.player, b.player, b.remaining)
        line == FindWinningLine(put.stones, cell, b.player)
    IN  IF line # <<>>
        THEN [put EXCEPT !.winner = b.player, !.line = line, !.remaining = 0]
        ELSE IF b.remaining > 1
        THEN [put EXCEPT !.remaining = b.remaining - 1]
        ELSE [put EXCEPT !.player = 1 - b.player, !.remaining = 2]

(* Mutant: the turn is derived from the present one. *)
UndoDerivingTurn(b) ==
    LET rec == b.history[Len(b.history)]
        stones == [c \in DOMAIN b.stones \ {rec.cell} |-> b.stones[c]]
    IN  [b EXCEPT
            !.stones = stones,
            !.player = rec.player,
            !.remaining = IF b.remaining = 2 THEN 1 ELSE 2,
            !.winner = rec.winnerBefore,
            !.line = rec.lineBefore,
            !.history = SubSeq(b.history, 1, Len(b.history) - 1),
            !.zobrist = Toggle(@, <<rec.player, rec.cell>>),
            !.eval = EvalUnplace(@),
            !.candidates = CandidatesOnUnplace(@, rec.cell, stones, NearRadius),
            !.placement = CandidatesOnUnplace(@, rec.cell, stones, PlacementRadius)]

(* unplace. *)
Undo(b) ==
    LET rec == b.history[Len(b.history)]
        stones == [c \in DOMAIN b.stones \ {rec.cell} |-> b.stones[c]]
    IN  [stones     |-> stones,
         player     |-> rec.playerBefore,
         remaining  |-> rec.remainingBefore,
         winner     |-> rec.winnerBefore,
         line       |-> rec.lineBefore,
         history    |-> SubSeq(b.history, 1, Len(b.history) - 1),
         zobrist    |-> Toggle(b.zobrist, <<rec.player, rec.cell>>),
         eval       |-> EvalUnplace(b.eval),
         candidates |-> CandidatesOnUnplace(b.candidates, rec.cell, stones, NearRadius),
         placement  |-> CandidatesOnUnplace(b.placement, rec.cell, stones, PlacementRadius)]

Over(b) == b.winner # NoWinner

(* validate_move *)
Valid(b, cell) ==
    /\ ~Over(b)
    /\ b.remaining # 0
    /\ cell \notin DOMAIN b.stones
    /\ IF DOMAIN b.stones = {} THEN cell = Origin ELSE cell \in DOMAIN b.placement

(* Mutant: a game that is over still has moves. *)
LegalMovesNearWhenOver(b, radius) ==
    IF DOMAIN b.stones = {} THEN {Origin} ELSE DOMAIN b.placement

(* legal_moves_near_into: the two maps are used for their radius, any other  *)
(* radius is a scan of the stones.                                           *)
LegalMovesNear(b, radius) ==
    LET r == Smaller(Larger(radius, 0), PlacementRadius)
    IN  IF Over(b) THEN {}
        ELSE IF DOMAIN b.stones = {} THEN {Origin}
        ELSE IF r = NearRadius /\ b.candidates # NoCandidates THEN DOMAIN b.candidates
        ELSE IF r = PlacementRadius /\ b.placement # NoCandidates THEN DOMAIN b.placement
        ELSE (UNION {Ball(s, r) : s \in DOMAIN b.stones}) \ DOMAIN b.stones

-----------------------------------------------------------------------------
VARIABLES
    board,    \* a HexGameState
    load,     \* the local state of a set_position or load_history that runs
    played    \* history: the board was not set up by set_position

vars == <<board, load, played>>

(* `next`, the board built on the side, and the turn set_position simulates  *)
(* for its records.                                                          *)
Loading(kind) ==
    [kind |-> kind, next |-> NewBoard, simPlayer |-> 0, simRemaining |-> 1]

NoLoad == Loading("none")

Init == board = NewBoard /\ load = NoLoad /\ played = TRUE

Stones(b) == Len(b.history)

Place(cell) ==
    /\ load = NoLoad
    /\ Stones(board) < (IF played THEN MaxStones ELSE MaxLoaded)
    /\ Valid(board, cell)
    /\ board' = Commit(board, cell)
    /\ UNCHANGED <<load, played>>

Unplace ==
    /\ load = NoLoad
    /\ board.history # <<>>
    /\ board' = Undo(board)
    /\ UNCHANGED <<load, played>>

Reset ==
    /\ load = NoLoad
    /\ board' = NewBoard
    /\ played' = TRUE
    /\ UNCHANGED load

(* A load reads nothing of the board it replaces: bounded to boards with one *)
(* stone.                                                                    *)
Replaceable == load = NoLoad /\ played /\ Stones(board) = 1

(* load_history: legal moves, each by the player whose turn it is.           *)
BeginHistory ==
    /\ Replaceable
    /\ load' = Loading("history")
    /\ UNCHANGED <<board, played>>

LoadMove(cell, owner) ==
    /\ load.kind = "history"
    /\ Stones(load.next) < MaxLoaded
    /\ owner = load.next.player
    /\ Valid(load.next, cell)
    /\ load' = [load EXCEPT !.next = Commit(load.next, cell)]
    /\ UNCHANGED <<board, played>>

HistoryLoaded ==
    /\ load.kind = "history"
    /\ board' = load.next
    /\ played' = TRUE
    /\ load' = NoLoad

(* set_position: any stones in any order, as long as they hang together.     *)
BeginPosition ==
    /\ Replaceable
    /\ load' = Loading("position")
    /\ UNCHANGED <<board, played>>

(* The simulated turn of set_position: it does not stop at a win. *)
LoadStone(cell, owner) ==
    LET b == load.next
        put == PutStone(b, cell, owner, load.simPlayer, load.simRemaining)
        line == FindWinningLine(put.stones, cell, owner)
    IN  /\ load.kind = "position"
        /\ Stones(b) < MaxLoaded
        /\ ~Over(b)
        /\ cell \notin DOMAIN b.stones
        /\ IF DOMAIN b.stones = {} THEN cell = Origin
           ELSE \E s \in DOMAIN b.stones : HexDistance(s, cell) <= PlacementRadius
        /\ load' = [load EXCEPT
                        !.next = IF line = <<>> THEN put
                                 ELSE [put EXCEPT !.winner = owner, !.line = line],
                        !.simPlayer = IF load.simRemaining = 1 THEN 1 - @ ELSE @,
                        !.simRemaining = IF @ = 1 THEN 2 ELSE @ - 1]
        /\ UNCHANGED <<board, played>>

(* The caller says whose turn it is. *)
PositionLoaded(player, remaining) ==
    /\ load.kind = "position"
    /\ board' = [load.next EXCEPT
                    !.player = player,
                    !.remaining = IF Over(load.next) THEN 0 ELSE remaining]
    /\ played' = FALSE
    /\ load' = NoLoad

(* An entry that is refused ends the load; the board is what it was.         *)
LoadRefused ==
    /\ load # NoLoad
    /\ load' = NoLoad
    /\ UNCHANGED <<board, played>>

Next ==
    \/ \E cell \in Offered : Place(cell)
    \/ Unplace
    \/ Reset
    \/ BeginHistory
    \/ \E cell \in Offered, owner \in Players : LoadMove(cell, owner)
    \/ HistoryLoaded
    \/ BeginPosition
    \/ \E cell \in Offered, owner \in Players : LoadStone(cell, owner)
    \/ \E player \in Players, remaining \in 1 .. 2 : PositionLoaded(player, remaining)
    \/ LoadRefused

Spec == Init /\ [][Next]_vars

-----------------------------------------------------------------------------
(* Properties. *)

(* The board the running call works on. *)
Current == IF load = NoLoad THEN board ELSE load.next

(* "A hex is present iff at least one stone lies within `radius` of it", and *)
(* its count is the number of those stones, after any sequence of            *)
(* placements, undos and loads; the hash is that of the stones.              *)
CachesMatchStones(b) ==
    /\ b.candidates = Recompute(b.stones, NearRadius)
    /\ b.placement = Recompute(b.stones, PlacementRadius)
    /\ b.zobrist = {<<b.stones[c], c>> : c \in DOMAIN b.stones}

CandidatesExact == CachesMatchStones(Current)

(* What the callers are offered is what place accepts: legal_moves against   *)
(* validate_move, and a smaller radius never offers more.                    *)
LegalMovesArePlayable ==
    LET legal == LegalMovesNear(board, PlacementRadius)
    IN  load = NoLoad =>
          /\ \A c \in legal \cup Offered : c \in legal <=> Valid(board, c)
          /\ \A r \in -1 .. PlacementRadius : LegalMovesNear(board, r) \subseteq legal

(* The evaluation is that of the stones on the board, although it only ever  *)
(* adds and subtracts what one stone changes, and skips windows off its grid.*)
EvalMatchesStones == EvalConsistent(Current.eval, Current.stones)

(* "After place/unplace round-trips the game state must be bit-identical":   *)
(* no field of the board remembers a stone that was tried and taken back,    *)
(* also when the stone won or ended a turn.                                  *)
UndoRestores ==
    [][load = NoLoad /\ Stones(board)' = Stones(board) + 1 => Undo(board') = board]_vars

HasLine(stones, player) ==
    \E s \in DOMAIN stones, dir \in DOMAIN Directions :
        \A off \in Offsets : Owns(stones, Along(s, Directions[dir], off), player)

(* A game is won exactly when there is a line, the reported line is one and  *)
(* goes through the stone that won, and no placement is left then.           *)
WinnerHasTheLine ==
    LET b == Current
    IN  /\ \A p \in Players : b.winner = p <=> HasLine(b.stones, p)
        /\ Over(b) =>
              \E dir \in DOMAIN Directions :
                 /\ \A i \in DOMAIN b.line :
                       /\ Owns(b.stones, b.line[i], b.winner)
                       /\ b.line[i] = Along(b.line[1], Directions[dir], i - 1)
                 /\ \E i \in DOMAIN b.line : b.line[i] = b.history[Len(b.history)].cell
        /\ load = NoLoad => (b.remaining = 0 <=> Over(b))

(* "Player 0 opens with exactly one placement", then two stones per turn, in *)
(* every record and for the player to move, after any undo or loaded game.   *)
TurnOrder ==
    LET n == Stones(board)
    IN  played =>
          /\ \A i \in 1 .. n : board.history[i].player = (i \div 2) % 2
          /\ ~Over(board) =>
                /\ board.player = ((n + 1) \div 2) % 2
                /\ board.remaining = IF n = 0 THEN 1 ELSE 1 + (n % 2)

(* Who moves and who has won, after any placements, undos and loads.         *)
RulesHold == TurnOrder /\ WinnerHasTheLine
=============================================================================
