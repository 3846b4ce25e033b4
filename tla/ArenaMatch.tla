----------------------------- MODULE ArenaMatch -----------------------------
(* The games by which checkpoints are judged: run_arena with its matches     *)
(* (eval/series.py), the players it calls (players.py, classical.py), and     *)
(* what the supervisor makes of the results (_arena_checkpoint_vs_classical, *)
(* _evaluate_checkpoint_final, checkpoint_league.py). Without the extension  *)
(* a match is a mock that nobody's rules govern.                             *)
(* A history is the sequence of its cells: the player of a stone follows     *)
(* from its place. A step is one call of a side.                             *)
EXTENDS Integers, FiniteSets, Sequences, SequencesExt

CONSTANTS
    ArenaCells, ArenaFirst,   \* cells of the board, and where the first stone goes
    ArenaWins,       \* histories whose last stone completes a line
    MockCells,       \* what a player without a search may answer
    ArenaCentre,     \* the cells that count in a mock match
    Pairings,        \* who plays: pairs of "model" and "classical"
    ArenaGames,      \* num_games
    ArenaMoves,      \* max_moves
    MockFrom,        \* moves after which a mock match may end: 40
    MockEnds         \* pairs of a game's number and a count of moves where it does

ASSUME ArenaOK ==
    /\ ArenaFirst \in ArenaCells /\ <<>> \notin ArenaWins
    /\ ArenaGames \in Nat /\ ArenaMoves \in Nat \ {0} /\ MockFrom \in Nat
    /\ Pairings \subseteq {"model", "classical"} \X {"model", "classical"}

VARIABLE series

(* The engine's game: one stone, then two for each player in turn.           *)
PlayerAfter(h) == ((Len(h) + 1) \div 2) % 2
LineMade(h) == h \in ArenaWins
Offer(h) == IF LineMade(h) THEN {} ELSE IF h = <<>> THEN {ArenaFirst} ELSE ArenaCells \ ToSet(h)

(* place, with the exception of a stone that is refused ignored.             *)
PlaceOn(board, cell) == IF cell \in Offer(board) THEN Append(board, cell) ELSE board

------------------------------------------------------------------------------
(* The classical opponent keeps a game of its own, which classical_opponent_fn *)
(* resets and replays for every move; select_move replays it once more.       *)
ResetOpponent == [board |-> <<>>, played |-> 0]
Replay(o, h) == [o EXCEPT !.board = FoldLeft(PlaceOn, @, h)]
CatchUp(o, h) == IF o.played = 0 /\ h # <<>> THEN [Replay(o, h) EXCEPT !.played = Len(h)] ELSE o

(* Mutant: without the reset. *)
BeforeSearchKept(o, h) == CatchUp(Replay(o, h), h)
BeforeSearch(o, h) == CatchUp(Replay(ResetOpponent, h), h)

Crash == "crash"
NoMove == "none"
Answer(move, opponent) == [move |-> move, opponent |-> opponent]

(* select_move: the move found is placed on the opponent's own game; when the *)
(* search fails, the answer is a cell near the origin, empty or not.          *)
ClassicalAnswers(o) ==
    {Answer(cell, [o EXCEPT !.board = Append(@, cell), !.played = @ + 1]) : cell \in Offer(o.board)}
        \cup {Answer(cell, o) : cell \in MockCells}

(* NoisyModelPlayer and the greedy player of model_move_fn: a game of their   *)
(* own for every call, a legal move of it, or the model's exception.          *)
ModelAnswers(o, h) ==
    {Answer(cell, o) : cell \in IF Offer(h) = {} THEN {NoMove} ELSE Offer(h) \cup {Crash}}

(* Without the extension both answer what they like, unless the model raises. *)
Answers(kind, o, h) ==
    IF ~series.engine THEN {Answer(cell, o) : cell \in MockCells \cup (IF kind = "model" THEN {Crash} ELSE {})}
    ELSE IF kind = "classical" THEN ClassicalAnswers(BeforeSearch(o, h))
    ELSE ModelAnswers(o, h)

------------------------------------------------------------------------------
NoStats == [games |-> 0, a |-> 0, b |-> 0, draws |-> 0, moves |-> 0]
NoRecord == [games |-> 0, wins |-> 0, losses |-> 0, draws |-> 0]

ArenaInit ==
    \E engine \in BOOLEAN, kinds \in Pairings :
        series = [engine |-> engine, kinds |-> kinds, phase |-> "play", history |-> <<>>,
                  sides |-> <<ResetOpponent, ResetOpponent>>, results |-> <<>>, stats |-> NoStats,
                  colors |-> [black |-> NoRecord, white |-> NoRecord], failures |-> 0, matches |-> <<>>,
                  searched |-> [board |-> <<>>, given |-> <<>>]]

Game == Len(series.results)
BlackIsA == Game % 2 = 0

(* Side A is 1, side B is 2. In a mock match the players alternate.           *)
(* Mutant: the sides do not change colours. *)
SideOfFixed(player) == IF player = 0 THEN 1 ELSE 2
SideOf(player) == IF (player = 0) = BlackIsA THEN 1 ELSE 2
ToMove == IF series.engine THEN PlayerAfter(series.history) ELSE Len(series.history) % 2
Side == SideOf(ToMove)

(* MatchResult and what run_arena adds up. A winner is 0 for side A, 1 for    *)
(* side B, -1 for neither.                                                    *)
Count(stats, winner, moves) ==
    [stats EXCEPT !.games = @ + 1, !.moves = @ + moves,
                  !.a = @ + (IF winner = 0 THEN 1 ELSE 0), !.b = @ + (IF winner = 1 THEN 1 ELSE 0),
                  !.draws = @ + (IF winner = -1 THEN 1 ELSE 0)]

Finish(a, winner, reason) ==
    [a EXCEPT !.results = Append(@, [winner |-> winner, history |-> a.history, reason |-> reason,
                                     black |-> BlackIsA]),
              !.stats = Count(@, winner, Len(a.history)), !.history = <<>>,
              !.phase = IF Game + 1 = ArenaGames THEN "evaluate" ELSE "play"]

(* _play_engine_match after a side has answered.                              *)
WinnerOf(h) == SideOf(PlayerAfter(SubSeq(h, 1, Len(h) - 1))) - 1
Played(a, move) ==
    IF move \in {Crash, NoMove} THEN Finish(a, 2 - Side, move)
    ELSE IF move \notin Offer(a.history) THEN Finish(a, 2 - Side, "illegal")
    ELSE LET next == [a EXCEPT !.history = Append(@, move)] IN
         IF LineMade(next.history) THEN Finish(next, WinnerOf(next.history), "terminal")
         ELSE IF Len(next.history) = ArenaMoves THEN Finish(next, -1, "max_moves")
         ELSE next

(* _play_fallback_match: side A's stones near the centre are weighed against  *)
(* all other stones.                                                          *)
CentreMoves(h) == Len(SelectSeq([k \in DOMAIN h |-> <<k, h[k]>>],
                                LAMBDA m : m[2] \in ArenaCentre /\ SideOf((m[1] - 1) % 2) = 1))
MockPlayed(a, move) ==
    LET next == [a EXCEPT !.history = Append(@, move)]
        n == Len(next.history)
    IN  IF move = Crash THEN Finish(a, 2 - Side, move)
        ELSE IF n >= MockFrom /\ n % 2 = 0 /\ <<Game, n>> \in MockEnds
        THEN Finish(next, IF 2 * CentreMoves(next.history) > n THEN 0 ELSE 1, "terminal")
        ELSE IF n = ArenaMoves THEN Finish(next, IF n % 2 = 0 THEN 0 ELSE 1, "max_moves")
        ELSE next

AsksSide ==
    /\ series.phase = "play" /\ Game < ArenaGames
    /\ LET kind == series.kinds[Side]
           h == series.history
       IN  \E answer \in Answers(kind, series.sides[Side], h) :
              LET a == [series EXCEPT !.sides[Side] = answer.opponent,
                                      !.searched = IF kind = "classical" /\ series.engine
                                                   THEN [board |-> BeforeSearch(series.sides[Side], h).board, given |-> h]
                                                   ELSE @]
              IN  series' = IF series.engine THEN Played(a, answer.move) ELSE MockPlayed(a, answer.move)

------------------------------------------------------------------------------
(* _arena_checkpoint_vs_classical: results by the colour of side A. A failure *)
(* counts against the checkpoint whoever failed.                              *)
Bad(result) == result.reason \in {Crash, NoMove, "illegal"}

ColorRecord(black) ==
    LET results == series.results
        mine == {k \in DOMAIN results : results[k].black = black}
        won == {k \in mine : results[k].winner = 0}
        drawn == {k \in mine : results[k].winner = -1 /\ results[k].reason = "max_moves"}
    IN  [games |-> Cardinality(mine), wins |-> Cardinality(won), draws |-> Cardinality(drawn),
         losses |-> Cardinality(mine \ (won \cup drawn))]

CountsColors ==
    /\ series.phase = "evaluate"
    /\ series' = [series EXCEPT !.phase = "rate", !.failures = Len(SelectSeq(series.results, Bad)),
                              !.colors = [black |-> ColorRecord(TRUE), white |-> ColorRecord(FALSE)]]

(* _evaluate_checkpoint_final records the colours that were played, and a     *)
(* rating is worked out again from all matches of the checkpoint.             *)
RecordMatch(matches, record) == IF record.games > 0 THEN Append(matches, record) ELSE matches

Rating(matches) ==
    FoldLeft(LAMBDA r, m : [games |-> r.games + m.wins + m.losses + m.draws,
                            score2 |-> r.score2 + 2 * m.wins + m.draws], [games |-> 0, score2 |-> 0], matches)

RatesCheckpoint ==
    /\ series.phase = "rate"
    /\ series' = [series EXCEPT !.phase = "done",
                              !.matches = RecordMatch(RecordMatch(@, series.colors.black), series.colors.white)]

ArenaNext == AsksSide \/ CountsColors \/ RatesCheckpoint

ArenaSpec == ArenaInit /\ [][ArenaNext]_series

------------------------------------------------------------------------------
(* Who won a game of the engine: the owner of the colour that placed the      *)
(* stone that completed a line, the other side when one failed, nobody when   *)
(* the moves ran out; whatever colours the sides had.                         *)
OwnerA(r, player) == (player = 0) = r.black
RightWinner(r) ==
    LET last == SubSeq(r.history, 1, Len(r.history) - 1)
    IN  IF r.reason = "terminal"
        THEN LineMade(r.history) /\ (r.winner = 0 <=> OwnerA(r, PlayerAfter(last))) /\ r.winner \in {0, 1}
        ELSE /\ ~LineMade(r.history)
             /\ IF Bad(r) THEN (r.winner = 1 <=> OwnerA(r, PlayerAfter(r.history))) /\ r.winner \in {0, 1}
                          ELSE r.winner = -1 /\ Len(r.history) = ArenaMoves

(* The results say who won, half of the games with each colour, and the       *)
(* rating of the league is that of the results (run_arena,                    *)
(* _arena_checkpoint_vs_classical, _compute_rating).                          *)
ScoresAddUp ==
    /\ series.engine => \A k \in DOMAIN series.results : RightWinner(series.results[k])
    /\ \A k \in DOMAIN series.results : series.results[k].black = (k % 2 = 1)
    /\ series.stats.games = Game /\ series.stats.a + series.stats.b + series.stats.draws = Game
    /\ series.phase = "done" =>
          Rating(series.matches) = [games |-> Game, score2 |-> 2 * series.stats.a + series.stats.draws]

(* The classical opponent searches the position of the arena's game, although  *)
(* it keeps a game of its own from move to move and from match to match, and  *)
(* replays every history twice with the exceptions ignored.                   *)
OpponentSeesGame == series.searched.board = series.searched.given

(* A checkpoint is judged by the games that were played: the results name     *)
(* their winners and add up, and the opponent meant the position it was given *)
(* (run_arena, classical_opponent_fn, _arena_checkpoint_vs_classical).        *)
JudgedByItsGames == ScoresAddUp /\ OpponentSeesGame

=============================================================================
