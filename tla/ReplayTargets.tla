--------------------------- MODULE ReplayTargets ---------------------------
(* The targets a finished game gives its positions (buffer/targets.py), from *)
(* the records that _play_one_game writes (selfplay/worker.py). A game may   *)
(* begin in the middle of another one, even between the two placements of a  *)
(* turn. Values are in units that the decay divides without rest.            *)
EXTENDS Integers, Sequences, SequencesExt, FiniteSetsExt

CONSTANTS
    GameSpans,        \* <<first ply, max_game_moves>> of the games
    EarliestWin,      \* the first ply that can win
    RootValues,       \* values of the root, each the decay's denominator to a power
    Horizon,          \* one of lookahead_horizons, in turns
    LambdaNum,        \* its decay, as a fraction
    LambdaDen,
    NotFound          \* the code's None: a value or a row that was not found

ASSUME GameSpansOK == \A c \in GameSpans : c[1] \in Nat /\ c[2] \in Nat /\ c[1] < c[2]
ASSUME LambdaOK == LambdaDen \in Nat /\ LambdaNum \in 0 .. LambdaDen - 1 /\ Horizon \in Nat \ {0}
ASSUME NotFoundOK == NotFound \notin Int

VARIABLE tg    \* the game, and the targets of its positions once it is processed

(* The engine's rules: one placement, then two each.                         *)
PlyPlayer(ply) == ((ply + 1) \div 2) % 2
PlacementsLeft(ply) == IF ply % 2 = 1 THEN 2 ELSE 1

FromSide(value, from, to) == IF from = to THEN value ELSE -value

------------------------------------------------------------------------------
(* Targets. rows is the list of recorded positions.                          *)

(* Mutant: every second position starts a turn. *)
EverySecondStart(rows) == {i \in DOMAIN rows : i % 2 = 1}

(* hexo_turn_start_indices. *)
TurnStarts(rows) == {i \in DOMAIN rows : i = 1 \/ rows[i].player # rows[i - 1].player}

(* The start of the turn that is so many turns after the one of a position.  *)
StartAfter(rows, i, turns) ==
    LET before == Cardinality({b \in TurnStarts(rows) : b <= i})
        later == {b \in TurnStarts(rows) : Cardinality({c \in TurnStarts(rows) : c <= b}) = before + turns}
    IN  IF later = {} THEN NotFound ELSE Min(later)

(* compute_ema_lookahead, from the last position to the first.               *)
Lookahead(rows) ==
    LET look[i \in DOMAIN rows] ==
            LET j == StartAfter(rows, i, Horizon)
            IN  IF j = NotFound THEN rows[i].root
                ELSE ((LambdaDen - LambdaNum) * rows[i].root
                        + LambdaNum * FromSide(look[j], rows[j].player, rows[i].player)) \div LambdaDen
    IN  look

(* Mutant: the next searched position, whoever moves there. *)
NextSearched(rows, i) ==
    LET later == {j \in i + 1 .. Len(rows) : rows[j].full}
    IN  IF later = {} THEN NotFound ELSE Min(later)

(* _next_full_search_opponent_turn_start. *)
OpponentRow(rows, i) ==
    LET later == {j \in i + 1 .. Len(rows) : /\ rows[j].player # rows[i].player
                                             /\ rows[j - 1].player # rows[j].player
                                             /\ rows[j].full}
    IN  IF later = {} THEN NotFound ELSE Min(later)

(* Where the pair targets of a position come from: the pairs the search saw, *)
(* else, for a second placement, the stone placed first with the policy.     *)
PairSource(rows, i) ==
    IF rows[i].searched # "none" THEN "joint"
    ELSE IF i > 1 /\ rows[i - 1].player = rows[i].player THEN "known_first"
    ELSE "none"

(* _is_first_placement_turn_start, and whether the pairs are all there.      *)
PairComplete(rows, i) ==
    IF PairSource(rows, i) # "none" /\ (i = 1 \/ rows[i - 1].player # rows[i].player) /\ rows[i].ply > 0
    THEN rows[i].searched = "all"
    ELSE rows[i].complete

(* The squared errors of the values of the moves that were played.           *)
RegretSum(rows, i, outcome) ==
    FoldLeft(LAMBDA sum, row : sum + (row.chosen - FromSide(outcome, 0, row.player))
                                     * (row.chosen - FromSide(outcome, 0, row.player)),
             0, SubSeq(rows, i, Len(rows)))

(* process_game_record: what position i learns.                              *)
TargetsOf(game, i) ==
    LET rows == game.rows
        unknown == \E k \in i .. Len(rows) : rows[k].chosen = NotFound
    IN  [value |-> FromSide(game.outcome, 0, rows[i].player),
         valueWeight |-> IF game.truncated \/ game.outcome = 0 THEN 0 ELSE 1,
         lookahead |-> Lookahead(rows)[i],
         opponent |-> OpponentRow(rows, i),
         pair |-> PairSource(rows, i), complete |-> PairComplete(rows, i),
         regret |-> IF unknown THEN 0 ELSE RegretSum(rows, i, game.outcome),
         regretWeight |-> IF game.truncated \/ unknown THEN 0 ELSE 1,
         movesLeft |-> Max({Len(rows) - rows[i].ply, 0})]

------------------------------------------------------------------------------
(* A game. *)

NewGame(start, cap, full) ==
    [start |-> start, cap |-> cap, full |-> full, rows |-> <<>>, phase |-> "playing",
     outcome |-> 0, truncated |-> FALSE, targets |-> <<>>]

TargetsInit ==
    \E c \in GameSpans, full \in BOOLEAN : tg = NewGame(c[1], c[2], full)

(* One turn of the loop: search, record the position, place. The search of a *)
(* second placement sees no pairs, and its table counts as complete.         *)
Record ==
    /\ tg.phase = "playing"
    /\ LET ply == tg.start + Len(tg.rows)
           player == PlyPlayer(ply)
       IN  /\ ply < tg.cap
           /\ \E root \in RootValues, known, win \in BOOLEAN, searched \in {"none", "some", "all"} :
                /\ win => ply >= EarliestWin
                /\ PlacementsLeft(ply) = 1 => searched = "none"
                /\ tg' = [tg EXCEPT
                     !.rows = Append(@, [ply |-> ply, player |-> player, root |-> root, full |-> tg.full,
                                         chosen |-> IF known THEN FromSide(1, 0, player) ELSE NotFound,
                                         searched |-> searched,
                                         complete |-> searched = "all" \/ PlacementsLeft(ply) = 1]),
                     !.phase = IF win THEN "over" ELSE @,
                     !.outcome = IF win THEN FromSide(1, 0, player) ELSE @]

(* The loop is left at the cap, or where a request fails.                    *)
LeaveGame ==
    /\ tg.phase = "playing"
    /\ tg' = [tg EXCEPT !.phase = "over", !.truncated = TRUE]

(* A record with positions is processed; the buffer process does it again.   *)
Process ==
    /\ tg.phase \in {"over", "processed"} /\ tg.rows # <<>>
    /\ tg' = [tg EXCEPT !.phase = "processed", !.targets = [i \in DOMAIN tg.rows |-> TargetsOf(tg, i)]]

(* The next game of the worker.                                              *)
AnotherGame ==
    /\ tg.phase \in {"over", "processed"}
    /\ \E c \in GameSpans, full \in BOOLEAN : tg' = NewGame(c[1], c[2], full)

TargetsNext == Record \/ LeaveGame \/ Process \/ AnotherGame
TargetsSpec == TargetsInit /\ [][TargetsNext]_tg

------------------------------------------------------------------------------
(* Turns counted from the beginning of the game, whichever rows there are.   *)
TurnOf(ply) == (ply + 1) \div 2
FirstPly(turn) == IF turn = 0 THEN 0 ELSE 2 * turn - 1
RowAt(ply) == ply - tg.start + 1

(* What the lookahead of a ply should be: its root's value mixed with that   *)
(* of the first ply Horizon turns later, if the game got there.              *)
ExpectedLookahead ==
    LET value[i \in DOMAIN tg.rows] ==
            LET then == RowAt(FirstPly(TurnOf(tg.rows[i].ply) + Horizon))
            IN  IF then > Len(tg.rows) THEN tg.rows[i].root
                ELSE ((LambdaDen - LambdaNum) * tg.rows[i].root
                        + LambdaNum * (IF Horizon % 2 = 0 THEN value[then] ELSE -value[then])) \div LambdaDen
    IN  value

(* The lookahead target, found by counting the changes of the player among   *)
(* the recorded positions, is the one that counting turns from the beginning *)
(* of the game gives, also when the records begin inside a turn.             *)
LookaheadExact ==
    \A i \in DOMAIN tg.targets : tg.targets[i].lookahead = ExpectedLookahead[i]

(* The opponent's policy a position learns is the one of the very next turn, *)
(* at its first placement, if the game reached it with full searches; a pair *)
(* with the stone placed first is learned only where one placement is left,  *)
(* and joint pairs only where two are.                                       *)
TurnsAreKept ==
    \A i \in DOMAIN tg.targets :
        LET ply == tg.rows[i].ply
            next == RowAt(FirstPly(TurnOf(ply) + 1))
        IN  /\ tg.targets[i].opponent = IF tg.full /\ next <= Len(tg.rows) THEN next ELSE NotFound
            /\ tg.targets[i].pair = "known_first" => PlacementsLeft(ply) = 1 /\ ply > 0
            /\ tg.targets[i].pair = "joint" => PlacementsLeft(ply) = 2

(* A record teaches what its game was like: values, answers and pairs are    *)
(* those of the turns they are named for (process_game_record).              *)
TargetsOfTheGame == LookaheadExact /\ TurnsAreKept
=============================================================================
