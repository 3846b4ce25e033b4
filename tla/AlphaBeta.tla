----------------------------- MODULE AlphaBeta -----------------------------
(* The classical search of crates/hexgame-core/src/search.rs: iterative      *)
(* deepening over turns with a principal-variation search, reductions, a     *)
(* transposition table that outlives the iterations, killer turns, and a     *)
(* deadline that may abort it at any node.  The game is a constant: its      *)
(* positions, the turns the generators offer there (named by the positions   *)
(* they lead to, best first), what tactical_status says and the evaluation.  *)
(* Only TLC uses this module: its operators are recursive.                   *)
EXTENDS Integers, Sequences, SequencesExt, FiniteSetsExt

CONSTANTS
    Start,          \* the position to move in
    Turns,          \* position -> sequence of positions
    Evaluations,    \* the functions position -> evaluation for the side to move
    Statuses,       \* the functions position -> "quiet", "block", "winning", "unblockable"
    Budgets,        \* nodes after which the time is up
    MaxDepth        \* of iterative_deepening

WinScore == 100000
Infinity == 1000000
Aspiration == 500
QuiesceDepth == 6

VARIABLE search

Value(v, s) == [value |-> v, s |-> s]
Negated(r) == [r EXCEPT !.value = -@]
Visit(s) == IF s.nodes >= s.budget THEN [s EXCEPT !.aborted = TRUE] ELSE [s EXCEPT !.nodes = @ + 1]
Lost(ply) == -(WinScore - ply - 1)

(* Mate scores are stored relative to the node they are found in.            *)
MateStore(v, ply) == IF v > WinScore - 200 THEN v + ply ELSE IF v < -(WinScore - 200) THEN v - ply ELSE v
MateLoad(v, ply) == IF v > WinScore - 200 THEN v - ply ELSE IF v < -(WinScore - 200) THEN v + ply ELSE v

(* quiesce: stand pat, then only the turns of the tactical status.           *)
RECURSIVE Quiesce(_, _, _, _, _, _), QuiesceTurns(_, _, _, _, _, _)
Quiesce(n, q, ply, alpha, beta, before) ==
    LET s == Visit(before)
        pat == s.eval[n]
        low == IF pat > alpha THEN pat ELSE alpha
    IN  IF before.aborted \/ s.aborted THEN Value(0, s)
        ELSE IF pat >= beta THEN Value(pat, s)
        ELSE IF q <= 0 \/ s.status[n] = "quiet" THEN Value(low, s)
        ELSE IF s.status[n] = "winning" THEN Value(WinScore - ply, s)
        ELSE IF s.status[n] = "unblockable" THEN Value(Lost(ply), s)
        ELSE QuiesceTurns(Turns[n], q, ply, low, beta, s)
QuiesceTurns(turns, q, ply, alpha, beta, s) ==
    IF turns = <<>> THEN Value(alpha, s)
    ELSE LET r == Negated(Quiesce(Head(turns), q - 1, ply + 1, -beta, -alpha, s))
         IN  IF r.s.aborted THEN Value(0, r.s)
             ELSE IF r.value >= beta THEN r
             ELSE QuiesceTurns(Tail(turns), q, ply, IF r.value > alpha THEN r.value ELSE alpha, beta, r.s)

(* promote_best_turns: two swaps.                                            *)
Swap(seq, i, j) == [seq EXCEPT ![i] = seq[j], ![j] = seq[i]]
Promote(turns, best, killer) ==
    LET at(seq, t, from) == {i \in from..Len(seq) : seq[i] = t}
        one == at(turns, best, 1)
        first == IF one = {} THEN turns ELSE Swap(turns, 1, CHOOSE i \in one : TRUE)
        start == IF one = {} THEN 1 ELSE 2
        two == at(first, killer, start)
    IN  IF two = {} THEN first ELSE Swap(first, start, CHOOSE i \in two : TRUE)

(* Mutant: an entry of a shallower search is used. *)
UsableAtAnyDepth(s, n, depth) == n \in DOMAIN s.tt

(* The entry that a search at this depth may use, and what it stores.        *)
Usable(s, n, depth) == n \in DOMAIN s.tt /\ s.tt[n].depth >= depth

Flag(best, alpha, beta) == IF best <= alpha THEN "upper" ELSE IF best >= beta THEN "lower" ELSE "exact"
StoreEntry(s, n, depth, ply, best, turn, alpha, beta) ==
    [s EXCEPT !.tt = [m \in DOMAIN @ \cup {n} |->
        IF m = n THEN [depth |-> depth, value |-> MateStore(best, ply), flag |-> Flag(best, alpha, beta), turn |-> turn]
        ELSE @[m]]]

Stored(c, best, turn, s) == Value(best, StoreEntry(s, c.n, c.depth, c.ply, best, turn, c.alpha, c.beta))

(* A null window and, when the value is inside the real one, that one.       *)
Null(alpha, beta) == <<[less |-> 0, high |-> alpha + 1], [less |-> 0, high |-> beta]>>

(* The searches of one turn: each has a reduction and the upper end of its   *)
(* window, and the next one follows while the value is above alpha.          *)
RECURSIVE AfterTurn(_, _, _, _, _, _), AlphaBeta(_, _, _, _, _, _)
RECURSIVE AlphaBetaTurns(_, _, _, _, _, _), Tries(_, _, _, _, _, _, _)
Tries(tries, turn, depth, ply, alpha, beta, s) ==
    LET try == tries[1]
        r == Negated(AlphaBeta(turn, depth - 1 - try.less, ply + 1, -try.high, -alpha, s))
    IN  IF Len(tries) > 1 /\ r.value > alpha /\ (try.less > 0 \/ r.value < beta) /\ ~r.s.aborted
        THEN Tries(Tail(tries), turn, depth, ply, alpha, beta, r.s) ELSE r

(* alphabeta, up to its turns.                                               *)
AlphaBeta(n, depth, ply, low, beta, before) ==
    LET s == Visit(before)
        usable == Usable(s, n, depth)
        e == s.tt[n]
        v == MateLoad(e.value, ply)
        alpha == IF usable /\ e.flag = "lower" /\ v > low THEN v ELSE low
        turns == Promote(Turns[n], IF n \in DOMAIN s.tt THEN e.turn ELSE "none", s.killers[ply])
    IN  IF before.aborted \/ s.aborted THEN Value(0, s)
        ELSE IF depth <= 0 THEN Quiesce(n, QuiesceDepth, ply, low, beta, s)
        ELSE IF s.status[n] = "winning" THEN Value(WinScore - ply, s)
        ELSE IF s.status[n] = "unblockable" THEN Value(Lost(ply), s)
        ELSE IF depth <= 2 /\ s.eval[n] - 2000 * depth >= beta THEN Value(s.eval[n], s)
        ELSE IF usable /\ (e.flag = "exact" \/ (e.flag = "lower" /\ v >= beta) \/ (e.flag = "upper" /\ v <= low))
        THEN Value(v, s)
        ELSE IF turns = <<>> THEN Value(s.eval[n], s)
        ELSE AlphaBetaTurns([n |-> n, depth |-> depth, ply |-> ply, alpha |-> alpha, beta |-> beta, turns |-> turns],
                            1, alpha, -Infinity, turns[1], s)

(* Its loop over the turns from index k on: what a turn's score changes, and *)
(* how the turn is searched.                                                 *)
AfterTurn(c, k, alpha, best, turn, r) ==
    LET best2 == IF r.value > best THEN r.value ELSE best
        turn2 == IF r.value > best THEN c.turns[k] ELSE turn
        alpha2 == IF r.value > alpha THEN r.value ELSE alpha
        cut == IF best2 < WinScore - 100 /\ -best2 < WinScore - 100
               THEN [r.s EXCEPT !.killers[c.ply] = c.turns[k]] ELSE r.s
    IN  IF r.s.aborted THEN Value(0, r.s)
        ELSE IF alpha2 >= c.beta THEN Stored(c, best2, turn2, cut)
        ELSE AlphaBetaTurns(c, k + 1, alpha2, best2, turn2, r.s)
AlphaBetaTurns(c, k, alpha, best, turn, s) ==
    LET calm == best > -(WinScore - 100)
        full == [less |-> 0, high |-> c.beta]
        reduced == [less |-> IF k > 10 THEN 2 ELSE 1, high |-> alpha + 1]
        tries == IF k = 1 THEN <<full>>
                 ELSE IF c.depth >= 2 /\ k > 2 /\ calm THEN <<reduced>> \o Null(alpha, c.beta)
                 ELSE Null(alpha, c.beta)
        skipped == c.depth <= 2 /\ k > 20 /\ calm
    IN  IF k > Len(c.turns) THEN Stored(c, best, turn, s)
        ELSE IF skipped THEN AlphaBetaTurns(c, k + 1, alpha, best, turn, s)
        ELSE AfterTurn(c, k, alpha, best, turn, Tries(tries, c.turns[k], c.depth, c.ply, alpha, c.beta, s))

(* search_root, from its k-th turn on: no reductions and no cut. An aborted  *)
(* search keeps the scores it had.                                           *)
RECURSIVE SearchRoot(_, _, _, _, _, _, _), AfterRootTurn(_, _, _, _, _, _, _)
AfterRootTurn(turns, k, depth, alpha, beta, found, r) ==
    LET scored == [found EXCEPT !.scores = [t \in DOMAIN @ \cup {turns[k]} |-> IF t = turns[k] THEN r.value ELSE @[t]],
                                !.value = IF r.value > @ THEN r.value ELSE @,
                                !.turn = IF r.value > found.value THEN turns[k] ELSE @]
    IN  IF r.s.aborted THEN [found |-> found, s |-> r.s]
        ELSE SearchRoot(turns, k + 1, depth, IF r.value > alpha THEN r.value ELSE alpha, beta, scored, r.s)
SearchRoot(turns, k, depth, alpha, beta, found, s) ==
    LET tries == IF k = 1 THEN <<[less |-> 0, high |-> beta]>> ELSE Null(alpha, beta)
    IN  IF k > Len(turns) THEN [found |-> found, s |-> s]
        ELSE AfterRootTurn(turns, k, depth, alpha, beta, found, Tries(tries, turns[k], depth, 0, alpha, beta, s))

(* One iteration of iterative_deepening: an aspiration window from depth 3   *)
(* on, and a second search with the full one when the score is outside it.   *)
Outside(value, window) == value <= window[1] \/ value >= window[2]
RECURSIVE Searched(_, _), Widened(_, _)
Widened(windows, r) ==
    IF Len(windows) > 1 /\ ~r.s.aborted /\ Outside(r.found.value, windows[1]) THEN Searched(Tail(windows), r.s) ELSE r
Searched(windows, s) ==
    Widened(windows, SearchRoot(s.turns, 1, s.depth + 1, windows[1][1], windows[1][2],
                                [turn |-> s.turns[1], value |-> -Infinity, scores |-> <<>>], s))
Finished(f, s) ==
    IF s.aborted THEN [s EXCEPT !.done = TRUE]
    ELSE [s EXCEPT !.depth = @ + 1, !.score = f.value, !.best = f.turn,
                   !.turns = SortSeq(@, LAMBDA t, u : f.scores[t] > f.scores[u]),
                   !.done = s.depth + 1 = MaxDepth \/ f.value >= WinScore - 100 \/ -f.value >= WinScore - 100]
Iterations(s) ==
    LET narrow == s.depth >= 2 /\ s.score < WinScore - 100 /\ -s.score < WinScore - 100
        full == <<-Infinity, Infinity>>
        windows == IF narrow THEN << <<s.score - Aspiration, s.score + Aspiration>>, full >> ELSE << full >>
    IN  {Finished(r.found, r.s) : r \in {Searched(windows, s)}}

NewSearch(e, k, b) ==
    [eval |-> e, status |-> k, budget |-> b, nodes |-> 0, aborted |-> FALSE, tt |-> <<>>,
     killers |-> [p \in 1..64 |-> "none"], depth |-> 0, score |-> 0, best |-> Turns[Start][1],
     turns |-> Turns[Start], done |-> FALSE]

SearchInit == \E e \in Evaluations, k \in Statuses, b \in Budgets : search = NewSearch(e, k, b)

SearchNext == ~search.done /\ search' \in Iterations(search)

(* What the search approximates: plain minimax to the same depth.            *)
RECURSIVE Minimax(_, _, _, _)
Minimax(s, n, depth, ply) ==
    IF depth <= 0 \/ Turns[n] = <<>> THEN s.eval[n]
    ELSE Max({-Minimax(s, Turns[n][k], depth - 1, ply + 1) : k \in DOMAIN Turns[n]})

(* In a quiet game the score of a finished iteration is that of minimax, and *)
(* the chosen turn attains it: through null windows, aspiration windows and  *)
(* the table entries of earlier iterations, also when a later one aborts.    *)
SearchIsExact ==
    search.depth > 0 =>
        /\ search.score = Minimax(search, Start, search.depth, 0)
        /\ search.score = -Minimax(search, search.best, search.depth - 1, 1)

(* Every entry of the table bounds minimax to its own depth, whatever window *)
(* it was found with and wherever the search was aborted.                    *)
TableIsSound ==
    \A n \in DOMAIN search.tt :
        LET e == search.tt[n]
            m == Minimax(search, n, e.depth, 0)
        IN  CASE e.flag = "exact" -> e.value = m
              [] e.flag = "lower" -> e.value <= m
              [] e.flag = "upper" -> e.value >= m

(* What the search says, and what it keeps for the next iteration, is true.  *)
SearchIsSound == SearchIsExact /\ TableIsSound
=============================================================================
