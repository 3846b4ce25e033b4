------------------------------ MODULE GraphRows ------------------------------
(* The rows of a graph batch (graph/batch.py): a token for every stone and   *)
(* every legal move, and pairs of moves as references to two tokens. Two     *)
(* users must agree on them: the worker, which scores the pairs of a leaf in *)
(* chunks that fit the request area and blends the answers into the priors   *)
(* of the moves (selfplay/worker.py), and the sampler, which trains on the   *)
(* pairs of a record (buffer/sampler.py). A logit is the pair of cells that  *)
(* the network was shown; probabilities are visit counts, as they are there. *)
(* The tokens of hot cells, windows, lines, covers and components follow the *)
(* legal ones, no row refers to them, and they are left out.                 *)
EXTENDS ReplaySampler

CONSTANTS
    GraphChunk,      \* MAX_GRAPH_PAIRS
    CropChunk,       \* rows_per_chunk, MAX_CANDIDATES - 1 in the code
    PairLimits,      \* pair_strategy_max_pairs
    GraphRecords,    \* records of the buffer that graphs are built of
    GraphSymmetries

ASSUME ChunksOK == {GraphChunk, CropChunk} \cup PairLimits \subseteq Nat \ {0}

VARIABLE graph       \* the pairs being scored, or the batch that was collated

Nobody == [type |-> "none", cell |-> Origin]

(* current_turn_state: placements that are left in the turn.                 *)
Remaining(h) ==
    IF h = <<>> THEN 1
    ELSE IF Len(h) = 1 THEN 2
    ELSE IF h[Len(h) - 1].player = Last(h).player THEN 2 ELSE 1

(* The engine lists legal moves in the order of a hash table: two boards     *)
(* with the same stones may disagree on it.                                  *)
LegalInOrder(h, backwards) ==
    LET sorted == Nearest(LegalCells(h), Cardinality(LegalCells(h)))
    IN  IF backwards THEN Reverse(sorted) ELSE sorted

(* build_graph_batch_from_history without pair rows, as all callers ask.     *)
GraphOf(h, backwards) ==
    LET legal == LegalInOrder(h, backwards)
        head == [k \in 1 .. 4 |-> [type |-> <<"STATE", "TURN", "PLAYER", "PLAYER">>[k], cell |-> Origin]]
        stones == [k \in DOMAIN h |-> [type |-> "STONE", cell |-> h[k].cell]]
    IN  [tokens |-> head \o stones \o [k \in DOMAIN legal |-> [type |-> "LEGAL", cell |-> legal[k]]],
         legal |-> legal,
         legalTokens |-> [k \in DOMAIN legal |-> 4 + Len(h) + k],
         remaining |-> Remaining(h)]

(* The unordered pairs of n rows, in the order of the loops over them.       *)
PairTable(n) ==
    FoldLeft(LAMBDA out, a : out \o [k \in 1 .. n - a |-> <<a, a + k>>], <<>>, [a \in 1 .. n |-> a])

------------------------------------------------------------------------------
(* Scoring a leaf in chunks.                                                 *)

(* _graph_stone_token_for_qr *)
StoneToken(g, cell) == Min({t \in DOMAIN g.tokens : g.tokens[t] = [type |-> "STONE", cell |-> cell]})

(* A scored row: the pair it is filed under (pair_qr) and its logit.         *)
ScoredRow(filed, first, second) == [filed |-> filed, logit |-> <<first, second>>]

(* _score_graph_pair_chunks: the rows of the next chunk. *)
GraphChunkRows(s) ==
    LET g == s.g
        first == StoneToken(g, s.first)
        table == IF g.remaining = 1 THEN [k \in DOMAIN g.legal |-> <<0, k>>] ELSE PairTable(Len(g.legal))
        stop == Min({Len(s.rows) + GraphChunk, Len(table), s.limit})
        row(a, b) ==
            ScoredRow(<<IF a = 0 THEN s.first ELSE g.legal[a], g.legal[b]>>,
                      g.tokens[IF a = 0 THEN first ELSE g.legalTokens[a]].cell,
                      g.tokens[g.legalTokens[b]].cell)
    IN  [k \in 1 .. stop - Len(s.rows) |-> row(table[Len(s.rows) + k][1], table[Len(s.rows) + k][2])]

(* The anchor of a crop chunk: the stone of the turn, or a legal move.       *)
Anchor(s) == IF s.g.remaining = 1 THEN s.first ELSE s.g.legal[s.anchor]

CropStop(s) == Min({s.start + CropChunk - 1, Len(s.g.legal), s.start + s.limit - Len(s.rows) - 1})

(* _score_crop_pair_chunks: one anchor and some seconds, as candidate rows   *)
(* of their own, all of them critical.                                       *)
CropChunkRows(s) ==
    LET seconds == SubSeq(s.g.legal, s.start, CropStop(s))
        asked == <<Anchor(s)>> \o seconds
        shown == Candidates(ToSet(asked), <<>>, asked, Len(asked), Len(asked)).cells
    IN  [k \in DOMAIN seconds |-> ScoredRow(<<Anchor(s), seconds[k]>>, shown[1], shown[k + 1])]

(* The loops go on in the row of the anchor, or with the next anchor.        *)
AfterCrop(s) ==
    IF CropStop(s) < Len(s.g.legal) THEN [s EXCEPT !.start = CropStop(s) + 1]
    ELSE [s EXCEPT !.anchor = @ + 1, !.start = s.anchor + 2]

LoopsOver(s) ==
    \/ Len(s.rows) >= s.limit
    \/ IF s.way = "graph" THEN GraphChunkRows(s) = <<>>
       ELSE IF s.g.remaining = 1 THEN s.anchor > 1 ELSE s.anchor >= Len(s.g.legal)

(* A root or leaf is handed to the scoring function; leaves are scored for   *)
(* graph models only. At the root of the first move the turn has no stone    *)
(* yet and the scoring raises; the leaf asks for the stone before.           *)
StartScoring ==
    /\ graph.stage = "idle"
    /\ \E rec \in GraphRecords, way \in {"graph", "crop"}, at \in {"root", "leaf"},
          backwards \in BOOLEAN, limit \in PairLimits :
            /\ at = "leaf" => way = "graph" /\ rec.history # <<>>
            /\ graph' =
                IF rec.history = <<>> THEN [stage |-> "raised", opening |-> TRUE]
                ELSE [stage |-> "scoring", way |-> way, at |-> at, g |-> GraphOf(rec.history, backwards),
                      first |-> LastCell(rec.history), limit |-> limit, rows |-> <<>>, asked |-> <<>>,
                      anchor |-> 1, start |-> IF Remaining(rec.history) = 1 THEN 1 ELSE 2]

(* client.submit_graph or submit_sparse_pair for one chunk, and its answer.  *)
SubmitChunk ==
    /\ graph.stage = "scoring" /\ ~LoopsOver(graph)
    /\ LET rows == IF graph.way = "graph" THEN GraphChunkRows(graph) ELSE CropChunkRows(graph)
           next == IF graph.way = "graph" THEN graph ELSE AfterCrop(graph)
       IN  graph' = [next EXCEPT !.rows = @ \o rows, !.asked = Append(@, Len(rows))]

(* _pair_logits_to_action_logits: a move collects the pairs that name it.    *)
PairsOfMove(rows, cell) ==
    {rows[k].logit : k \in {k \in DOMAIN rows : cell \in ToSet(rows[k].filed)}}

(* The blending of a leaf, in the order of the graph: second placements only *)
(* when every legal move was scored.                                         *)
BlendedLogits(s) ==
    [k \in DOMAIN s.g.legal |->
        [place |-> s.g.tokens[s.g.legalTokens[k]].cell,
         pairs |-> IF s.g.remaining = 2 THEN PairsOfMove(s.rows, s.g.legal[k])
                   ELSE IF Len(s.rows) = Len(s.g.legal) THEN {s.rows[k].logit} ELSE {}]]

(* Mutant: rows are taken in the order of the graph.                         *)
AlignedByPosition(g, rust, logits) == logits

(* _align_global_logits_to_rust_legal: rows are found by their cell.         *)
Aligned(g, rust, logits) ==
    [k \in DOMAIN rust |-> logits[CHOOSE j \in DOMAIN g.legal : g.legal[j] = rust[k]]]

(* expand_and_backprop is given one prior for each move, in its own order.   *)
ExpandLeaf ==
    /\ graph.stage = "scoring" /\ LoopsOver(graph) /\ graph.at = "leaf"
    /\ \E backwards \in BOOLEAN :
            LET rust == IF backwards THEN Reverse(graph.g.legal) ELSE graph.g.legal
            IN  graph' = [stage |-> "scored", s |-> graph, rust |-> rust,
                          priors |-> Aligned(graph.g, rust, BlendedLogits(graph))]

(* apply_root_pair_priors and apply_root_pair_second_priors refuse rows that *)
(* do not fit the children of the root.                                      *)
RootRefuses(s) ==
    \E k \in DOMAIN s.rows :
        LET both == s.rows[k].filed
        IN  \/ both[1] = both[2] \/ both[2] \notin ToSet(s.g.legal)
            \/ IF s.g.remaining = 1 THEN both[1] # s.first
               ELSE \/ both[1] \notin ToSet(s.g.legal)
                    \/ \E j \in 1 .. k - 1 : ToSet(s.rows[j].filed) = ToSet(both)

(* pair_mass: both moves of a pair share its mass, or the second one has it. *)
PairMass(s, cell) ==
    {s.rows[k].logit : k \in {k \in DOMAIN s.rows :
        IF s.g.remaining = 1 THEN s.rows[k].filed[2] = cell ELSE cell \in ToSet(s.rows[k].filed)}}

(* The children of the root get their own logit, then the mass of the pairs. *)
ExpandRoot ==
    /\ graph.stage = "scoring" /\ LoopsOver(graph) /\ graph.at = "root"
    /\ \E backwards \in BOOLEAN :
            LET rust == IF backwards THEN Reverse(graph.g.legal) ELSE graph.g.legal
                place == [k \in DOMAIN graph.g.legal |-> graph.g.tokens[graph.g.legalTokens[k]].cell]
                own == Aligned(graph.g, rust, place)
            IN  graph' = IF RootRefuses(graph) THEN [stage |-> "raised", opening |-> FALSE]
                         ELSE [stage |-> "scored", s |-> graph, rust |-> rust,
                               priors |-> [k \in DOMAIN rust |->
                                    [place |-> own[k], pairs |-> PairMass(graph, rust[k])]]]

------------------------------------------------------------------------------
(* Training rows.                                                            *)

(* _pair_policy_target_is_complete, when the record is made.                 *)
Complete(rec) ==
    LET pairs == Positive(rec.pairs)
        legal == LegalCells(rec.history)
    IN  \/ Remaining(rec.history) = 1 \/ Cardinality(legal) < 2
        \/ /\ Len(pairs) = Len(PairTable(Cardinality(legal)))
           /\ \A k \in DOMAIN pairs : pairs[k].first # pairs[k].second /\ CellsOf(pairs[k]) \subseteq legal
           /\ Cardinality({CellsOf(p) : p \in ToSet(pairs)}) = Len(pairs)

(* _target_for_legal: a row for each legal move, or an error.                *)
LegalRows(legal, policy) == [k \in DOMAIN legal |-> VisitsOf(policy, legal[k])]
LegalFails(legal, policy) == ~(ToSet(Ids(Positive(policy))) \subseteq ToSet(legal))

(* _pair_first_target_for_legal *)
FirstRows(g, pairs) ==
    [k \in DOMAIN g.legal |->
        IF g.remaining < 2 THEN 0
        ELSE SumFunctionOnSet(Visits(pairs), {n \in DOMAIN pairs : pairs[n].first = g.legal[k] /\ pairs[n].second # g.legal[k]})]

(* Mutant: the turn's first stone is taken to be the first of the game.      *)
ReferencesFromTheOpening(g) ==
    LET stones == {t \in DOMAIN g.tokens : g.tokens[t].type = "STONE"}
        table == PairTable(Len(g.legal))
    IN  IF g.remaining = 2 THEN [k \in DOMAIN table |-> <<g.legalTokens[table[k][1]], g.legalTokens[table[k][2]]>>]
        ELSE IF stones = {} THEN <<>>
        ELSE [k \in DOMAIN g.legal |-> <<Min(stones), g.legalTokens[k]>>]

(* graph_batch_with_reference_pair_rows: the references of the pair rows.    *)
References(g) ==
    LET stones == {t \in DOMAIN g.tokens : g.tokens[t].type = "STONE"}
        table == PairTable(Len(g.legal))
    IN  IF g.remaining = 2 THEN [k \in DOMAIN table |-> <<g.legalTokens[table[k][1]], g.legalTokens[table[k][2]]>>]
        ELSE IF stones = {} THEN <<>>
        ELSE [k \in DOMAIN g.legal |-> <<Max(stones), g.legalTokens[k]>>]

(* _target_for_pairs: the visits of each row, or an error.                   *)
PairVisitsAt(g, pairs, ref) ==
    LET first == g.tokens[ref[1]].cell
        second == g.tokens[ref[2]].cell
    IN  IF g.remaining = 1 THEN SumFunctionOnSet(Visits(pairs), {n \in DOMAIN pairs : pairs[n].second = second})
        ELSE PairVisits(pairs, {first, second})

GraphPairsFail(g, refs, pairs) ==
    \E p \in ToSet(Positive(pairs)) :
        \/ refs = <<>>
        \/ p.first = p.second
        \/ p.second \notin ToSet(g.legal)
        \/ IF g.remaining = 1 THEN p.first # g.tokens[refs[1][1]].cell ELSE p.first \notin ToSet(g.legal)

(* _sample_batch's graph of one record, g being that of its position.        *)
TargetsOn(g, rec, s) ==
    LET policy == TransformPolicy(rec.policy, s)
        opp == TransformPolicy(rec.opp, s)
        oppLegal == [k \in DOMAIN rec.oppLegal |-> Transform(rec.oppLegal[k], s)]
        pairs == TransformPairs(rec.pairs, s)
        refs == IF pairs = <<>> THEN <<>> ELSE References(g)
    IN  [g |-> g, policy |-> LegalRows(g.legal, policy),
         oppLegal |-> oppLegal, opp |-> LegalRows(oppLegal, opp), first |-> FirstRows(g, pairs),
         refs |-> refs, visits |-> [k \in DOMAIN refs |-> PairVisitsAt(g, pairs, refs[k])],
         failed |-> \/ rec.opp # <<>> /\ rec.oppLegal = <<>>
                    \/ g.remaining = 2 /\ ~rec.complete
                    \/ LegalFails(g.legal, policy) \/ LegalFails(oppLegal, opp)
                    \/ GraphPairsFail(g, refs, pairs)]
GraphRow(rec, s, backwards) == TargetsOn(GraphOf(TransformHistory(rec.history, s), backwards), rec, s)

Padded(seq, n, fill) == seq \o [k \in 1 .. n - Len(seq) |-> fill]

(* collate_graph_batches: all tables become as long as the longest.          *)
Collated(rows) ==
    LET longest(f(_)) == Max({Len(f(rows[i])) : i \in DOMAIN rows})
        t == longest(LAMBDA r : r.g.tokens)
        a == longest(LAMBDA r : r.g.legal)
        o == longest(LAMBDA r : r.oppLegal)
        p == longest(LAMBDA r : r.refs)
    IN  [i \in DOMAIN rows |->
            [tokens |-> Padded(rows[i].g.tokens, t, Nobody),
             legal |-> Padded(rows[i].g.legal, a, Origin), mask |-> Len(rows[i].g.legal),
             policy |-> Padded(rows[i].policy, a, 0), first |-> Padded(rows[i].first, a, 0),
             oppLegal |-> Padded(rows[i].oppLegal, o, Origin), oppMask |-> Len(rows[i].oppLegal),
             opp |-> Padded(rows[i].opp, o, 0),
             refs |-> Padded(rows[i].refs, p, <<-1, -1>>), visits |-> Padded(rows[i].visits, p, 0)]]

(* A batch of two records; a row that raises ends the iterator.              *)
TrainGraphs ==
    /\ graph.stage = "idle"
    /\ \E recs \in [1 .. 2 -> GraphRecords], s \in GraphSymmetries, backwards \in BOOLEAN :
        \E rows \in {[i \in 1 .. 2 |-> GraphRow(recs[i], s, backwards)]} :
                graph' = [stage |-> "batch", recs |-> recs, sym |-> s,
                          failed |-> \E i \in 1 .. 2 : rows[i].failed,
                          rows |-> IF \E i \in 1 .. 2 : rows[i].failed THEN <<>> ELSE Collated(rows)]

(* A behaviour is one leaf or one batch: nothing is kept for the next.       *)
GraphInit == graph = [stage |-> "idle"]
GraphNext == StartScoring \/ SubmitChunk \/ ExpandLeaf \/ ExpandRoot \/ TrainGraphs
GraphSpec == GraphInit /\ [][GraphNext]_graph

------------------------------------------------------------------------------

(* The pairs of a leaf are scored in chunks that fit, each pair once, filed  *)
(* under the cells the network was shown, and all of them unless the limit   *)
(* is lower; every move of the engine then gets the logit of its own token   *)
(* and of the pairs it is part of, whatever order the engine lists it in. A  *)
(* leaf keeps its own logits when not every second placement was scored. The *)
(* engine refuses no rows; only the first move of a game raises.             *)
ScoresEveryPairOnce ==
    /\ graph.stage = "raised" => graph.opening
    /\ graph.stage = "scored" =>
        LET s == graph.s
            pairs == {ToSet(s.rows[k].filed) : k \in DOMAIN s.rows}
            all == IF s.g.remaining = 1 THEN {{s.first, c} : c \in ToSet(s.g.legal)}
                   ELSE kSubset(2, ToSet(s.g.legal))
        IN  /\ \A k \in DOMAIN s.rows : s.rows[k].filed = s.rows[k].logit
            /\ Cardinality(pairs) = Len(s.rows) /\ pairs \subseteq all
            /\ Len(s.rows) = Min({s.limit, Cardinality(all)})
            /\ \A k \in DOMAIN s.asked : s.asked[k] \in 1 .. IF s.way = "graph" THEN GraphChunk ELSE CropChunk
            /\ \A k \in DOMAIN graph.rust :
                    LET prior == graph.priors[k]
                        own == {both \in pairs : graph.rust[k] \in both}
                    IN  /\ prior.place = graph.rust[k]
                        /\ {ToSet(logit) : logit \in prior.pairs} =
                                IF s.at = "leaf" /\ s.g.remaining = 1 /\ pairs # all THEN {} ELSE own

(* A record the worker makes: the moves of its targets are legal, the second *)
(* placement's pairs begin with the turn's first stone.                      *)
Fits(rec) ==
    /\ rec.opp # <<>> => rec.oppLegal # <<>>
    /\ rec.complete
    /\ ~LegalFails(rec.oppLegal, rec.opp) /\ ToSet(Ids(Positive(rec.policy))) \subseteq LegalCells(rec.history)
    /\ \A p \in ToSet(Positive(rec.pairs)) :
            IF Remaining(rec.history) = 1 THEN p.first = LastCell(rec.history) /\ p.second \in LegalCells(rec.history)
            ELSE p.first # p.second /\ CellsOf(p) \subseteq LegalCells(rec.history)

(* A batch trains on what its records hold: read through its padded tables,  *)
(* every row has the visits of its record at the cells the symmetry moved    *)
(* them to, pairs refer to stone and legal tokens, padding carries nothing,  *)
(* and no batch of fitting records is refused.                               *)
GraphTargetsComeHome ==
    graph.stage = "batch" =>
        LET moved(c) == Transform(c, graph.sym)
            table(policy) == {<<moved(e.cell), VisitsOf(policy, e.cell)>> : e \in ToSet(Positive(policy))}
            shown(cells, visits, n) == {<<cells[k], visits[k]>> : k \in {k \in 1 .. n : visits[k] > 0}}
        IN  /\ graph.failed => \E i \in 1 .. 2 : ~Fits(graph.recs[i])
            /\ \A i \in DOMAIN graph.rows :
                LET rec == graph.recs[i]
                    row == graph.rows[i]
                    used == {k \in DOMAIN row.refs : row.refs[k][1] >= 0}
                    cells(k) == {row.tokens[row.refs[k][1]].cell, row.tokens[row.refs[k][2]].cell}
                IN  /\ shown(row.legal, row.policy, row.mask) = table(rec.policy)
                    /\ shown(row.oppLegal, row.opp, row.oppMask) = table(rec.opp)
                    /\ \A k \in used : /\ row.tokens[row.refs[k][2]].type = "LEGAL"
                                       /\ row.tokens[row.refs[k][1]].type =
                                            IF Remaining(rec.history) = 1 THEN "STONE" ELSE "LEGAL"
                    /\ \A k \in DOMAIN row.refs \ used : row.visits[k] = 0
                    /\ {<<cells(k), row.visits[k]>> : k \in {k \in used : row.visits[k] > 0}} =
                            {<<{moved(c) : c \in CellsOf(p)}, PairVisits(rec.pairs, CellsOf(p))>> :
                                p \in ToSet(Positive(rec.pairs))}

(* The rows of a graph batch mean what their position says: the pairs that   *)
(* are scored, and the targets that are learned (_score_graph_pair_chunks,   *)
(* collate_graph_batches).                                                   *)
GraphRowsExact == ScoresEveryPairOnce /\ GraphTargetsComeHome
=============================================================================
