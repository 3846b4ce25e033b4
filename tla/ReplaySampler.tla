--------------------------- MODULE ReplaySampler ---------------------------
(* How buffer/sampler.py turns records of the replay buffer into rows of a   *)
(* training batch: the position and its targets are moved by one of twelve   *)
(* symmetries, the position is encoded again (or found in a cache), and the  *)
(* targets are laid out as a dense plane, as candidate rows                  *)
(* (action_contract/candidates.py) and as pairs of candidate rows, the heads *)
(* for sparse and pair policies being enabled.                               *)
(* Probabilities are visit counts, kept as they are: a target plane or row   *)
(* is normalized by the counts it shows, pair targets by those of "whole".   *)
EXTENDS HexCore, SequencesExt, FiniteSetsExt

CONSTANTS
    Records,          \* position records in the buffer
    Symmetries,       \* symmetries that are drawn, 0 .. 11 in the code
    CropSize,         \* BOARD_SIZE: side of the encoded square, odd
    LegalRadius,      \* near_radius
    Budget,           \* candidate_budget
    MaxWidth,         \* the most candidate rows of a batch, 512 in the code
    CacheSize,        \* _tensor_cache_max
    BatchSize

ASSUME CropOK == CropSize \in Nat /\ CropSize % 2 = 1
ASSUME SymmetriesOK == Symmetries \subseteq 0 .. 11
ASSUME SizesOK == {Budget, MaxWidth, CacheSize, BatchSize} \subseteq Nat \ {0} /\ LegalRadius \in Nat

VARIABLE sampler    \* the two caches, the rows of the last batch, and whether it failed

Ids(entries) == [k \in DOMAIN entries |-> entries[k].cell]
Visits(entries) == [k \in DOMAIN entries |-> entries[k].visits]

(* The elements of a list that are in a set, and a list without repetitions. *)
Those(seq, S) == FoldLeft(LAMBDA out, x : IF x \in S THEN Append(out, x) ELSE out, <<>>, seq)
Unique(seq) == FoldLeft(LAMBDA out, x : IF Contains(out, x) THEN out ELSE Append(out, x), <<>>, seq)

Positive(entries) == Those(entries, {e \in ToSet(entries) : e.visits > 0})
Cut(seq, n) == SubSeq(seq, 1, Min({Len(seq), n}))

------------------------------------------------------------------------------
(* The symmetries.                                                           *)

(* _hex_transform. *)
Transform(cell, s) ==
    LET q == cell[1]
        r == cell[2]
    IN  << <<q, r>>, <<-r, q + r>>, <<-q - r, q>>, <<-q, -r>>, <<r, -q - r>>, <<q + r, -q>>,
           <<r, q>>, <<-q, q + r>>, <<-q - r, r>>, <<-r, -q>>, <<q, -q - r>>, <<q + r, -r>> >>[s + 1]

TransformHistory(h, s) == [k \in DOMAIN h |-> [h[k] EXCEPT !.cell = Transform(@, s)]]
TransformPolicy(policy, s) == [k \in DOMAIN policy |-> [policy[k] EXCEPT !.cell = Transform(@, s)]]

TransformPairs(pairs, s) ==
    [k \in DOMAIN pairs |-> [pairs[k] EXCEPT !.first = Transform(@, s), !.second = Transform(@, s)]]

(* _transform_axis_label: an axis has no orientation. *)
TransformAxis(axis, s) ==
    IF axis < 0 THEN axis
    ELSE CHOOSE i \in 0 .. 2 :
            Transform(Directions[axis + 1], s) \in {Directions[i + 1], Along(Origin, Directions[i + 1], -1)}

(* Length of the longest run of stones along an axis.                        *)
LongestRun(stones, i) ==
    Max({0} \cup {n \in 1 .. Cardinality(stones) :
                    \E c \in stones : \A m \in 0 .. n - 1 : Along(c, Directions[i + 1], m) \in stones})

(* _dominant_axis_label: the first axis with the winner's longest run.       *)
DominantAxis(stones) ==
    IF stones = {} THEN -1
    ELSE CHOOSE i \in 0 .. 2 : /\ \A j \in 0 .. 2 : LongestRun(stones, j) <= LongestRun(stones, i)
                               /\ \A j \in 0 .. i - 1 : LongestRun(stones, j) < LongestRun(stones, i)

------------------------------------------------------------------------------
(* Encoding.                                                                 *)

(* round(): half to even, of a sum of n numbers over n. *)
Rounded(sum, n) ==
    LET low == sum \div n
    IN  IF 2 * (sum % n) < n \/ (2 * (sum % n) = n /\ low % 2 = 0) THEN low ELSE low + 1

StonesOf(h) == {h[k].cell : k \in DOMAIN h}

(* encode_board: the square is centred on the mean of the stones.            *)
OffsetOf(h) ==
    LET mean(i) == Rounded(FoldLeft(LAMBDA n, m : n + m.cell[i], 0, h), Len(h))
        half == CropSize \div 2
    IN  IF h = <<>> THEN <<-half, -half>> ELSE <<mean(1) - half, mean(2) - half>>

LegalCells(h) ==
    IF h = <<>> THEN {Origin} ELSE (UNION {Ball(c, LegalRadius) : c \in StonesOf(h)}) \ StonesOf(h)

Encode(h) == [of |-> h, offset |-> OffsetOf(h), legal |-> LegalCells(h)]

(* What is left of an encoding when only its tensor is cached.               *)
TensorOnly(h) == [of |-> h, offset |-> <<-(CropSize \div 2), -(CropSize \div 2)>>, legal |-> {}]

Touch(cache, h) == Append(SelectSeq(cache, LAMBDA x : x # h), h)
Insert(cache, h) == IF Len(cache) < CacheSize THEN Append(cache, h) ELSE Append(Tail(cache), h)

(* _encode_tensor_meta: a hit in the first cache does not touch the second.  *)
Lookup(caches, h) ==
    IF Contains(caches.meta, h) THEN [enc |-> Encode(h), caches |-> [caches EXCEPT !.meta = Touch(@, h)]]
    ELSE IF Contains(caches.tensor, h)
    THEN [enc |-> TensorOnly(h), caches |-> [caches EXCEPT !.tensor = Touch(@, h)]]
    ELSE [enc |-> Encode(h),
          caches |-> [meta |-> Insert(caches.meta, h), tensor |-> Insert(caches.tensor, h)]]

------------------------------------------------------------------------------
(* Target layout.                                                            *)

InCrop(cell, offset) == {cell[1] - offset[1], cell[2] - offset[2]} \subseteq 0 .. CropSize - 1

(* dense_policy_from_v2: the entries in the square, at most n of them.       *)
Dense(policy, offset, n) ==
    Cut(SortSeq(SelectSeq(policy, LAMBDA e : InCrop(e.cell, offset)), LAMBDA a, b : a.visits > b.visits), n)

(* to_dense_policy and _transform_dense_policy: a policy of places counted   *)
(* from the centre of the square, turned about it; what is turned out of the *)
(* square is lost.                                                           *)
FromSquare(square, offset, s) ==
    LET half == CropSize \div 2
        onBoard(place) == <<offset[1] + half + place[1], offset[2] + half + place[2]>>
    IN  SelectSeq([k \in DOMAIN square |-> [square[k] EXCEPT !.cell = onBoard(Transform(@, s))]],
                  LAMBDA e : InCrop(e.cell, offset))

(* The plane of a policy: from its moved cells, or from the record's square  *)
(* where it has no cells.                                                    *)
DensePlane(policy, square, offset, s) ==
    IF policy # <<>> THEN Dense(policy, offset, Max({1, Len(square)})) ELSE FromSquare(square, offset, s)

RingOf(cell) == Max({Magnitude(cell[1]), Magnitude(cell[2]), Magnitude(cell[1] + cell[2])})

NearerFirst(a, b) ==
    \/ RingOf(a) < RingOf(b)
    \/ RingOf(a) = RingOf(b) /\ (a[1] < b[1] \/ (a[1] = b[1] /\ a[2] < b[2]))

(* The n first cells of a set in that order.                                 *)
Nearest(cells, n) ==
    [k \in 1 .. Min({n, Cardinality(cells)}) |->
        CHOOSE c \in cells : Cardinality({d \in cells : NearerFirst(d, c)}) = k - 1]

(* Mutant: the budget also cuts targets and tactical cells. *)
CandidateSetWithinBudget(legal, policy, tactical, budget) ==
    LET protected == Unique(Ids(Positive(policy)) \o Those(tactical, legal))
    IN  Cut(protected \o Nearest(legal \ ToSet(protected), budget), budget)

(* build_candidate_set: targets and tactical cells, then the nearest legal   *)
(* cells up to the budget.                                                   *)
CandidateSet(legal, policy, tactical, budget) ==
    LET protected == Unique(Ids(Positive(policy)) \o Those(tactical, legal))
    IN  protected \o Nearest(legal \ ToSet(protected), Max({0, budget - Len(protected)}))

(* build_candidate_batch: the rows, and whether critical ones are cut off.   *)
Candidates(legal, policy, tactical, budget, width) ==
    LET all == CandidateSet(legal, policy, tactical, budget)
        beyond == SubSeq(all, width + 1, Len(all))
        critical == ToSet(Ids(Positive(policy))) \cup ToSet(tactical)
    IN  [cells |-> Cut(all, width), overflow |-> ToSet(beyond) \cap critical # {}]

VisitsOf(policy, cell) == SumFunctionOnSet(Visits(policy), {k \in DOMAIN policy : policy[k].cell = cell})

LastCell(h) == IF h = <<>> THEN <<>> ELSE Last(h).cell
CellsOf(pair) == {pair.first, pair.second}
PairVisits(pairs, both) ==
    SumFunctionOnSet(Visits(pairs), {k \in DOMAIN pairs : pairs[k].visits > 0 /\ CellsOf(pairs[k]) = both})

(* The first stone of the turn is on the board: the pairs are told apart by  *)
(* their second cell, in a table of rows of their own headed by that stone.  *)
SecondRows(enc, targets, cells, width) ==
    LET seconds == Unique([k \in DOMAIN targets |-> targets[k].second]
                            \o Those(cells, enc.legal))
        table == <<LastCell(enc.of)>> \o Cut(seconds, width - 1)
        rows == [k \in 1 .. Min({Len(targets), width - 1}) |->
                        [rows |-> <<1, k + 1>>, visits |-> targets[k].visits]]
    IN  [table |-> table, rows |-> rows, whole |-> SumFunction(Visits(rows))]

(* build_pair_candidate_batch: unordered pairs of candidate rows; the visits *)
(* of a pair in both orders are added. The rows that fill the table carry no *)
(* target and are left out. The batch keeps as many rows as its width allows *)
(* and their shares of all the pairs the builder represented, "whole".       *)
JointRows(pairs, cells, width) ==
    LET positive == Positive(pairs)
        shown == Those(Unique([k \in DOMAIN positive |-> CellsOf(positive[k])]), SUBSET ToSet(cells))
        places(both) == {k \in DOMAIN cells : cells[k] \in both}
    IN  [table |-> cells,
         rows |-> [k \in 1 .. Min({Len(shown), width}) |->
                        [rows |-> <<Min(places(shown[k])), Max(places(shown[k]))>>,
                         visits |-> PairVisits(pairs, shown[k])]],
         whole |-> SumFunction([k \in DOMAIN shown |-> PairVisits(pairs, shown[k])])]

(* The targets a second placement is trained on.                             *)
SecondTargets(enc, pairs) ==
    Those(pairs, {p \in ToSet(pairs) : /\ p.visits > 0 /\ enc.of # <<>>
                                       /\ p.first = LastCell(enc.of) /\ p.first \notin enc.legal
                                       /\ p.second \in enc.legal})

(* build_pair_candidate_batch raises ValueError for such a pair.             *)
IllegalPair(enc, p) == p.visits > 0 /\ (p.first = p.second \/ ~(CellsOf(p) \subseteq enc.legal))

PairTargets(enc, pairs, cells, width) ==
    LET second == SecondTargets(enc, pairs)
    IN  IF second # <<>> THEN SecondRows(enc, second, cells, width)
        ELSE JointRows(pairs, cells, width)

PairsFail(enc, pairs) ==
    SecondTargets(enc, pairs) = <<>> /\ \E k \in DOMAIN pairs : IllegalPair(enc, pairs[k])

WidthFor(recs) ==
    Min({MaxWidth, Max({Budget} \cup {Len(recs[k].policy) : k \in DOMAIN recs}
                                \cup {Len(recs[k].opp) : k \in DOMAIN recs}
                                \cup {Len(recs[k].pairs) + 1 : k \in DOMAIN recs})})

(* One row of _sample_batch, from the record, the symmetry and the encoding. *)
SampledRow(rec, s, enc, width) ==
    LET policy == TransformPolicy(rec.policy, s)
        opp == TransformPolicy(rec.opp, s)
        pairs == TransformPairs(rec.pairs, s)
        tactical == Those([k \in DOMAIN rec.tactical |-> Transform(rec.tactical[k], s)], enc.legal)
        cand == Candidates(enc.legal, policy, tactical, width, width)
        full == IF rec.full THEN 1 ELSE 0
        cut == cand.overflow
        oppDense == DensePlane(opp, rec.oppSquare, enc.offset, s)
    IN  [rec |-> rec, sym |-> s, enc |-> enc,
         dense |-> DensePlane(policy, rec.square, enc.offset, s), oppDense |-> oppDense,
         axis |-> TransformAxis(rec.axis, s),
         cells |-> cand.cells,
         target |-> [k \in DOMAIN cand.cells |-> IF cut THEN 0 ELSE VisitsOf(policy, cand.cells[k])],
         pairs |-> IF cut THEN [table |-> <<>>, rows |-> <<>>, whole |-> 0]
                   ELSE PairTargets(enc, pairs, cand.cells, width),
         failed |-> ~cut /\ PairsFail(enc, pairs),
         weight |-> IF cut \/ rec.overflow THEN 0 ELSE full,
         oppWeight |-> IF cut \/ rec.overflow THEN 0
                       ELSE IF rec.oppFull \/ Positive(oppDense) # <<>> THEN 1 ELSE 0]

(* One more row of a batch, unless an earlier one raised an exception.       *)
AddRow(state, rec, s, width) ==
    LET found == Lookup(state.caches, TransformHistory(rec.history, s))
        row == SampledRow(rec, s, found.enc, width)
    IN  IF state.failed THEN state
        ELSE [caches |-> found.caches, rows |-> Append(state.rows, row), failed |-> row.failed]

(* What the worker records: a policy is a dict, which has a move once, by    *)
(* its cell and, in the encoded square, by its place from the centre; pairs  *)
(* are those of the children of the root's children, or a policy of the      *)
(* second placement after the first, so that an ordered pair is there once   *)
(* and its second cell was empty; the axis is that of the winner's stones.   *)
ASSUME RecordsOK ==
    \A rec \in Records :
        /\ rec.history \in Seq([player : Players, cell : Cells])
        /\ rec.policy \in Seq([cell : Cells, visits : Nat]) /\ IsInjective(Ids(rec.policy))
        /\ rec.opp \in Seq([cell : Cells, visits : Nat])
        /\ {rec.square, rec.oppSquare} \subseteq Seq([cell : Cells, visits : Nat])
        /\ rec.pairs \in Seq([first : Cells, second : Cells, visits : Nat])
        /\ IsInjective([k \in DOMAIN rec.pairs |-> <<rec.pairs[k].first, rec.pairs[k].second>>])
        /\ \A p \in ToSet(rec.pairs) : p.second \notin StonesOf(rec.history)
        /\ rec.tactical \in Seq(Cells)
        /\ rec.line \subseteq Cells /\ IsFiniteSet(rec.line) /\ rec.axis = DominantAxis(rec.line)

SamplerInit ==
    sampler = [caches |-> [meta |-> <<>>, tensor |-> <<>>], rows |-> <<>>, failed |-> FALSE]

(* _sample_batch with the records that the buffer's weighted choice gives. A *)
(* failed row ends the iterator, and with it the epoch.                      *)
SampleBatch ==
    /\ ~sampler.failed
    /\ \E recs \in [1 .. BatchSize -> Records], syms \in [1 .. BatchSize -> Symmetries] :
            sampler' = FoldLeft(LAMBDA st, k : AddRow(st, recs[k], syms[k], WidthFor(recs)),
                                [sampler EXCEPT !.rows = <<>>], [k \in 1 .. BatchSize |-> k])

SamplerSpec == SamplerInit /\ [][SampleBatch]_sampler

------------------------------------------------------------------------------

(* Every action of a row's policy target is one of its candidate rows with   *)
(* its share of the visits, at the cell the symmetry moved it to; or the row *)
(* says that critical actions were cut off and nothing is learned from it.   *)
NoTargetLostSilently ==
    \A i \in DOMAIN sampler.rows :
        LET row == sampler.rows[i]
            shown == {k \in DOMAIN row.cells : row.target[k] > 0}
        IN  \/ /\ row.weight = 0 /\ row.oppWeight = 0 /\ shown = {}
            \/ {<<row.cells[k], row.target[k]>> : k \in shown}
                    = {<<Transform(e.cell, row.sym), e.visits>> : e \in ToSet(Positive(row.rec.policy))}

(* A pair target points at two different rows of its table, which hold the   *)
(* cells of a pair of the record moved by the symmetry, and has the visits   *)
(* that the record counts for that pair in either order.                     *)
PairRowsPointHome ==
    \A i \in DOMAIN sampler.rows :
        LET row == sampler.rows[i]
            moved(p) == {Transform(c, row.sym) : c \in CellsOf(p)}
        IN  row.failed \/ \A t \in ToSet(row.pairs.rows) :
                /\ t.rows[1] # t.rows[2]
                /\ ToSet(t.rows) \subseteq DOMAIN row.pairs.table
                /\ \E p \in ToSet(row.rec.pairs) :
                        /\ moved(p) = {row.pairs.table[k] : k \in ToSet(t.rows)}
                        /\ t.visits = PairVisits(row.rec.pairs, CellsOf(p))

(* The axis a row is labelled with is the one of the winner's line after the *)
(* symmetry, where the longest run is on one axis only.                      *)
AxisFollowsTheBoard ==
    \A i \in DOMAIN sampler.rows :
        LET row == sampler.rows[i]
            line == {Transform(c, row.sym) : c \in row.rec.line}
            longest == {j \in 0 .. 2 : \A k \in 0 .. 2 : LongestRun(line, k) <= LongestRun(line, j)}
        IN  Cardinality(longest) = 1 => row.axis = DominantAxis(line)

(* Whatever the symmetry, the targets of a record come home: its policy at   *)
(* candidate rows, its pairs at pairs of rows, its axis on the line; or the  *)
(* row says that they do not fit and is not learned from.                    *)
TargetsComeHome == NoTargetLostSilently /\ PairRowsPointHome /\ AxisFollowsTheBoard

(* A row shows the position it was sampled for: its square is centred on the *)
(* stones of that position, and its legal moves are those of the position.   *)
SeesItsPosition ==
    \A i \in DOMAIN sampler.rows :
        LET row == sampler.rows[i]
        IN  row.enc = Encode(TransformHistory(row.rec.history, row.sym))
=============================================================================
