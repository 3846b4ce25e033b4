----------------------------- MODULE BatchLayout -----------------------------
(* How the server lays the requests of several workers out as one batch and  *)
(* hands the rows back (server.py _build_batch, _build_sparse_inputs,        *)
(* _forward and _scatter_results; client.py submit, submit_sparse and        *)
(* submit_sparse_pair). InferenceChannel has the order of events; here a     *)
(* call, a batch and a return are one step each and the arrays have their    *)
(* rows and columns. A tensor row is <<worker, call, row>>; the model        *)
(* answers a row with the row and a column with <<row, column>>, so that     *)
(* whatever ends up somewhere else is seen.                                  *)
EXTENDS Integers, FiniteSets, Sequences, SequencesExt, FiniteSetsExt

CONSTANTS
    BatchWorkers,   \* worker numbers
    SlotRows,       \* positions of a call, at most
    Columns,        \* candidates or pairs of a call, at most
    BatchCalls      \* calls of all workers (bound)

ASSUME LayoutOK == /\ BatchWorkers \subseteq Nat /\ IsFiniteSet(BatchWorkers) /\ BatchCalls \in Nat
                   /\ SlotRows \in Nat \ {0} /\ Columns \in Nat \ {0}

Slots == 1 .. SlotRows
Blank == [r \in Slots |-> [c \in 1 .. Columns |-> <<>>]]

(* layout[w]: the request and response arrays of slot w, and the call.       *)
VARIABLE layout

LayoutInit ==
    layout = [w \in BatchWorkers |->
                [state |-> "idle", call |-> 0, count |-> 0, k |-> 0, p |-> 0,
                 tensor |-> [r \in Slots |-> <<>>], cands |-> [r \in Slots |-> 0],
                 pairs |-> [r \in Slots |-> 0], policy |-> [r \in Slots |-> <<>>],
                 sparse |-> Blank, joint |-> Blank]]

(* The first count elements of an array get new values.                      *)
Prefixed(array, count, new(_)) == [r \in DOMAIN array |-> IF r <= count THEN new(r) ELSE array[r]]

(* submit has no candidates (k = 0), submit_sparse no pairs (p = 0).         *)
WriteRequest(w, count, k, p) ==
    LET s == layout[w]
        call == s.call + 1
    IN  /\ s.state = "idle" /\ FoldSet(LAMBDA v, n : n + layout[v].call, 0, BatchWorkers) < BatchCalls
        /\ p > 0 => k > 0
        /\ layout' = [layout EXCEPT ![w] =
              [s EXCEPT !.state = "waiting", !.call = call, !.count = count, !.k = k, !.p = p,
                        !.tensor = Prefixed(@, count, LAMBDA r : <<w, call, r>>),
                        !.cands = [r \in Slots |-> IF r <= count THEN k
                                                   ELSE IF k \in 1 .. Columns - 1 /\ p = 0
                                                   THEN 0 ELSE @[r]],
                        !.pairs = Prefixed(@, count, LAMBDA r : p)]]

------------------------------------------------------------------------------
(* The rows of a batch, worker after worker in index order.                  *)
Place(ready, w) == Cardinality({v \in ready : v < w}) + 1
Order(ready) == [i \in 1 .. Cardinality(ready) |-> CHOOSE w \in ready : Place(ready, w) = i]

SlotRowsOf(w) ==
    [r \in 1 .. layout[w].count |-> [tensor |-> layout[w].tensor[r], cands |-> layout[w].cands[r],
                                     pairs |-> layout[w].pairs[r]]]

BatchRows(ready) == FlattenSeq([i \in DOMAIN Order(ready) |-> SlotRowsOf(Order(ready)[i])])

(* Mutant: a worker counts for one row. *)
WorkerOffsetByIndex(ready, w) == Place(ready, w) - 1

(* The running offset of _scatter_results when it comes to a worker.         *)
WorkerOffset(ready, w) ==
    LET offset[i \in DOMAIN Order(ready)] ==
            IF i = 1 THEN 0 ELSE offset[i - 1] + layout[Order(ready)[i - 1]].count
    IN  offset[Place(ready, w)]

(* _build_sparse_inputs and the forward pass: as many columns as the widest  *)
(* row has, a row's missing ones masked. Pairs bring at least one candidate  *)
(* column; a batch without either gets no sparse logits.                     *)
Widest(rows, width(_)) == Max({0} \cup {width(rows[i]) : i \in DOMAIN rows})

Logits(rows, columns, width(_)) ==
    [i \in DOMAIN rows |-> [c \in 1 .. columns |->
        IF c <= width(rows[i]) THEN <<rows[i].tensor, c>> ELSE <<>>]]

Cands(row) == row.cands
Pairs(row) == row.pairs

ForwardRows(rows) ==
    LET k == Widest(rows, Cands)
        p == Widest(rows, Pairs)
    IN  [policy |-> [i \in DOMAIN rows |-> rows[i].tensor],
         sparse |-> Logits(rows, IF p > 0 THEN Max({k, 1}) ELSE k, Cands),
         joint |-> Logits(rows, p, Pairs)]

(* _scatter_results: row after row, as many columns as there are.            *)
Columned(array, count, from, out) ==
    Prefixed(array, count, LAMBDA r : [c \in 1 .. Columns |->
        IF c \in DOMAIN out[from + r] THEN out[from + r][c] ELSE array[r][c]])

Scattered(s, from, out) ==
    [s EXCEPT !.state = "answered",
              !.policy = Prefixed(@, s.count, LAMBDA r : out.policy[from + r]),
              !.sparse = Columned(@, s.count, from, out.sparse),
              !.joint = Columned(@, s.count, from, out.joint)]

RunBatch(ready) ==
    LET out == ForwardRows(BatchRows(ready))
    IN  /\ ready # {}
        /\ \A w \in ready : layout[w].state = "waiting"
        /\ layout' = [w \in BatchWorkers |->
                         IF w \in ready THEN Scattered(layout[w], WorkerOffset(ready, w), out)
                         ELSE layout[w]]

------------------------------------------------------------------------------
(* The sparse calls take back their column counts when they return.          *)
ReadAnswer(w) ==
    LET s == layout[w]
    IN  /\ s.state = "answered"
        /\ layout' = [layout EXCEPT ![w] =
              [s EXCEPT !.state = "idle",
                        !.cands = Prefixed(@, IF s.k > 0 THEN s.count ELSE 0, LAMBDA r : 0),
                        !.pairs = Prefixed(@, IF s.p > 0 THEN s.count ELSE 0, LAMBDA r : 0)]]

(* A worker that dies, and one that waits no longer, leave them.             *)
AbandonCall(w) ==
    /\ layout[w].state = "answered"
    /\ layout' = [layout EXCEPT ![w].state = "idle"]

LayoutNext ==
    \/ \E ready \in SUBSET BatchWorkers : RunBatch(ready)
    \/ \E w \in BatchWorkers :
          \/ ReadAnswer(w) \/ AbandonCall(w)
          \/ \E count \in Slots, k, p \in 0 .. Columns : WriteRequest(w, count, k, p)

LayoutSpec == LayoutInit /\ [][LayoutNext]_layout

------------------------------------------------------------------------------
(* In a batch of calls of every kind and size, a worker finds the answers to *)
(* its own rows in its own columns: the policies, the logits of each of its  *)
(* candidates and of each of its pairs, whatever calls before it, finished   *)
(* or abandoned, left in the slot.                                           *)
RowsComeBack ==
    \A w \in BatchWorkers : layout[w].state = "answered" =>
        \A r \in 1 .. layout[w].count :
            LET s == layout[w]
                row == <<w, s.call, r>>
            IN  /\ s.policy[r] = row
                /\ \A c \in 1 .. s.k : s.sparse[r][c] = <<row, c>>
                /\ \A c \in 1 .. s.p : s.joint[r][c] = <<row, c>>
=============================================================================
