--------------------------- MODULE HexBoardProofs ---------------------------
(* Proofs about HexBoard, for lines of any length, any radii and any offered *)
(* cells: the candidate maps, the hash and the evaluation always are those   *)
(* of the stones, an undo restores the board, the turn order holds after any *)
(* undo and load, a game is won exactly when there is a line, which is cut   *)
(* out of the run of stones it lies in, and what is offered can be played.   *)
(* And about Tactics and TacticalOracle: the turns that win, those that meet *)
(* a threat, and the labels of both oracles are what they are said to be.    *)
EXTENDS TacticalOracle, EvalStateProofs, SequenceTheorems

-----------------------------------------------------------------------------
(* Geometry. *)

(* The loops over a square of offsets, filtered by distance, visit every     *)
(* cell within the radius.                                                   *)
LEMMA BallIsNear ==
    ASSUME NEW cell \in Cells, NEW h \in Cells, NEW radius \in Nat
    PROVE  h \in Ball(cell, radius) <=> HexDistance(cell, h) <= radius
<1> DEFINE dq == h[1] - cell[1]
           dr == h[2] - cell[2]
<1>1. /\ dq \in Int /\ dr \in Int
      /\ h = <<cell[1] + dq, cell[2] + dr>>
  BY DEF Cells
<1>2. ASSUME HexDistance(cell, h) <= radius
      PROVE  dq \in -radius .. radius /\ dr \in -radius .. radius
  BY <1>2, <1>1 DEF HexDistance, Magnitude, Cells
<1> QED
  BY <1>1, <1>2 DEF Ball

LEMMA BallCells ==
    ASSUME NEW cell \in Cells, NEW radius \in Nat
    PROVE  Ball(cell, radius) \subseteq Cells
  BY DEF Ball, Cells

LEMMA DistanceSymmetric ==
    ASSUME NEW a \in Cells, NEW b \in Cells
    PROVE  HexDistance(a, b) = HexDistance(b, a)
  BY DEF HexDistance, Magnitude, Cells

-----------------------------------------------------------------------------
(* The candidate maps. *)

LEMMA NearIsFinite ==
    ASSUME NEW stones, StonesOK(stones), NEW h, NEW radius
    PROVE  IsFiniteSet(NearStones(h, stones, radius))
  BY FS_Subset DEF StonesOK, NearStones

(* The keys of the map that is counted from the stones. *)
LEMMA RecomputeDomain ==
    ASSUME NEW stones, StonesOK(stones), NEW radius \in Nat, NEW h
    PROVE  h \in DOMAIN Recompute(stones, radius) <=>
             /\ h \in Cells
             /\ h \notin DOMAIN stones
             /\ NearStones(h, stones, radius) # {}
<1>1. h \in DOMAIN Recompute(stones, radius) <=>
        h \notin DOMAIN stones /\ \E s \in DOMAIN stones : h \in Ball(s, radius)
  BY DEF Recompute
<1>2. \A s \in DOMAIN stones : h \in Ball(s, radius) => h \in Cells
  BY BallCells DEF StonesOK
<1>3. h \in Cells => \A s \in DOMAIN stones :
        h \in Ball(s, radius) <=> HexDistance(s, h) <= radius
  BY BallIsNear DEF StonesOK
<1> QED
  BY <1>1, <1>2, <1>3 DEF NearStones

(* One stone more makes one stone more near the cells around it.             *)
LEMMA NearOneMore ==
    ASSUME NEW stones, StonesOK(stones), NEW more, StonesOK(more),
           NEW cell \in Cells, cell \notin DOMAIN stones,
           DOMAIN more = DOMAIN stones \cup {cell},
           NEW h \in Cells, NEW radius \in Nat
    PROVE  LET few == NearStones(h, stones, radius)
               many == NearStones(h, more, radius)
           IN  /\ h \in Ball(cell, radius) =>
                    /\ many # {}
                    /\ Cardinality(many) = Cardinality(few) + 1
               /\ h \notin Ball(cell, radius) => many = few
               /\ Cardinality(few) \in Nat
               /\ Cardinality(many) \in Nat
               /\ Cardinality(few) = 0 <=> few = {}
<1> DEFINE few == NearStones(h, stones, radius)
           many == NearStones(h, more, radius)
<1>1. IsFiniteSet(few) /\ IsFiniteSet(many)
  BY NearIsFinite
<1>2. h \in Ball(cell, radius) <=> HexDistance(cell, h) <= radius
  BY BallIsNear
<1>3. cell \notin few
  BY DEF NearStones
<1>4. CASE h \in Ball(cell, radius)
  <2>1. many = few \cup {cell}
    BY <1>2, <1>4 DEF NearStones
  <2>2. Cardinality(few \cup {cell}) = Cardinality(few) + 1
    BY <1>1, <1>3, FS_AddElement
  <2> QED
    BY <1>1, <1>4, <2>1, <2>2, FS_CardinalityType, FS_EmptySet
<1>5. CASE h \notin Ball(cell, radius)
  <2>1. many = few
    BY <1>2, <1>5 DEF NearStones
  <2> QED
    BY <1>1, <1>5, <2>1, FS_CardinalityType, FS_EmptySet
<1> QED
  BY <1>4, <1>5

(* place adds to an exact map what the new stone changes.                    *)
LEMMA CandidatesAfterPlace ==
    ASSUME NEW stones, StonesOK(stones), NEW more, StonesOK(more),
           NEW cell \in Cells, cell \notin DOMAIN stones,
           DOMAIN more = DOMAIN stones \cup {cell}, NEW radius \in Nat
    PROVE  CandidatesOnPlace(Recompute(stones, radius), cell, more, radius)
             = Recompute(more, radius)
<1> DEFINE rc == Recompute(stones, radius)
           exact == Recompute(more, radius)
           hits == {h \in Ball(cell, radius) : h \notin DOMAIN more}
           new == CandidatesOnPlace(rc, cell, more, radius)
           few(h) == NearStones(h, stones, radius)
           many(h) == NearStones(h, more, radius)
<1>1. \A h \in Cells :
        /\ h \in Ball(cell, radius) =>
              many(h) # {} /\ Cardinality(many(h)) = Cardinality(few(h)) + 1
        /\ h \notin Ball(cell, radius) => many(h) = few(h)
        /\ Cardinality(few(h)) \in Nat
        /\ Cardinality(few(h)) = 0 <=> few(h) = {}
  BY NearOneMore
<1>2. \A h : h \in DOMAIN rc <=> h \in Cells /\ h \notin DOMAIN stones /\ few(h) # {}
  BY RecomputeDomain
<1>3. \A h : h \in DOMAIN exact <=> h \in Cells /\ h \notin DOMAIN more /\ many(h) # {}
  BY RecomputeDomain
<1>4. Ball(cell, radius) \subseteq Cells
  BY BallCells
<1>5. DOMAIN new = (DOMAIN rc \ {cell}) \cup hits
  BY DEF CandidatesOnPlace
<1>6. \A h : h \in DOMAIN new <=> h \in DOMAIN exact
  BY <1>1, <1>2, <1>3, <1>4, <1>5
<1>7. ASSUME NEW h \in DOMAIN exact
      PROVE  new[h] = exact[h]
  <2>1. h \in Cells /\ h \notin DOMAIN more /\ h # cell /\ h \notin DOMAIN stones
    BY <1>3, <1>7
  <2>2. exact[h] = Cardinality(many(h))
    BY <1>7 DEF Recompute
  <2>3. Count(rc, h) = Cardinality(few(h))
    <3>1. CASE h \in DOMAIN rc
      <4>1. rc[h] = Cardinality(few(h))
        BY <3>1 DEF Recompute
      <4> QED
        BY <3>1, <4>1 DEF Count
    <3>2. CASE h \notin DOMAIN rc
      BY <3>2, <1>1, <1>2, <2>1 DEF Count
    <3> QED
      BY <3>1, <3>2
  <2>4. new[h] = Count(rc, h) + (IF h \in hits THEN 1 ELSE 0)
    BY <1>5, <1>6, <1>7 DEF CandidatesOnPlace
  <2> QED
    BY <2>1, <2>2, <2>3, <2>4, <1>1
<1>8. /\ new = [h \in DOMAIN new |-> new[h]]
      /\ exact = [h \in DOMAIN exact |-> exact[h]]
  BY DEF CandidatesOnPlace, Recompute
<1> HIDE DEF new, exact
<1>9. new = exact
  BY <1>6, <1>7, <1>8
<1> QED
  BY <1>9 DEF new, exact

(* unplace takes back from an exact map what the stone had changed: counts   *)
(* that reach zero leave the map, and the cell that is empty again returns   *)
(* with the stones around it.                                                *)
LEMMA CandidatesAfterUnplace ==
    ASSUME NEW stones, StonesOK(stones), NEW more, StonesOK(more),
           NEW cell \in Cells, cell \notin DOMAIN stones,
           DOMAIN more = DOMAIN stones \cup {cell}, NEW radius \in Nat
    PROVE  CandidatesOnUnplace(Recompute(more, radius), cell, stones, radius)
             = Recompute(stones, radius)
<1> DEFINE rc == Recompute(more, radius)
           exact == Recompute(stones, radius)
           hits == {h \in Ball(cell, radius) : h \in DOMAIN rc /\ h \notin DOMAIN stones}
           around == {h \in Ball(cell, radius) : h \in DOMAIN stones}
           kept == {h \in DOMAIN rc : ~(h \in hits /\ rc[h] = 1)}
           back == IF around = {} THEN {} ELSE {cell}
           new == CandidatesOnUnplace(rc, cell, stones, radius)
           few(h) == NearStones(h, stones, radius)
           many(h) == NearStones(h, more, radius)
<1>1. \A h \in Cells :
        /\ h \in Ball(cell, radius) =>
              many(h) # {} /\ Cardinality(many(h)) = Cardinality(few(h)) + 1
        /\ h \notin Ball(cell, radius) => many(h) = few(h)
        /\ Cardinality(few(h)) \in Nat
        /\ Cardinality(few(h)) = 0 <=> few(h) = {}
  BY NearOneMore
<1>2. \A h : h \in DOMAIN rc <=> h \in Cells /\ h \notin DOMAIN more /\ many(h) # {}
  BY RecomputeDomain
<1>3. \A h : h \in DOMAIN exact <=> h \in Cells /\ h \notin DOMAIN stones /\ few(h) # {}
  BY RecomputeDomain
<1>4. \A h \in DOMAIN rc : rc[h] = Cardinality(many(h))
  BY DEF Recompute
<1>5. around = few(cell)
  <2>1. \A s \in DOMAIN stones : s \in Ball(cell, radius) <=> HexDistance(s, cell) <= radius
    BY BallIsNear, DistanceSymmetric DEF StonesOK
  <2> QED
    BY <2>1 DEF NearStones
<1>6. DOMAIN new = kept \cup back
  BY DEF CandidatesOnUnplace
<1>7. ASSUME NEW h
      PROVE  h \in DOMAIN new <=> h \in DOMAIN exact
  <2>1. CASE h = cell
    <3>1. cell \notin DOMAIN rc
      BY <1>2
    <3> QED
      BY <2>1, <3>1, <1>3, <1>5, <1>6
  <2>2. CASE h # cell
    <3>1. h \in DOMAIN new <=> h \in kept
      BY <2>2, <1>6
    <3>2. h \in kept <=> h \in DOMAIN rc /\ ~(h \in Ball(cell, radius) /\ rc[h] = 1)
      BY <1>2
    <3>3. h \in DOMAIN rc =>
            (~(h \in Ball(cell, radius) /\ rc[h] = 1) <=> few(h) # {})
      BY <1>1, <1>2, <1>4
    <3>4. h \in Cells /\ few(h) # {} => many(h) # {}
      BY <1>1
    <3> QED
      BY <2>2, <3>1, <3>2, <3>3, <3>4, <1>2, <1>3
  <2> QED
    BY <2>1, <2>2
<1>8. ASSUME NEW h \in DOMAIN exact
      PROVE  new[h] = exact[h]
  <2>1. exact[h] = Cardinality(few(h))
    BY <1>8 DEF Recompute
  <2>2. new[h] = IF h \in back THEN Cardinality(around)
                 ELSE rc[h] - (IF h \in hits THEN 1 ELSE 0)
    BY <1>6, <1>7, <1>8 DEF CandidatesOnUnplace
  <2>3. CASE h \in back
    <3>1. h = cell
      BY <2>3
    <3> QED
      BY <2>1, <2>2, <2>3, <3>1, <1>5
  <2>4. CASE h \notin back
    <3>1. h \in DOMAIN rc /\ h \in Cells
      BY <2>4, <1>2, <1>6, <1>7, <1>8
    <3>2. h \in hits <=> h \in Ball(cell, radius)
      BY <3>1, <1>2
    <3>3. rc[h] = Cardinality(many(h))
      BY <3>1, <1>4
    <3> QED
      BY <2>1, <2>2, <2>4, <3>1, <3>2, <3>3, <1>1
  <2> QED
    BY <2>3, <2>4
<1>9. /\ new = [h \in DOMAIN new |-> new[h]]
      /\ exact = [h \in DOMAIN exact |-> exact[h]]
  BY DEF CandidatesOnUnplace, Recompute
<1> HIDE DEF new, exact
<1>10. new = exact
  BY <1>7, <1>8, <1>9
<1> QED
  BY <1>10 DEF new, exact

-----------------------------------------------------------------------------
(* Histories. *)

IsSeq(h) == h \in Seq({h[i] : i \in 1 .. Len(h)})

LEMMA AppendToHistory ==
    ASSUME NEW h, IsSeq(h), NEW rec
    PROVE  LET longer == Append(h, rec)
           IN  /\ IsSeq(longer)
               /\ Len(h) \in Nat
               /\ Len(longer) = Len(h) + 1
               /\ \A i \in 1 .. Len(h) : longer[i] = h[i]
               /\ longer[Len(h) + 1] = rec
<1> DEFINE longer == Append(h, rec)
           S == {h[i] : i \in 1 .. Len(h)} \cup {rec}
           T == {longer[i] : i \in 1 .. Len(longer)}
<1>1. h \in Seq(S) /\ rec \in S
  BY DEF IsSeq
<1>2. longer \in Seq(S) /\ Len(h) \in Nat /\ Len(longer) = Len(h) + 1
  BY <1>1
<1>3. longer \in Seq(T)
  BY <1>2
<1>4. \A i \in 1 .. Len(h) : longer[i] = h[i]
  BY <1>1
<1>5. longer[Len(h) + 1] = rec
  BY <1>1
<1> QED
  BY <1>2, <1>3, <1>4, <1>5 DEF IsSeq

LEMMA Prefix ==
    ASSUME NEW h, NEW A, NEW k \in Nat, \A i \in 1 .. k : h[i] \in A
    PROVE  /\ SubSeq(h, 1, k) \in Seq(A)
           /\ Len(SubSeq(h, 1, k)) = k
           /\ \A i \in 1 .. k : SubSeq(h, 1, k)[i] = h[i]
<1> DEFINE shorter == SubSeq(h, 1, k)
<1>1. /\ shorter \in Seq(A)
      /\ Len(shorter) = IF 1 <= k THEN k - 1 + 1 ELSE 0
      /\ \A i \in 1 .. k - 1 + 1 : shorter[i] = h[1 + i - 1]
  BY SubSeqProperties
<1> HIDE DEF shorter
<1>2. k - 1 + 1 = k /\ \A i \in 1 .. k : 1 + i - 1 = i
  OBVIOUS
<1>3. Len(shorter) = k
  BY <1>1, <1>2
<1>4. \A i \in 1 .. k : shorter[i] = h[i]
  BY <1>1, <1>2
<1> QED
  BY <1>1, <1>3, <1>4 DEF shorter

LEMMA DropFromHistory ==
    ASSUME NEW h, IsSeq(h), h # <<>>
    PROVE  LET shorter == SubSeq(h, 1, Len(h) - 1)
           IN  /\ IsSeq(shorter)
               /\ Len(h) \in Nat \ {0}
               /\ Len(shorter) = Len(h) - 1
               /\ \A i \in 1 .. Len(h) - 1 : shorter[i] = h[i]
<1> DEFINE S == {h[i] : i \in 1 .. Len(h)}
           shorter == SubSeq(h, 1, Len(h) - 1)
           T == {shorter[i] : i \in 1 .. Len(shorter)}
<1>1. h \in Seq(S) /\ Len(h) \in Nat \ {0}
  BY DEF IsSeq
<1> HIDE DEF S, T, shorter
<1>2. ASSUME NEW A, \A i \in 1 .. Len(h) - 1 : h[i] \in A
      PROVE  /\ shorter \in Seq(A)
             /\ Len(shorter) = Len(h) - 1
             /\ \A i \in 1 .. Len(h) - 1 : shorter[i] = h[i]
  <2>1. Len(h) - 1 \in Nat
    BY <1>1
  <2> QED
    BY <1>2, <2>1, Prefix, Zenon DEF shorter
<1>3. \A i \in 1 .. Len(h) - 1 : h[i] \in S
  BY <1>1 DEF S
<1>4. \A i \in 1 .. Len(h) - 1 : h[i] \in T
  BY <1>1, <1>2, <1>3 DEF T
<1> QED
  BY <1>1, <1>2, <1>3, <1>4 DEF IsSeq, T, shorter

-----------------------------------------------------------------------------
(* The caches. *)

(* The records of the history are those of the stones, each once.            *)
HistoryOK(b) ==
    /\ IsSeq(b.history)
    /\ \A i \in 1 .. Len(b.history) :
          /\ b.history[i].cell \in DOMAIN b.stones
          /\ b.history[i].player = b.stones[b.history[i].cell]
          /\ b.history[i].playerBefore \in Players
    /\ \A i, j \in 1 .. Len(b.history) :
          b.history[i].cell = b.history[j].cell => i = j

BoardInv(b) ==
    /\ StonesOK(b.stones)
    /\ b.player \in Players
    /\ HistoryOK(b)
    /\ CachesMatchStones(b)

CacheInv ==
    /\ BoardInv(board)
    /\ BoardInv(load.next)
    /\ load.simPlayer \in Players

LEMMA NewBoardInv == BoardInv(NewBoard)
<1>1. StonesOK(NewBoard.stones)
  BY FS_EmptySet DEF NewBoard, StonesOK
<1>2. NewBoard.player \in Players
  BY DEF NewBoard, Players
<1>3. HistoryOK(NewBoard)
  BY DEF NewBoard, HistoryOK, IsSeq
<1>4. \A radius : Recompute(NewBoard.stones, radius) = NoCandidates
  BY DEF Recompute, NewBoard, NoCandidates
<1>5. CachesMatchStones(NewBoard)
  BY <1>4 DEF CachesMatchStones, NewBoard
<1> QED
  BY <1>1, <1>2, <1>3, <1>5 DEF BoardInv

(* A stone is put on an empty cell: no cache is left behind.                 *)
LEMMA PutKeeps ==
    ASSUME NEW b, BoardInv(b),
           NEW cell \in Cells, cell \notin DOMAIN b.stones, NEW owner \in Players,
           NEW player \in Players, NEW remaining
    PROVE  BoardInv(PutStone(b, cell, owner, player, remaining))
<1> DEFINE put == PutStone(b, cell, owner, player, remaining)
           more == put.stones
<1>1. /\ more = [c \in DOMAIN b.stones \cup {cell} |-> IF c = cell THEN owner ELSE b.stones[c]]
      /\ put.player = b.player
      /\ put.zobrist = Toggle(b.zobrist, <<owner, cell>>)
      /\ put.candidates = CandidatesOnPlace(b.candidates, cell, more, NearRadius)
      /\ put.placement = CandidatesOnPlace(b.placement, cell, more, PlacementRadius)
  BY DEF PutStone
<1>2. PICK rec : /\ put.history = Append(b.history, rec)
                 /\ rec.cell = cell /\ rec.player = owner /\ rec.playerBefore = player
  BY DEF PutStone
<1>3. /\ DOMAIN more = DOMAIN b.stones \cup {cell}
      /\ more[cell] = owner
      /\ \A c \in DOMAIN b.stones : more[c] = b.stones[c]
  BY <1>1
<1> HIDE DEF put, more
<1>4. StonesOK(more)
  <2>1. IsFiniteSet(DOMAIN b.stones \cup {cell})
    BY FS_AddElement DEF BoardInv, StonesOK
  <2>2. more \in [DOMAIN more -> Players]
    BY <1>1, <1>3 DEF BoardInv, StonesOK
  <2> QED
    BY <1>3, <2>1, <2>2 DEF BoardInv, StonesOK
<1>5. HistoryOK(put)
  <2>1. /\ IsSeq(put.history)
        /\ Len(b.history) \in Nat
        /\ Len(put.history) = Len(b.history) + 1
        /\ \A i \in 1 .. Len(b.history) : put.history[i] = b.history[i]
        /\ put.history[Len(b.history) + 1] = rec
    BY <1>2, AppendToHistory DEF BoardInv, HistoryOK
  <2>2. \A i \in 1 .. Len(put.history) :
          /\ put.history[i].cell \in DOMAIN more
          /\ put.history[i].player = more[put.history[i].cell]
          /\ put.history[i].playerBefore \in Players
    BY <1>2, <1>3, <2>1 DEF BoardInv, HistoryOK
  <2>3. \A i, j \in 1 .. Len(put.history) :
          put.history[i].cell = put.history[j].cell => i = j
    BY <1>2, <2>1 DEF BoardInv, HistoryOK
  <2> QED
    BY <2>1, <2>2, <2>3 DEF HistoryOK, more
<1>6. /\ NearRadius \in Nat /\ PlacementRadius \in Nat
      /\ b.candidates = Recompute(b.stones, NearRadius)
      /\ b.placement = Recompute(b.stones, PlacementRadius)
      /\ b.zobrist = {<<b.stones[c], c>> : c \in DOMAIN b.stones}
      /\ StonesOK(b.stones)
  BY RadiiOK DEF BoardInv, CachesMatchStones
<1>7. /\ put.candidates = Recompute(more, NearRadius)
      /\ put.placement = Recompute(more, PlacementRadius)
  BY <1>1, <1>3, <1>4, <1>6, CandidatesAfterPlace
<1>8. put.zobrist = {<<more[c], c>> : c \in DOMAIN more}
  <2>1. <<owner, cell>> \notin b.zobrist
    BY <1>6
  <2>2. put.zobrist = b.zobrist \cup {<<owner, cell>>}
    BY <1>1, <2>1 DEF Toggle
  <2> QED
    BY <1>3, <1>6, <2>2
<1>9. put.player \in Players
  BY <1>1 DEF BoardInv
<1> QED
  BY <1>4, <1>5, <1>7, <1>8, <1>9 DEF BoardInv, CachesMatchStones, put, more

(* What BoardInv says is about these fields only.                            *)
LEMMA SameCaches ==
    ASSUME NEW b, BoardInv(b), NEW other,
           other.stones = b.stones, other.history = b.history,
           other.candidates = b.candidates, other.placement = b.placement,
           other.zobrist = b.zobrist, other.player \in Players
    PROVE  BoardInv(other)
  BY DEF BoardInv, HistoryOK, CachesMatchStones

LEMMA CommitKeeps ==
    ASSUME NEW b, BoardInv(b), NEW cell \in Cells, cell \notin DOMAIN b.stones
    PROVE  BoardInv(Commit(b, cell))
<1> DEFINE put == PutStone(b, cell, b.player, b.player, b.remaining)
           next == Commit(b, cell)
<1>1. BoardInv(put)
  BY PutKeeps DEF BoardInv
<1>2. b.player \in Players /\ 1 - b.player \in Players
  BY DEF BoardInv, Players
<1>3. put.player = b.player
  BY DEF PutStone
<1>4. /\ next.stones = put.stones /\ next.history = put.history
      /\ next.candidates = put.candidates /\ next.placement = put.placement
      /\ next.zobrist = put.zobrist
      /\ next.player \in {b.player, 1 - b.player}
  BY DEF Commit, PutStone
<1> HIDE DEF put, next
<1>5. BoardInv(next)
  BY <1>1, <1>2, <1>4, SameCaches
<1> QED
  BY <1>5 DEF next

(* The last record names a stone of the board; without it everything is as   *)
(* if it had never been placed.                                              *)
LEMMA UndoKeeps ==
    ASSUME NEW b, BoardInv(b), b.history # <<>>
    PROVE  BoardInv(Undo(b))
<1> DEFINE n == Len(b.history)
           rec == b.history[n]
           few == [c \in DOMAIN b.stones \ {rec.cell} |-> b.stones[c]]
           next == Undo(b)
<1>1. /\ next.stones = few
      /\ next.player = rec.playerBefore
      /\ next.history = SubSeq(b.history, 1, n - 1)
      /\ next.zobrist = Toggle(b.zobrist, <<rec.player, rec.cell>>)
      /\ next.candidates = CandidatesOnUnplace(b.candidates, rec.cell, few, NearRadius)
      /\ next.placement = CandidatesOnUnplace(b.placement, rec.cell, few, PlacementRadius)
  BY DEF Undo
<1>2. /\ IsSeq(next.history)
      /\ n \in Nat \ {0}
      /\ Len(next.history) = n - 1
      /\ \A i \in 1 .. n - 1 : next.history[i] = b.history[i]
  BY <1>1, DropFromHistory DEF BoardInv, HistoryOK
<1>3. /\ rec.cell \in DOMAIN b.stones
      /\ rec.player = b.stones[rec.cell]
      /\ rec.playerBefore \in Players
  BY <1>2 DEF BoardInv, HistoryOK
<1>4. rec.cell \in Cells /\ StonesOK(b.stones)
  BY <1>3 DEF BoardInv, StonesOK
<1>5. /\ DOMAIN few = DOMAIN b.stones \ {rec.cell}
      /\ rec.cell \notin DOMAIN few
      /\ DOMAIN b.stones = DOMAIN few \cup {rec.cell}
      /\ \A c \in DOMAIN few : few[c] = b.stones[c]
  BY <1>3
<1> HIDE DEF few, next, rec
<1>6. StonesOK(few)
  <2>1. IsFiniteSet(DOMAIN few)
    BY <1>4, <1>5, FS_Subset DEF StonesOK
  <2>2. few \in [DOMAIN few -> Players]
    BY <1>4, <1>5 DEF StonesOK, few
  <2> QED
    BY <1>4, <1>5, <2>1, <2>2 DEF StonesOK
<1>7. HistoryOK(next)
  <2>1. ASSUME NEW i \in 1 .. n - 1
        PROVE  /\ b.history[i].cell \in DOMAIN few
               /\ b.history[i].player = few[b.history[i].cell]
               /\ b.history[i].playerBefore \in Players
    <3>1. /\ i \in 1 .. n /\ n \in 1 .. n /\ i # n
      BY <1>2, <2>1
    <3>2. b.history[i].cell # rec.cell
      BY <3>1 DEF BoardInv, HistoryOK, rec
    <3> QED
      <4>1. /\ b.history[i].cell \in DOMAIN b.stones
            /\ b.history[i].player = b.stones[b.history[i].cell]
            /\ b.history[i].playerBefore \in Players
        BY <3>1 DEF BoardInv, HistoryOK
      <4> QED
        BY <1>5, <3>2, <4>1
  <2>2. \A i, j \in 1 .. n - 1 : b.history[i].cell = b.history[j].cell => i = j
    BY <1>2 DEF BoardInv, HistoryOK
  <2> QED
    BY <1>1, <1>2, <2>1, <2>2 DEF HistoryOK
<1>8. /\ NearRadius \in Nat /\ PlacementRadius \in Nat
      /\ b.candidates = Recompute(b.stones, NearRadius)
      /\ b.placement = Recompute(b.stones, PlacementRadius)
      /\ b.zobrist = {<<b.stones[c], c>> : c \in DOMAIN b.stones}
  BY RadiiOK DEF BoardInv, CachesMatchStones
<1>9. /\ next.candidates = Recompute(few, NearRadius)
      /\ next.placement = Recompute(few, PlacementRadius)
  <2>1. ASSUME NEW radius \in Nat
        PROVE  CandidatesOnUnplace(Recompute(b.stones, radius), rec.cell, few, radius)
                 = Recompute(few, radius)
    BY <1>4, <1>5, <1>6, CandidatesAfterUnplace
  <2> QED
    BY <1>1, <1>8, <2>1
<1>10. next.zobrist = {<<few[c], c>> : c \in DOMAIN few}
  <2>1. <<rec.player, rec.cell>> \in b.zobrist
    BY <1>3, <1>8
  <2>2. next.zobrist = b.zobrist \ {<<rec.player, rec.cell>>}
    BY <1>1, <2>1 DEF Toggle
  <2>3. {<<few[c], c>> : c \in DOMAIN few}
          = {<<b.stones[c], c>> : c \in DOMAIN b.stones \ {rec.cell}}
    BY <1>5
  <2>4. {<<b.stones[c], c>> : c \in DOMAIN b.stones \ {rec.cell}}
          = {<<b.stones[c], c>> : c \in DOMAIN b.stones} \ {<<rec.player, rec.cell>>}
    BY <1>3
  <2> QED
    BY <1>8, <2>2, <2>3, <2>4
<1>11. BoardInv(next)
  BY <1>1, <1>3, <1>6, <1>7, <1>9, <1>10 DEF BoardInv, CachesMatchStones
<1> QED
  BY <1>11 DEF next

-----------------------------------------------------------------------------
LEMMA OfferedAreCells == Offered \subseteq Cells
  BY RadiiOK

LEMMA CacheInvInit == Init => CacheInv
<1> SUFFICES ASSUME Init PROVE CacheInv
  OBVIOUS
<1>1. board = NewBoard /\ load.next = NewBoard /\ load.simPlayer = 0
  BY DEF Init, NoLoad, Loading
<1> QED
  BY <1>1, NewBoardInv DEF CacheInv, Players

LEMMA CacheInvStep == CacheInv /\ [Next]_vars => CacheInv'
<1> SUFFICES ASSUME CacheInv, [Next]_vars PROVE CacheInv'
  OBVIOUS
<1>1. /\ BoardInv(board) /\ BoardInv(load.next)
      /\ load.simPlayer \in Players
      /\ BoardInv(NewBoard)
      /\ Offered \subseteq Cells
  BY NewBoardInv, OfferedAreCells DEF CacheInv
<1>2. \A kind : /\ Loading(kind).next = NewBoard
                /\ Loading(kind).simPlayer \in Players
  BY DEF Loading, Players
<1>3. NoLoad.next = NewBoard /\ NoLoad.simPlayer \in Players
  BY <1>2 DEF NoLoad
<1>4. ASSUME NEW cell \in Offered, Place(cell)
      PROVE  CacheInv'
  BY <1>1, <1>4, CommitKeeps DEF Place, Valid, CacheInv
<1>5. CASE Unplace
  BY <1>1, <1>5, UndoKeeps DEF Unplace, CacheInv
<1>6. CASE Reset
  BY <1>1, <1>6 DEF Reset, CacheInv
<1>7. CASE BeginHistory
  BY <1>1, <1>2, <1>7 DEF BeginHistory, CacheInv
<1>8. ASSUME NEW cell \in Offered, NEW owner \in Players, LoadMove(cell, owner)
      PROVE  CacheInv'
  <2>1. BoardInv(Commit(load.next, cell))
    BY <1>1, <1>8, CommitKeeps DEF LoadMove, Valid
  <2>2. load' = [load EXCEPT !.next = Commit(load.next, cell)] /\ UNCHANGED board
    BY <1>8 DEF LoadMove
  <2> QED
    BY <1>1, <2>1, <2>2 DEF CacheInv
<1>9. CASE HistoryLoaded
  BY <1>1, <1>3, <1>9 DEF HistoryLoaded, CacheInv
<1>10. CASE BeginPosition
  BY <1>1, <1>2, <1>10 DEF BeginPosition, CacheInv
<1>11. ASSUME NEW cell \in Offered, NEW owner \in Players, LoadStone(cell, owner)
       PROVE  CacheInv'
  <2> DEFINE b == load.next
             put == PutStone(b, cell, owner, load.simPlayer, load.simRemaining)
             line == FindWinningLine(put.stones, cell, owner)
             next == IF line = <<>> THEN put
                     ELSE [put EXCEPT !.winner = owner, !.line = line]
  <2>1. BoardInv(put)
    BY <1>1, <1>11, PutKeeps DEF LoadStone
  <2>2. /\ next.stones = put.stones /\ next.history = put.history
        /\ next.candidates = put.candidates /\ next.placement = put.placement
        /\ next.zobrist = put.zobrist /\ next.player = put.player
    BY DEF PutStone
  <2>3. /\ load' = [load EXCEPT !.next = next,
                       !.simPlayer = IF load.simRemaining = 1 THEN 1 - @ ELSE @,
                       !.simRemaining = IF @ = 1 THEN 2 ELSE @ - 1]
        /\ UNCHANGED board
    BY <1>11 DEF LoadStone
  <2> HIDE DEF put, next
  <2>4. BoardInv(next)
    BY <2>1, <2>2, SameCaches DEF BoardInv
  <2>5. load'.simPlayer \in Players
    BY <1>1, <2>3 DEF Players
  <2>6. load'.next = next
    BY <2>3
  <2> QED
    BY <1>1, <2>3, <2>4, <2>5, <2>6 DEF CacheInv
<1>12. ASSUME NEW player \in Players, NEW remaining \in 1 .. 2,
              PositionLoaded(player, remaining)
       PROVE  CacheInv'
  <2> DEFINE b == load.next
             next == [b EXCEPT !.player = player,
                               !.remaining = IF Over(b) THEN 0 ELSE remaining]
  <2>1. /\ next.stones = b.stones /\ next.history = b.history
        /\ next.candidates = b.candidates /\ next.placement = b.placement
        /\ next.zobrist = b.zobrist
    OBVIOUS
  <2>2. next.player = player
    OBVIOUS
  <2>3. board' = next /\ load' = NoLoad
    BY <1>12 DEF PositionLoaded
  <2> HIDE DEF next
  <2>4. BoardInv(next)
    BY <1>1, <2>1, <2>2, SameCaches
  <2> QED
    BY <1>1, <1>3, <2>3, <2>4 DEF CacheInv
<1>13. CASE LoadRefused
  BY <1>1, <1>3, <1>13 DEF LoadRefused, CacheInv
<1>14. CASE UNCHANGED vars
  BY <1>1, <1>14 DEF vars, CacheInv
<1> QED
  BY <1>4, <1>5, <1>6, <1>7, <1>8, <1>9, <1>10, <1>11, <1>12, <1>13, <1>14 DEF Next

(* The caches that legal moves, hash and undo rely on are exact, after any   *)
(* sequence of placements, undos, resets and loads.                          *)
THEOREM CandidatesExactHolds == Spec => []CandidatesExact
<1>1. CacheInv => CandidatesExact
  BY DEF CacheInv, BoardInv, CandidatesExact, Current
<1> QED
  BY <1>1, CacheInvInit, CacheInvStep, PTL DEF Spec

-----------------------------------------------------------------------------
(* The turn order. *)

(* The turn of the n-th stone, counted from 0.                               *)
MoverOf(n) == ((n + 1) \div 2) % 2
LeftAt(n) == IF n = 0 THEN 1 ELSE 1 + (n % 2)

(* Every record holds the turn it was entered under, so undoing it returns   *)
(* to that turn.                                                             *)
TurnsOK(b) ==
    /\ IsSeq(b.history)
    /\ \A i \in 1 .. Len(b.history) :
          /\ b.history[i].player = MoverOf(i - 1)
          /\ b.history[i].playerBefore = MoverOf(i - 1)
          /\ b.history[i].remainingBefore = LeftAt(i - 1)
          /\ b.history[i].winnerBefore = NoWinner
    /\ ~Over(b) => /\ b.player = MoverOf(Len(b.history))
                   /\ b.remaining = LeftAt(Len(b.history))

TurnInv ==
    /\ load = NoLoad \/ load.kind \in {"history", "position"}
    /\ played => TurnsOK(board)
    /\ load.kind = "history" => TurnsOK(load.next)

LEMMA TurnArithmetic ==
    ASSUME NEW n \in Nat
    PROVE  /\ MoverOf(n) \in Players
           /\ LeftAt(n) \in 1 .. 2
           /\ LeftAt(n) > 1 =>
                 MoverOf(n + 1) = MoverOf(n) /\ LeftAt(n + 1) = LeftAt(n) - 1
           /\ ~(LeftAt(n) > 1) =>
                 MoverOf(n + 1) = 1 - MoverOf(n) /\ LeftAt(n + 1) = 2
<1> DEFINE k == n \div 2
           m == k % 2
<1>1. k \in Nat /\ m \in {0, 1} /\ (k + 1) % 2 = 1 - m
  OBVIOUS
<1>2. CASE n = 2 * k
  <2>1. /\ (n + 1) \div 2 = k /\ (n + 1 + 1) \div 2 = k + 1
        /\ n % 2 = 0 /\ (n + 1) % 2 = 1
    BY <1>1, <1>2
  <2> HIDE DEF k
  <2> QED
    BY <1>1, <2>1 DEF MoverOf, LeftAt, Players
<1>3. CASE n = 2 * k + 1
  <2>1. /\ (n + 1) \div 2 = k + 1 /\ (n + 1 + 1) \div 2 = k + 1
        /\ n % 2 = 1 /\ (n + 1) % 2 = 0 /\ n # 0
    BY <1>1, <1>3
  <2> HIDE DEF k
  <2> QED
    BY <1>1, <2>1 DEF MoverOf, LeftAt, Players
<1>4. n = 2 * k \/ n = 2 * k + 1
  OBVIOUS
<1> QED
  BY <1>2, <1>3, <1>4

LEMMA NewTurns == TurnsOK(NewBoard)
  BY DEF TurnsOK, NewBoard, IsSeq, Over, MoverOf, LeftAt

LEMMA CommitTurns ==
    ASSUME NEW b, TurnsOK(b), ~Over(b), NEW cell
    PROVE  TurnsOK(Commit(b, cell))
<1> DEFINE n == Len(b.history)
           put == PutStone(b, cell, b.player, b.player, b.remaining)
           line == FindWinningLine(put.stones, cell, b.player)
           next == Commit(b, cell)
<1>1. PICK rec :
        /\ put.history = Append(b.history, rec)
        /\ rec.player = b.player /\ rec.playerBefore = b.player
        /\ rec.remainingBefore = b.remaining /\ rec.winnerBefore = b.winner
  BY DEF PutStone
<1>2. /\ next.history = put.history
      /\ next.winner \in {b.player, b.winner}
      /\ next.winner = b.player \/
            IF b.remaining > 1
            THEN next.player = b.player /\ next.remaining = b.remaining - 1
            ELSE next.player = 1 - b.player /\ next.remaining = 2
  BY DEF Commit, PutStone
<1> HIDE DEF next, put
<1>3. n \in Nat /\ b.winner = NoWinner
  BY AppendToHistory DEF TurnsOK, Over
<1>4. /\ b.player = MoverOf(n) /\ b.remaining = LeftAt(n)
      /\ b.player \in Players
  BY <1>3, TurnArithmetic DEF TurnsOK
<1>5. /\ IsSeq(next.history)
      /\ Len(next.history) = n + 1
      /\ \A i \in 1 .. n : next.history[i] = b.history[i]
      /\ next.history[n + 1] = rec
  BY <1>1, <1>2, AppendToHistory DEF TurnsOK
<1>6. ASSUME NEW i \in 1 .. n + 1
      PROVE  /\ next.history[i].player = MoverOf(i - 1)
             /\ next.history[i].playerBefore = MoverOf(i - 1)
             /\ next.history[i].remainingBefore = LeftAt(i - 1)
             /\ next.history[i].winnerBefore = NoWinner
  <2>1. CASE i \in 1 .. n
    BY <1>5, <2>1 DEF TurnsOK
  <2>2. CASE i = n + 1
    <3>1. n = i - 1
      BY <1>3, <2>2
    <3> QED
      BY <1>1, <1>3, <1>4, <1>5, <2>2, <3>1
  <2> QED
    BY <1>3, <1>6, <2>1, <2>2
<1>7. ASSUME ~Over(next)
      PROVE  next.player = MoverOf(n + 1) /\ next.remaining = LeftAt(n + 1)
  <2>1. next.winner # b.player
    BY <1>3, <1>4, <1>7 DEF Over, NoWinner, Players
  <2>2. CASE b.remaining > 1
    BY <1>2, <1>3, <1>4, <2>1, <2>2, TurnArithmetic
  <2>3. CASE ~(b.remaining > 1)
    BY <1>2, <1>3, <1>4, <2>1, <2>3, TurnArithmetic
  <2> QED
    BY <2>2, <2>3
<1>8. TurnsOK(next)
  BY <1>5, <1>6, <1>7 DEF TurnsOK
<1> QED
  BY <1>8 DEF next

LEMMA UndoTurns ==
    ASSUME NEW b, TurnsOK(b), b.history # <<>>
    PROVE  TurnsOK(Undo(b))
<1> DEFINE n == Len(b.history)
           rec == b.history[n]
           next == Undo(b)
<1>1. /\ next.history = SubSeq(b.history, 1, n - 1)
      /\ next.player = rec.playerBefore
      /\ next.remaining = rec.remainingBefore
  BY DEF Undo
<1> HIDE DEF next
<1>2. /\ IsSeq(next.history)
      /\ n \in Nat \ {0}
      /\ Len(next.history) = n - 1
      /\ \A i \in 1 .. n - 1 : next.history[i] = b.history[i]
  BY <1>1, DropFromHistory DEF TurnsOK
<1>3. next.player = MoverOf(n - 1) /\ next.remaining = LeftAt(n - 1)
  BY <1>1, <1>2 DEF TurnsOK
<1>4. ASSUME NEW i \in 1 .. n - 1
      PROVE  /\ next.history[i].player = MoverOf(i - 1)
             /\ next.history[i].playerBefore = MoverOf(i - 1)
             /\ next.history[i].remainingBefore = LeftAt(i - 1)
             /\ next.history[i].winnerBefore = NoWinner
  <2>1. i \in 1 .. n /\ next.history[i] = b.history[i]
    BY <1>2, <1>4
  <2> QED
    BY <2>1 DEF TurnsOK
<1>5. TurnsOK(next)
  BY <1>2, <1>3, <1>4 DEF TurnsOK
<1> QED
  BY <1>5 DEF next

LEMMA TurnInvInit == Init => TurnInv
  BY NewTurns DEF Init, TurnInv, NoLoad, Loading

LEMMA TurnInvStep == TurnInv /\ [Next]_vars => TurnInv'
<1> SUFFICES ASSUME TurnInv, [Next]_vars PROVE TurnInv'
  OBVIOUS
<1>1. \A kind : Loading(kind).next = NewBoard /\ Loading(kind).kind = kind
  BY DEF Loading
<1>2. NoLoad.kind = "none"
  BY <1>1 DEF NoLoad
<1>3. ASSUME NEW cell \in Offered, Place(cell)
      PROVE  TurnInv'
  <2>1. played => TurnsOK(Commit(board, cell))
    BY <1>3, CommitTurns DEF Place, Valid, TurnInv
  <2> QED
    BY <1>2, <1>3, <2>1 DEF Place, TurnInv
<1>4. CASE Unplace
  <2>1. played => TurnsOK(Undo(board))
    BY <1>4, UndoTurns DEF Unplace, TurnInv
  <2> QED
    BY <1>2, <1>4, <2>1 DEF Unplace, TurnInv
<1>5. CASE Reset
  BY <1>2, <1>5, NewTurns DEF Reset, TurnInv
<1>6. CASE BeginHistory
  BY <1>1, <1>6, NewTurns DEF BeginHistory, TurnInv
<1>7. ASSUME NEW cell \in Offered, NEW owner \in Players, LoadMove(cell, owner)
      PROVE  TurnInv'
  <2> DEFINE next == Commit(load.next, cell)
  <2>1. TurnsOK(next)
    BY <1>7, CommitTurns DEF LoadMove, Valid, TurnInv
  <2>2. load' = [load EXCEPT !.next = next] /\ UNCHANGED <<board, played>>
    BY <1>7 DEF LoadMove
  <2>3. load.kind = "history"
    BY <1>7 DEF LoadMove
  <2> HIDE DEF next
  <2>4. load'.kind = "history" /\ load'.next = next
    BY <2>2, <2>3
  <2> QED
    BY <2>1, <2>2, <2>4 DEF TurnInv
<1>8. CASE HistoryLoaded
  BY <1>2, <1>8 DEF HistoryLoaded, TurnInv
<1>9. CASE BeginPosition
  BY <1>1, <1>9 DEF BeginPosition, TurnInv
<1>10. ASSUME NEW cell \in Offered, NEW owner \in Players, LoadStone(cell, owner)
       PROVE  TurnInv'
  <2>1. load.kind = "position" /\ UNCHANGED <<board, played>>
    BY <1>10 DEF LoadStone
  <2>2. load'.kind = load.kind
    BY <1>10 DEF LoadStone
  <2> QED
    BY <2>1, <2>2 DEF TurnInv
<1>11. ASSUME NEW player \in Players, NEW remaining \in 1 .. 2,
              PositionLoaded(player, remaining)
       PROVE  TurnInv'
  BY <1>2, <1>11 DEF PositionLoaded, TurnInv
<1>12. CASE LoadRefused
  BY <1>2, <1>12 DEF LoadRefused, TurnInv
<1>13. CASE UNCHANGED vars
  BY <1>13 DEF vars, TurnInv
<1> QED
  BY <1>3, <1>4, <1>5, <1>6, <1>7, <1>8, <1>9, <1>10, <1>11, <1>12, <1>13 DEF Next

(* One stone opens, then two stones per turn: who placed every stone of the  *)
(* history, who is to move, and how many stones are left.                    *)
THEOREM TurnOrderHolds == Spec => []TurnOrder
<1>1. TurnInv => TurnOrder
  <2> SUFFICES ASSUME TurnInv, played PROVE TurnOrder
    BY DEF TurnOrder
  <2> DEFINE n == Len(board.history)
  <2>1. TurnsOK(board)
    BY DEF TurnInv
  <2>2. n \in Nat
    BY <2>1, AppendToHistory DEF TurnsOK
  <2>3. \A i \in 1 .. n : board.history[i].player = (i \div 2) % 2
    <3> TAKE i \in 1 .. n
    <3>1. i - 1 + 1 = i
      BY <2>2
    <3> QED
      BY <2>1, <3>1 DEF TurnsOK, MoverOf
  <2>4. ~Over(board) => /\ board.player = ((n + 1) \div 2) % 2
                        /\ board.remaining = IF n = 0 THEN 1 ELSE 1 + (n % 2)
    BY <2>1 DEF TurnsOK, MoverOf, LeftAt
  <2> QED
    BY <2>3, <2>4 DEF TurnOrder, Stones
<1> QED
  BY <1>1, TurnInvInit, TurnInvStep, PTL DEF Spec

-----------------------------------------------------------------------------
(* select_segment keeps the reported line inside the run of stones, and the  *)
(* stone that won inside the line, wherever in a run of any length it lies.  *)
THEOREM SegmentInRun ==
    ASSUME NEW len \in Nat, len >= WinLength, NEW pivot \in 0 .. len - 1
    PROVE  LET start == SelectStart(len, pivot)
           IN  /\ start \in 0 .. len - WinLength
               /\ pivot \in start .. start + WinLength - 1
  BY WinLengthOK DEF SelectStart, Larger, Smaller

-----------------------------------------------------------------------------
(* Runs and lines. *)

LEMMA RunEnds ==
    ASSUME NEW stones, StonesOK(stones), NEW cell, NEW d, NEW player,
           \A m, n \in Int : Along(cell, d, m) = Along(cell, d, n) => m = n
    PROVE  LET n == RunLength(stones, cell, d, player)
           IN  /\ n \in Nat
               /\ \A k \in 1 .. n : Owns(stones, Along(cell, d, k), player)
               /\ ~Owns(stones, Along(cell, d, n + 1), player)
<1> DEFINE N == Cardinality(DOMAIN stones)
           own(k) == Owns(stones, Along(cell, d, k), player)
           S == {n \in Nat : n <= N + 1 => \A k \in 1 .. n : own(k)}
<1>1. N \in Nat
  BY FS_CardinalityType DEF StonesOK
<1>2. ~ \A k \in 1 .. N + 1 : own(k)
  <2> SUFFICES ASSUME \A k \in 1 .. N + 1 : own(k) PROVE FALSE
    OBVIOUS
  <2> DEFINE f == [k \in 1 .. N + 1 |-> Along(cell, d, k)]
  <2>1. f \in [1 .. N + 1 -> DOMAIN stones]
    BY DEF Owns
  <2>2. IsFiniteSet(1 .. N + 1) /\ Cardinality(1 .. N + 1) = N + 1
    BY <1>1, FS_Interval
  <2> HIDE DEF N
  <2>3. N < N + 1
    BY <1>1
  <2>4. \E x, y \in 1 .. N + 1 : x # y /\ f[x] = f[y]
    <3> DEFINE K == 1 .. N + 1
    <3>1. /\ IsFiniteSet(K) /\ IsFiniteSet(DOMAIN stones)
          /\ Cardinality(DOMAIN stones) < Cardinality(K)
          /\ f \in [K -> DOMAIN stones]
      BY <2>1, <2>2, <2>3 DEF StonesOK, N
    <3> HIDE DEF K, f
    <3>2. \E x, y \in K : x # y /\ f[x] = f[y]
      BY <3>1, FS_PigeonHole
    <3> QED
      BY <3>2 DEF K
  <2> HIDE DEF own
  <2>5. \A x, y \in 1 .. N + 1 : f[x] = f[y] => x = y
    <3>1. 1 .. N + 1 \subseteq Int
      BY <1>1
    <3> QED
      BY <3>1
  <2> QED
    BY <2>4, <2>5
<1> HIDE DEF own
<1>3. \E n \in 0 .. N : (\A k \in 1 .. n : own(k)) /\ ~own(n + 1)
  <2> SUFFICES ASSUME ~ \E n \in 0 .. N : (\A k \in 1 .. n : own(k)) /\ ~own(n + 1)
               PROVE  FALSE
    OBVIOUS
  <2>1. 0 \in S
    OBVIOUS
  <2>2. \A n \in Nat : n \in S => n + 1 \in S
    BY <1>1
  <2>3. N + 1 \in S
    <3>1. Nat \subseteq S
      BY <2>1, <2>2, NatSetInduction
    <3> QED
      BY <1>1, <3>1
  <2> QED
    BY <1>1, <1>2, <2>3
<1>4. LET n == RunLength(stones, cell, d, player)
      IN  n \in 0 .. N /\ (\A k \in 1 .. n : own(k)) /\ ~own(n + 1)
  BY <1>3 DEF RunLength, own
<1> QED
  BY <1>1, <1>4 DEF own

(* The stones of a player through which a cell's run along an axis goes.     *)
LEMMA RunsAround ==
    ASSUME NEW stones, StonesOK(stones), NEW last \in Cells, NEW player,
           Owns(stones, last, player), NEW dir \in DOMAIN Directions
    PROVE  LET d == Directions[dir]
               behind == RunLength(stones, last, <<-d[1], -d[2]>>, player)
               ahead == RunLength(stones, last, d, player)
               own(k) == Owns(stones, Along(last, d, k), player)
           IN  /\ behind \in Nat /\ ahead \in Nat
               /\ \A k \in -behind .. ahead : own(k)
               /\ ~own(ahead + 1) /\ ~own(-(behind + 1))
<1> DEFINE d == Directions[dir]
           rev == <<-d[1], -d[2]>>
           behind == RunLength(stones, last, rev, player)
           ahead == RunLength(stones, last, d, player)
           own(k) == Owns(stones, Along(last, d, k), player)
<1>1. \A m, n \in Int : Along(last, d, m) = Along(last, d, n) => m = n
  BY AlongIsOneToOne, Zenon
<1>2. \A n \in Int : Along(last, rev, n) = Along(last, d, -n)
  BY AlongBack, Zenon
<1>3. \A m, n \in Int : Along(last, rev, m) = Along(last, rev, n) => m = n
  <2> TAKE m, n \in Int
  <2>1. -m \in Int /\ -n \in Int /\ (-m = -n => m = n)
    OBVIOUS
  <2> QED
    BY <1>1, <1>2, <2>1, Zenon
<1>4. /\ ahead \in Nat
      /\ \A k \in 1 .. ahead : own(k)
      /\ ~own(ahead + 1)
  BY <1>1, RunEnds, Zenon
<1>5. /\ behind \in Nat
      /\ \A k \in 1 .. behind : Owns(stones, Along(last, rev, k), player)
      /\ ~Owns(stones, Along(last, rev, behind + 1), player)
  BY <1>3, RunEnds, Zenon
<1>6. own(0)
  BY AlongBack
<1> HIDE DEF ahead, behind, rev
<1>7. ~own(-(behind + 1))
  BY <1>2, <1>5
<1>8. ASSUME NEW k \in -behind .. ahead
      PROVE  own(k)
  <2>1. CASE k \in 1 .. ahead
    BY <1>4, <2>1
  <2>2. CASE k = 0
    BY <1>6, <2>2
  <2>3. CASE -k \in 1 .. behind
    <3>1. Along(last, rev, -k) = Along(last, d, -(-k)) /\ -(-k) = k
      BY <1>2, <1>8, <1>4, <1>5
    <3> QED
      BY <1>5, <2>3, <3>1
  <2> QED
    BY <1>4, <1>5, <1>8, <2>1, <2>2, <2>3
<1> QED
  BY <1>4, <1>5, <1>7, <1>8 DEF ahead, behind, rev, d

(* Along one axis find_winning_line reports a line through the stone exactly *)
(* when there is one.                                                        *)
LineOf(stones, last, dir, player, line) ==
    /\ DOMAIN line = 1 .. WinLength
    /\ \A i \in 1 .. WinLength :
          /\ Owns(stones, line[i], player)
          /\ line[i] = Along(line[1], Directions[dir], i - 1)
    /\ \E i \in 1 .. WinLength : line[i] = last

LEMMA LineOnAxis ==
    ASSUME NEW stones, StonesOK(stones), NEW last \in Cells, NEW player,
           Owns(stones, last, player), NEW dir \in DOMAIN Directions
    PROVE  LET line == LineThrough(stones, last, Directions[dir], player)
           IN  /\ line # <<>> => LineOf(stones, last, dir, player, line)
               /\ line = <<>> =>
                     \A s \in Cells, off \in Offsets :
                        Along(s, Directions[dir], off) = last =>
                           \E o \in Offsets : ~Owns(stones, Along(s, Directions[dir], o), player)
<1> DEFINE d == Directions[dir]
           behind == RunLength(stones, last, <<-d[1], -d[2]>>, player)
           ahead == RunLength(stones, last, d, player)
           own(k) == Owns(stones, Along(last, d, k), player)
           len == behind + 1 + ahead
           start == SelectStart(len, behind)
           line == LineThrough(stones, last, d, player)
<1>1. /\ behind \in Nat /\ ahead \in Nat
      /\ \A k \in -behind .. ahead : own(k)
      /\ ~own(ahead + 1) /\ ~own(-(behind + 1))
  BY RunsAround, Zenon
<1>2. line = IF len < WinLength THEN <<>>
             ELSE [i \in 1 .. WinLength |-> Along(last, d, start + i - 1 - behind)]
  BY DEF LineThrough
<1> HIDE DEF line, behind, ahead
<1>3. CASE len < WinLength
  <2> SUFFICES ASSUME NEW s \in Cells, NEW off \in Offsets, Along(s, d, off) = last,
                      \A o \in Offsets : Owns(stones, Along(s, d, o), player)
               PROVE  FALSE
    BY <1>2, <1>3 DEF line
  <2>1. off \in 0 .. WinLength - 1 /\ off \in Int
    BY WinLengthOK DEF Offsets
  <2>2. \A k \in Int : Along(s, d, off + k) = Along(last, d, k)
    <3> TAKE k \in Int
    <3>1. Along(Along(s, d, off), d, k) = Along(s, d, off + k)
      BY <2>1, AlongAdds
    <3> QED
      BY <3>1
  <2>3. \A k \in Int : off + k \in 0 .. WinLength - 1 => own(k)
    BY <2>2 DEF Offsets
  <2> HIDE DEF own
  <2>4. /\ ~(off + (ahead + 1) \in 0 .. WinLength - 1)
        /\ ~(off + -(behind + 1) \in 0 .. WinLength - 1)
    BY <1>1, <2>3
  <2> QED
    BY <1>1, <1>3, <2>1, <2>4, WinLengthOK
<1>4. CASE ~(len < WinLength)
  <2>1. len \in Nat /\ len >= WinLength /\ behind \in 0 .. len - 1
    BY <1>1, <1>4, WinLengthOK
  <2> HIDE DEF len
  <2>2. start \in 0 .. len - WinLength /\ behind \in start .. start + WinLength - 1
    BY <2>1, SegmentInRun
  <2> HIDE DEF start
  <2>3. line = [i \in 1 .. WinLength |-> Along(last, d, start + i - 1 - behind)]
    BY <1>2, <1>4 DEF len
  <2>4. /\ WinLength \in Nat /\ WinLength >= 4
        /\ start \in Nat /\ behind \in Nat /\ ahead \in Nat
        /\ start <= behind /\ start + WinLength <= behind + 1 + ahead
        /\ behind <= start + WinLength - 1
    BY <1>1, <2>1, <2>2, WinLengthOK DEF len
  <2>5. line # <<>>
    <3>1. 1 \in DOMAIN line
      BY <2>3, <2>4
    <3> QED
      BY <3>1
  <2>6. ASSUME NEW i \in 1 .. WinLength
        PROVE  Owns(stones, line[i], player) /\ line[i] = Along(line[1], d, i - 1)
    <3>1. /\ start + i - 1 - behind \in -behind .. ahead
          /\ i - 1 \in Int /\ start + 1 - 1 - behind \in Int
          /\ (start + 1 - 1 - behind) + (i - 1) = start + i - 1 - behind
          /\ 1 \in 1 .. WinLength
      BY <2>4
    <3>2. line[i] = Along(last, d, start + i - 1 - behind)
      BY <2>3
    <3>3. line[1] = Along(last, d, start + 1 - 1 - behind)
      BY <2>3, <3>1
    <3>4. Along(Along(last, d, start + 1 - 1 - behind), d, i - 1)
            = Along(last, d, (start + 1 - 1 - behind) + (i - 1))
      BY <3>1, AlongAdds
    <3> QED
      BY <1>1, <3>1, <3>2, <3>3, <3>4
  <2>7. \E i \in 1 .. WinLength : line[i] = last
    <3> DEFINE i == behind - start + 1
    <3>1. i \in 1 .. WinLength /\ start + i - 1 - behind = 0
      BY <2>4
    <3>2. line[i] = Along(last, d, 0)
      BY <2>3, <3>1
    <3> QED
      BY <3>1, <3>2, AlongBack
  <2>8. DOMAIN line = 1 .. WinLength
    BY <2>3
  <2>9. LineOf(stones, last, dir, player, line)
    BY <2>6, <2>7, <2>8 DEF LineOf
  <2> QED
    BY <2>5, <2>9 DEF line
<1> QED
  BY <1>3, <1>4

NoLine(stones) == \A p \in Players : ~HasLine(stones, p)

(* Every line of the larger board goes through the new stone. *)
LEMMA LinesGoThrough ==
    ASSUME NEW stones, NEW more, NEW cell, Added(stones, more, cell),
           NEW p \in Players, ~HasLine(stones, p), NEW s \in DOMAIN more,
           NEW dir \in DOMAIN Directions,
           \A off \in Offsets : Owns(more, Along(s, Directions[dir], off), p)
    PROVE  \E off \in Offsets : Along(s, Directions[dir], off) = cell
<1> SUFFICES ASSUME \A off \in Offsets : Along(s, Directions[dir], off) # cell
             PROVE  FALSE
  OBVIOUS
<1>1. \A off \in Offsets : Owns(stones, Along(s, Directions[dir], off), p)
  BY DEF Owns, Added
<1>2. 0 \in Offsets /\ s \in Cells
  BY WinLengthOK DEF Offsets, Added, StonesOK
<1>3. s \in DOMAIN stones
  BY <1>1, <1>2, AlongBack DEF Owns
<1> QED
  BY <1>1, <1>3 DEF HasLine

(* A smaller board has no line that the larger one has not.                  *)
LEMMA FewerLines ==
    ASSUME NEW stones, NEW more, NEW cell, Added(stones, more, cell), NoLine(more)
    PROVE  NoLine(stones)
  BY DEF NoLine, HasLine, Added, Owns

LEMMA FindsTheLine ==
    ASSUME NEW stones, NEW more, NEW cell, Added(stones, more, cell), NoLine(stones),
           NEW owner \in Players, more[cell] = owner
    PROVE  LET line == FindWinningLine(more, cell, owner)
           IN  /\ line = <<>> => NoLine(more)
               /\ line # <<>> =>
                     /\ \A p \in Players : HasLine(more, p) <=> p = owner
                     /\ \E dir \in DOMAIN Directions : LineOf(more, cell, dir, owner, line)
<1> DEFINE through(dir) == LineThrough(more, cell, Directions[dir], owner)
           won == {dir \in DOMAIN Directions : through(dir) # <<>>}
           line == FindWinningLine(more, cell, owner)
<1>1. Owns(more, cell, owner) /\ StonesOK(more) /\ cell \in Cells
  BY DEF Owns, Added
<1>2. \A dir \in DOMAIN Directions :
        /\ through(dir) # <<>> => LineOf(more, cell, dir, owner, through(dir))
        /\ through(dir) = <<>> =>
              \A s \in Cells, off \in Offsets :
                 Along(s, Directions[dir], off) = cell =>
                    \E o \in Offsets : ~Owns(more, Along(s, Directions[dir], o), owner)
  BY <1>1, LineOnAxis
<1>3. line = IF won = {} THEN <<>>
             ELSE through(CHOOSE dir \in won : \A other \in won : dir <= other)
  BY DEF FindWinningLine
<1> HIDE DEF line, through
<1>4. ASSUME NEW p \in Players, HasLine(more, p)
      PROVE  p = owner /\ won # {}
  <2>1. PICK s \in DOMAIN more, dir \in DOMAIN Directions :
          \A off \in Offsets : Owns(more, Along(s, Directions[dir], off), p)
    BY <1>4 DEF HasLine
  <2>2. PICK off \in Offsets : Along(s, Directions[dir], off) = cell
    BY <2>1, LinesGoThrough DEF NoLine
  <2>3. p = owner
    BY <2>1, <2>2 DEF Owns
  <2>4. s \in Cells
    BY <1>1 DEF StonesOK
  <2>5. through(dir) # <<>>
    BY <1>2, <2>1, <2>2, <2>3, <2>4
  <2> QED
    BY <2>3, <2>5
<1>5. CASE won = {}
  BY <1>3, <1>4, <1>5 DEF NoLine, line
<1>6. CASE won # {}
  <2>1. won \subseteq {1, 2, 3}
    BY DEF Directions
  <2>2. \E dir \in won : \A other \in won : dir <= other
    <3> HIDE DEF won
    <3>1. \/ 1 \in won
          \/ 1 \notin won /\ 2 \in won
          \/ 1 \notin won /\ 2 \notin won /\ 3 \in won
      BY <1>6, <2>1
    <3> QED
      BY <2>1, <3>1
  <2>3. PICK dir \in won : line = through(dir)
    BY <1>3, <1>6, <2>2
  <2>4. line # <<>> /\ LineOf(more, cell, dir, owner, line) /\ dir \in DOMAIN Directions
    BY <1>2, <2>3
  <2>5. HasLine(more, owner)
    <3>1. \A i \in 1 .. WinLength :
            Owns(more, line[i], owner) /\ line[i] = Along(line[1], Directions[dir], i - 1)
      BY <2>4 DEF LineOf
    <3>2. /\ \A i \in 1 .. WinLength :
               Owns(more, Along(line[1], Directions[dir], i - 1), owner)
          /\ Owns(more, line[1], owner)
      <4>1. 1 \in 1 .. WinLength
        BY WinLengthOK
      <4>2. Owns(more, line[1], owner)
        BY <3>1, <4>1
      <4>3. ASSUME NEW i \in 1 .. WinLength
            PROVE  Owns(more, Along(line[1], Directions[dir], i - 1), owner)
        <5>1. Owns(more, line[i], owner) /\ line[i] = Along(line[1], Directions[dir], i - 1)
          BY <3>1
        <5> QED
          BY <5>1, Zenon
      <4> QED
        BY <4>2, <4>3
    <3>3. ASSUME NEW off \in Offsets
          PROVE  Owns(more, Along(line[1], Directions[dir], off), owner)
      <4>1. off + 1 \in 1 .. WinLength /\ (off + 1) - 1 = off
        BY WinLengthOK DEF Offsets
      <4> QED
        BY <3>2, <4>1
    <3>4. line[1] \in DOMAIN more
      BY <3>2 DEF Owns
    <3> QED
      BY <2>4, <3>3, <3>4 DEF HasLine
  <2> QED
    BY <1>4, <2>4, <2>5 DEF line
<1> QED
  BY <1>5, <1>6

-----------------------------------------------------------------------------
(* Winners and the placements that are left. *)

Last(b) == b.history[Len(b.history)].cell
WithoutLast(b) == [c \in DOMAIN b.stones \ {Last(b)} |-> b.stones[c]]

(* A line ends the game at once: without its last stone a board has no line, *)
(* and every record was made while nobody had won.                           *)
LinesOK(b) ==
    /\ \A i \in 1 .. Len(b.history) :
          /\ b.history[i].winnerBefore = NoWinner
          /\ b.history[i].lineBefore = <<>>
          /\ b.history[i].remainingBefore \in 1 .. 2
    /\ b.winner \in Players \cup {NoWinner}
    /\ b.history # <<>> => NoLine(WithoutLast(b))
    /\ ~Over(b) => NoLine(b.stones) /\ b.line = <<>>
    /\ Over(b) =>
          /\ b.history # <<>>
          /\ \A p \in Players : HasLine(b.stones, p) <=> p = b.winner
          /\ \E dir \in DOMAIN Directions : LineOf(b.stones, Last(b), dir, b.winner, b.line)

LeftOK(b) == IF Over(b) THEN b.remaining = 0 ELSE b.remaining \in 1 .. 2

RulesInv ==
    /\ CacheInv
    /\ LinesOK(board) /\ LeftOK(board)
    /\ LinesOK(load.next)
    /\ load.kind = "history" => LeftOK(load.next)
    /\ load.simRemaining \in 1 .. 2

LEMMA NewLines == LinesOK(NewBoard) /\ LeftOK(NewBoard)
  BY DEF LinesOK, LeftOK, NewBoard, Over, NoLine, HasLine, NoWinner

(* A stone is put on a board of a game that is not over, and the line it     *)
(* makes, if any, is entered.                                                *)
LEMMA PutLines ==
    ASSUME NEW b, BoardInv(b), LinesOK(b), ~Over(b),
           NEW cell \in Cells, cell \notin DOMAIN b.stones, NEW owner \in Players,
           NEW player \in Players, NEW remaining \in 1 .. 2,
           NEW put, put = PutStone(b, cell, owner, player, remaining),
           NEW line, line = FindWinningLine(put.stones, cell, owner),
           NEW next, next.stones = put.stones, next.history = put.history,
           IF line = <<>> THEN next.winner = b.winner /\ next.line = b.line
           ELSE next.winner = owner /\ next.line = line
    PROVE  LinesOK(next)
<1>1. PICK rec : /\ put.history = Append(b.history, rec)
                 /\ rec.cell = cell /\ rec.remainingBefore = remaining
                 /\ rec.winnerBefore = b.winner /\ rec.lineBefore = b.line
  BY DEF PutStone
<1>2. put.stones = [c \in DOMAIN b.stones \cup {cell} |-> IF c = cell THEN owner ELSE b.stones[c]]
  BY DEF PutStone
<1> DEFINE n == Len(b.history)
<1>3. /\ n \in Nat
      /\ Len(next.history) = n + 1
      /\ \A i \in 1 .. n : next.history[i] = b.history[i]
      /\ next.history[n + 1] = rec
  BY <1>1, AppendToHistory DEF BoardInv, HistoryOK
<1>4. b.winner = NoWinner /\ b.line = <<>> /\ NoLine(b.stones)
  BY DEF Over, LinesOK
<1>5. \A i \in 1 .. Len(next.history) :
        /\ next.history[i].winnerBefore = NoWinner
        /\ next.history[i].lineBefore = <<>>
        /\ next.history[i].remainingBefore \in 1 .. 2
  BY <1>1, <1>3, <1>4 DEF LinesOK
<1>6. Last(next) = cell /\ next.history # <<>>
  BY <1>1, <1>3 DEF Last
<1>7. WithoutLast(next) = b.stones
  <2>1. b.stones = [c \in DOMAIN b.stones |-> b.stones[c]]
    BY DEF BoardInv, StonesOK
  <2>2. DOMAIN next.stones \ {cell} = DOMAIN b.stones
    BY <1>2
  <2>3. \A c \in DOMAIN b.stones : next.stones[c] = b.stones[c]
    BY <1>2
  <2> QED
    BY <1>6, <2>1, <2>2, <2>3 DEF WithoutLast
<1>8. Added(b.stones, next.stones, cell) /\ next.stones[cell] = owner
  <2>1. BoardInv(put)
    BY PutKeeps
  <2> QED
    BY <1>2, <2>1 DEF Added, BoardInv
<1>9. /\ line = <<>> => NoLine(next.stones)
      /\ line # <<>> =>
            /\ \A p \in Players : HasLine(next.stones, p) <=> p = owner
            /\ \E dir \in DOMAIN Directions : LineOf(next.stones, cell, dir, owner, line)
  BY <1>4, <1>8, FindsTheLine
<1>10. owner # NoWinner
  BY DEF Players, NoWinner
<1>11. CASE line = <<>>
  BY <1>4, <1>5, <1>6, <1>7, <1>9, <1>11 DEF LinesOK, Over
<1>12. CASE line # <<>>
  BY <1>4, <1>5, <1>6, <1>7, <1>9, <1>10, <1>12 DEF LinesOK, Over
<1> QED
  BY <1>11, <1>12

LEMMA CommitLines ==
    ASSUME NEW b, BoardInv(b), LinesOK(b), LeftOK(b), ~Over(b),
           NEW cell \in Cells, cell \notin DOMAIN b.stones
    PROVE  LinesOK(Commit(b, cell)) /\ LeftOK(Commit(b, cell))
<1> DEFINE put == PutStone(b, cell, b.player, b.player, b.remaining)
           line == FindWinningLine(put.stones, cell, b.player)
           next == Commit(b, cell)
<1>1. /\ next.stones = put.stones /\ next.history = put.history
      /\ IF line = <<>> THEN next.winner = b.winner /\ next.line = b.line
         ELSE next.winner = b.player /\ next.line = line
  BY DEF Commit, PutStone
<1>2. IF line # <<>> THEN next.remaining = 0
      ELSE next.remaining = IF b.remaining > 1 THEN b.remaining - 1 ELSE 2
  BY DEF Commit, PutStone
<1> HIDE DEF put, line, next
<1>3. b.player \in Players /\ b.remaining \in 1 .. 2 /\ b.winner = NoWinner
  BY DEF BoardInv, LeftOK, Over
<1>4. LinesOK(next)
  BY <1>1, <1>3, PutLines DEF put, line
<1>5. LeftOK(next)
  BY <1>1, <1>2, <1>3 DEF LeftOK, Over, Players, NoWinner
<1> QED
  BY <1>4, <1>5 DEF next

LEMMA UndoLines ==
    ASSUME NEW b, BoardInv(b), LinesOK(b), b.history # <<>>
    PROVE  LinesOK(Undo(b)) /\ LeftOK(Undo(b))
<1> DEFINE n == Len(b.history)
           rec == b.history[n]
           next == Undo(b)
<1>1. /\ next.stones = WithoutLast(b)
      /\ next.history = SubSeq(b.history, 1, n - 1)
      /\ next.winner = rec.winnerBefore /\ next.line = rec.lineBefore
      /\ next.remaining = rec.remainingBefore
  BY DEF Undo, WithoutLast, Last
<1>2. BoardInv(next)
  BY UndoKeeps
<1> HIDE DEF next
<1>3. /\ n \in Nat \ {0}
      /\ Len(next.history) = n - 1
      /\ \A i \in 1 .. n - 1 : next.history[i] = b.history[i]
  BY <1>1, DropFromHistory DEF BoardInv, HistoryOK
<1>4. /\ next.winner = NoWinner /\ next.line = <<>> /\ next.remaining \in 1 .. 2
      /\ NoLine(next.stones)
  BY <1>1, <1>3 DEF LinesOK
<1>5. \A i \in 1 .. Len(next.history) :
        /\ next.history[i].winnerBefore = NoWinner
        /\ next.history[i].lineBefore = <<>>
        /\ next.history[i].remainingBefore \in 1 .. 2
  BY <1>3 DEF LinesOK
<1>6. ASSUME next.history # <<>>
      PROVE  NoLine(WithoutLast(next))
  <2>1. Len(next.history) \in 1 .. Len(next.history)
    BY <1>3, <1>6, <1>2, DropFromHistory DEF BoardInv, HistoryOK
  <2>2. Last(next) \in DOMAIN next.stones
    BY <1>2, <2>1 DEF BoardInv, HistoryOK, Last
  <2>3. Last(next) \in Cells /\ StonesOK(next.stones)
    BY <1>2, <2>2 DEF BoardInv, StonesOK
  <2> DEFINE few == WithoutLast(next)
  <2>4. /\ DOMAIN few = DOMAIN next.stones \ {Last(next)}
        /\ \A c \in DOMAIN few : few[c] = next.stones[c]
        /\ few \in [DOMAIN few -> Players]
    BY <2>3 DEF WithoutLast, StonesOK
  <2> HIDE DEF few
  <2>5. StonesOK(few)
    BY <2>3, <2>4, FS_Subset DEF StonesOK
  <2>6. Added(few, next.stones, Last(next))
    BY <2>2, <2>3, <2>4, <2>5 DEF Added
  <2> QED
    BY <1>4, <2>6, FewerLines DEF few
<1>7. LinesOK(next) /\ LeftOK(next)
  BY <1>4, <1>5, <1>6 DEF LinesOK, LeftOK, Over
<1> QED
  BY <1>7 DEF next

(* What LinesOK says is about these fields only.                             *)
LEMMA SameLines ==
    ASSUME NEW b, LinesOK(b), NEW other,
           other.stones = b.stones, other.history = b.history,
           other.winner = b.winner, other.line = b.line
    PROVE  LinesOK(other)
  BY DEF LinesOK, Over, WithoutLast, Last

LEMMA RulesInvInit == Init => RulesInv
<1> SUFFICES ASSUME Init PROVE RulesInv
  OBVIOUS
<1>1. board = NewBoard /\ load.next = NewBoard /\ load.simRemaining = 1
  BY DEF Init, NoLoad, Loading
<1> QED
  BY <1>1, NewLines, CacheInvInit DEF RulesInv

LEMMA RulesInvStep == RulesInv /\ [Next]_vars => RulesInv'
<1> SUFFICES ASSUME RulesInv, [Next]_vars PROVE RulesInv'
  OBVIOUS
<1>1. /\ BoardInv(board) /\ BoardInv(load.next)
      /\ load.simPlayer \in Players
      /\ LinesOK(board) /\ LeftOK(board) /\ LinesOK(load.next)
      /\ load.simRemaining \in 1 .. 2
      /\ LinesOK(NewBoard) /\ LeftOK(NewBoard)
      /\ Offered \subseteq Cells
  BY NewLines, OfferedAreCells DEF RulesInv, CacheInv
<1>2. CacheInv'
  BY CacheInvStep DEF RulesInv
<1>3. \A kind : /\ Loading(kind).next = NewBoard /\ Loading(kind).kind = kind
                /\ Loading(kind).simRemaining \in 1 .. 2
  BY DEF Loading
<1>4. NoLoad.next = NewBoard /\ NoLoad.kind = "none" /\ NoLoad.simRemaining \in 1 .. 2
  BY <1>3 DEF NoLoad
<1>5. ASSUME NEW cell \in Offered, Place(cell)
      PROVE  RulesInv'
  <2>1. LinesOK(Commit(board, cell)) /\ LeftOK(Commit(board, cell))
    BY <1>1, <1>5, CommitLines DEF Place, Valid
  <2> QED
    BY <1>1, <1>2, <1>5, <2>1 DEF Place, RulesInv
<1>6. CASE Unplace
  <2>1. LinesOK(Undo(board)) /\ LeftOK(Undo(board))
    BY <1>1, <1>6, UndoLines DEF Unplace
  <2> QED
    BY <1>1, <1>2, <1>6, <2>1 DEF Unplace, RulesInv
<1>7. CASE Reset
  BY <1>1, <1>2, <1>7 DEF Reset, RulesInv
<1>8. CASE BeginHistory
  BY <1>1, <1>2, <1>3, <1>8 DEF BeginHistory, RulesInv
<1>9. ASSUME NEW cell \in Offered, NEW owner \in Players, LoadMove(cell, owner)
      PROVE  RulesInv'
  <2> DEFINE next == Commit(load.next, cell)
  <2>1. LeftOK(load.next)
    BY <1>9 DEF LoadMove, RulesInv
  <2>2. LinesOK(next) /\ LeftOK(next)
    BY <1>1, <1>9, <2>1, CommitLines DEF LoadMove, Valid
  <2>3. load' = [load EXCEPT !.next = next] /\ UNCHANGED board
    BY <1>9 DEF LoadMove
  <2> HIDE DEF next
  <2>4. load.kind = "history"
    BY <1>9 DEF LoadMove
  <2>5. load'.next = next /\ load'.simRemaining = load.simRemaining
    BY <2>3, <2>4
  <2> QED
    BY <1>1, <1>2, <2>2, <2>3, <2>5 DEF RulesInv
<1>10. CASE HistoryLoaded
  BY <1>1, <1>2, <1>4, <1>10 DEF HistoryLoaded, RulesInv
<1>11. CASE BeginPosition
  BY <1>1, <1>2, <1>3, <1>11 DEF BeginPosition, RulesInv
<1>12. ASSUME NEW cell \in Offered, NEW owner \in Players, LoadStone(cell, owner)
       PROVE  RulesInv'
  <2> DEFINE b == load.next
             put == PutStone(b, cell, owner, load.simPlayer, load.simRemaining)
             line == FindWinningLine(put.stones, cell, owner)
             next == IF line = <<>> THEN put
                     ELSE [put EXCEPT !.winner = owner, !.line = line]
  <2>1. /\ next.stones = put.stones /\ next.history = put.history
        /\ IF line = <<>> THEN next.winner = b.winner /\ next.line = b.line
           ELSE next.winner = owner /\ next.line = line
    BY DEF PutStone
  <2>2. cell \notin DOMAIN b.stones /\ ~Over(b) /\ load.kind = "position"
    BY <1>12 DEF LoadStone
  <2>3. /\ load' = [load EXCEPT !.next = next,
                       !.simPlayer = IF load.simRemaining = 1 THEN 1 - @ ELSE @,
                       !.simRemaining = IF @ = 1 THEN 2 ELSE @ - 1]
        /\ UNCHANGED board
    BY <1>12 DEF LoadStone
  <2> HIDE DEF put, line, next
  <2>4. LinesOK(next)
    BY <1>1, <2>1, <2>2, PutLines DEF put, line
  <2>5. load'.simRemaining \in 1 .. 2
    BY <1>1, <2>3
  <2>6. load'.next = next /\ load'.kind = "position"
    BY <2>2, <2>3
  <2> QED
    BY <1>1, <1>2, <2>3, <2>4, <2>5, <2>6 DEF RulesInv
<1>13. ASSUME NEW player \in Players, NEW remaining \in 1 .. 2,
              PositionLoaded(player, remaining)
       PROVE  RulesInv'
  <2> DEFINE b == load.next
             next == [b EXCEPT !.player = player,
                               !.remaining = IF Over(b) THEN 0 ELSE remaining]
  <2>1. /\ next.stones = b.stones /\ next.history = b.history
        /\ next.winner = b.winner /\ next.line = b.line
    OBVIOUS
  <2>2. board' = next /\ load' = NoLoad
    BY <1>13 DEF PositionLoaded
  <2>3. LinesOK(next)
    BY <1>1, <2>1, SameLines
  <2>4. LeftOK(next)
    BY <2>1 DEF LeftOK, Over
  <2> HIDE DEF next
  <2> QED
    BY <1>1, <1>2, <1>4, <2>2, <2>3, <2>4 DEF RulesInv
<1>14. CASE LoadRefused
  BY <1>1, <1>2, <1>4, <1>14 DEF LoadRefused, RulesInv
<1>15. CASE UNCHANGED vars
  BY <1>2, <1>15 DEF vars, RulesInv
<1> QED
  BY <1>5, <1>6, <1>7, <1>8, <1>9, <1>10, <1>11, <1>12, <1>13, <1>14, <1>15 DEF Next

LEMMA WinnerFollows == RulesInv => WinnerHasTheLine
<1> SUFFICES ASSUME RulesInv PROVE WinnerHasTheLine
  OBVIOUS
<1> DEFINE b == Current
<1>1. LinesOK(b) /\ (load = NoLoad => LeftOK(b))
  BY DEF RulesInv, Current
<1>2. \A p \in Players : p # NoWinner
  BY DEF Players, NoWinner
<1>3. \A p \in Players : b.winner = p <=> HasLine(b.stones, p)
  BY <1>1, <1>2 DEF LinesOK, Over, NoLine
<1>4. ASSUME Over(b)
      PROVE  \E dir \in DOMAIN Directions :
                /\ \A i \in DOMAIN b.line :
                      /\ Owns(b.stones, b.line[i], b.winner)
                      /\ b.line[i] = Along(b.line[1], Directions[dir], i - 1)
                /\ \E i \in DOMAIN b.line : b.line[i] = b.history[Len(b.history)].cell
  BY <1>1, <1>4 DEF LinesOK, LineOf, Last
<1>5. load = NoLoad => (b.remaining = 0 <=> Over(b))
  BY <1>1 DEF LeftOK
<1> QED
  BY <1>3, <1>4, <1>5 DEF WinnerHasTheLine

(* Who moves and who has won: two stones per turn after the opening, a game  *)
(* is won exactly when there is a line, and the line that find_winning_line  *)
(* reports is one through the stone that won, after any placements, undos    *)
(* and loads.                                                                *)
THEOREM RulesHoldAlways == Spec => []RulesHold
<1>1. RulesInv /\ TurnOrder => RulesHold
  BY WinnerFollows DEF RulesHold
<1> QED
  BY <1>1, RulesInvInit, RulesInvStep, TurnOrderHolds, PTL DEF Spec

-----------------------------------------------------------------------------
(* Legal moves. *)

(* A larger radius has the keys of a smaller one. *)
LEMMA RadiusGrows ==
    ASSUME NEW stones, StonesOK(stones), NEW r1 \in Nat, NEW r2 \in Nat, r1 <= r2
    PROVE  DOMAIN Recompute(stones, r1) \subseteq DOMAIN Recompute(stones, r2)
<1>1. ASSUME NEW h \in Cells
      PROVE  NearStones(h, stones, r1) \subseteq NearStones(h, stones, r2)
  <2>1. \A s \in DOMAIN stones : HexDistance(s, h) \in Int
    BY DEF StonesOK, HexDistance, Magnitude, Cells
  <2> QED
    BY <2>1 DEF NearStones
<1> QED
  BY <1>1, RecomputeDomain

(* legal_moves_near never offers a cell that the placement radius does not,  *)
(* and at the placement radius offers all of them.                           *)
LEMMA LegalMovesAre ==
    ASSUME NEW b, BoardInv(b), ~Over(b), DOMAIN b.stones # {},
           NEW radius \in Int, radius <= PlacementRadius
    PROVE  /\ LegalMovesNear(b, radius) \subseteq DOMAIN b.placement
           /\ radius = PlacementRadius => LegalMovesNear(b, radius) = DOMAIN b.placement
<1> DEFINE r == Smaller(Larger(radius, 0), PlacementRadius)
           near(n) == DOMAIN Recompute(b.stones, n)
<1>1. /\ r \in Nat /\ r <= PlacementRadius
      /\ NearRadius \in Nat /\ PlacementRadius \in Nat
      /\ radius = PlacementRadius => r = PlacementRadius
  BY RadiiOK DEF Smaller, Larger
<1> HIDE DEF r
<1>2. /\ StonesOK(b.stones)
      /\ DOMAIN b.candidates = near(NearRadius)
      /\ DOMAIN b.placement = near(PlacementRadius)
  BY DEF BoardInv, CachesMatchStones
<1>3. near(r) = (UNION {Ball(s, r) : s \in DOMAIN b.stones}) \ DOMAIN b.stones
  BY DEF Recompute
<1> HIDE DEF near
<1>4. LegalMovesNear(b, radius) = near(r)
  BY <1>1, <1>2, <1>3 DEF LegalMovesNear, r
<1>5. near(r) \subseteq near(PlacementRadius)
  BY <1>1, <1>2, RadiusGrows DEF near
<1> QED
  BY <1>1, <1>2, <1>4, <1>5

(* What legal_moves offers is what place accepts, for every radius and after *)
(* any placements, undos and loads.                                          *)
THEOREM LegalMovesArePlayableHolds == Spec => []LegalMovesArePlayable
<1>1. RulesInv => LegalMovesArePlayable
  <2> SUFFICES ASSUME RulesInv, load = NoLoad
               PROVE  LET legal == LegalMovesNear(board, PlacementRadius)
                      IN  /\ \A c \in legal \cup Offered : c \in legal <=> Valid(board, c)
                          /\ \A radius \in -1 .. PlacementRadius :
                                LegalMovesNear(board, radius) \subseteq legal
    BY DEF LegalMovesArePlayable
  <2>1. BoardInv(board) /\ LeftOK(board)
    BY DEF RulesInv, CacheInv
  <2>2. CASE Over(board)
    BY <2>2 DEF LegalMovesNear, Valid
  <2>3. CASE ~Over(board) /\ DOMAIN board.stones = {}
    BY <2>1, <2>3 DEF LegalMovesNear, Valid, LeftOK
  <2>4. CASE ~Over(board) /\ DOMAIN board.stones # {}
    <3>1. PlacementRadius \in Int /\ -1 .. PlacementRadius \subseteq Int
      BY RadiiOK
    <3>2. LegalMovesNear(board, PlacementRadius) = DOMAIN board.placement
      BY <2>1, <2>4, <3>1, LegalMovesAre
    <3>3. \A radius \in -1 .. PlacementRadius :
            LegalMovesNear(board, radius) \subseteq DOMAIN board.placement
      BY <2>1, <2>4, <3>1, LegalMovesAre
    <3>4. \A c \in DOMAIN board.placement : c \notin DOMAIN board.stones
      BY <2>1, RecomputeDomain, RadiiOK DEF BoardInv, CachesMatchStones
    <3>5. board.remaining # 0
      BY <2>1, <2>4 DEF LeftOK
    <3> QED
      BY <2>4, <3>2, <3>3, <3>4, <3>5 DEF Valid
  <2> QED
    BY <2>2, <2>3, <2>4
<1> QED
  BY <1>1, RulesInvInit, RulesInvStep, PTL DEF Spec

-----------------------------------------------------------------------------
(* The evaluation, and undoing. *)

(* The stones of the first k records. *)
Upto(stones, h, k) == [c \in {h[j].cell : j \in 1 .. k} |-> stones[c]]

(* The evaluation is that of the stones, and its stack has, record by record,*)
(* what the evaluation of the stones changed by.                             *)
EvalOK(b) ==
    /\ DOMAIN b.stones = {b.history[j].cell : j \in 1 .. Len(b.history)}
    /\ b.eval = EvalOf(b.stones, b.eval.deltas)
    /\ IsSeq(b.eval.deltas)
    /\ Len(b.eval.deltas) = Len(b.history)
    /\ \A i \in 1 .. Len(b.history) :
          b.eval.deltas[i] = DeltaOf(Upto(b.stones, b.history, i - 1),
                                     Upto(b.stones, b.history, i), b.history[i].cell)

(* A board is a record of these fields and no others. *)
BoardShape(b) ==
    b = [stones     |-> b.stones,
         player     |-> b.player,
         remaining  |-> b.remaining,
         winner     |-> b.winner,
         line       |-> b.line,
         history    |-> b.history,
         zobrist    |-> b.zobrist,
         eval       |-> b.eval,
         candidates |-> b.candidates,
         placement  |-> b.placement]

EvalInv ==
    /\ CacheInv
    /\ EvalOK(board) /\ BoardShape(board)
    /\ EvalOK(load.next) /\ BoardShape(load.next)

LEMMA TurnKeepsShape ==
    ASSUME NEW b, BoardShape(b), NEW player, NEW remaining
    PROVE  BoardShape([b EXCEPT !.player = player, !.remaining = remaining])
<1> DEFINE next == [b EXCEPT !.player = player, !.remaining = remaining]
<1>1. DOMAIN b = DOMAIN [stones |-> b.stones, player |-> b.player,
                         remaining |-> b.remaining, winner |-> b.winner,
                         line |-> b.line, history |-> b.history,
                         zobrist |-> b.zobrist, eval |-> b.eval,
                         candidates |-> b.candidates, placement |-> b.placement]
  BY DEF BoardShape
<1>2. DOMAIN b = {"stones", "player", "remaining", "winner", "line", "history",
                  "zobrist", "eval", "candidates", "placement"}
  BY <1>1
<1>3. next = [f \in DOMAIN b |-> next[f]]
  OBVIOUS
<1>4. next = [f \in {"stones", "player", "remaining", "winner", "line", "history",
                  "zobrist", "eval", "candidates", "placement"} |-> next[f]]
  BY <1>2, <1>3
<1> HIDE DEF next
<1>5. BoardShape(next)
  BY <1>4 DEF BoardShape
<1> QED
  BY <1>5 DEF next

LEMMA UptoDepends ==
    ASSUME NEW s, NEW h, NEW t, NEW g, NEW k \in Nat,
           \A j \in 1 .. k : h[j] = g[j] /\ s[h[j].cell] = t[h[j].cell]
    PROVE  Upto(s, h, k) = Upto(t, g, k)
<1>1. {h[j].cell : j \in 1 .. k} = {g[j].cell : j \in 1 .. k}
  OBVIOUS
<1>2. \A c \in {h[j].cell : j \in 1 .. k} : s[c] = t[c]
  OBVIOUS
<1> QED
  BY <1>1, <1>2 DEF Upto

LEMMA UptoAll ==
    ASSUME NEW b, StonesOK(b.stones),
           DOMAIN b.stones = {b.history[j].cell : j \in 1 .. Len(b.history)}
    PROVE  Upto(b.stones, b.history, Len(b.history)) = b.stones
<1>1. b.stones = [c \in DOMAIN b.stones |-> b.stones[c]]
  BY DEF StonesOK
<1> QED
  BY <1>1 DEF Upto

LEMMA NewEval == EvalOK(NewBoard) /\ BoardShape(NewBoard)
<1>1. BoardShape(NewBoard)
  BY DEF BoardShape, NewBoard
<1>2. /\ NewBoard.stones = [c \in {} |-> 0]
      /\ NewBoard.history = <<>>
      /\ NewBoard.eval = EmptyEval
  BY DEF NewBoard
<1>3. StonesOK(NewBoard.stones) /\ DOMAIN NewBoard.stones = {}
  BY <1>2, NewBoardInv DEF BoardInv
<1>4. EmptyEval = EvalOf(NewBoard.stones, <<>>) /\ EmptyEval.deltas = <<>>
  BY <1>3, EmptyIsEvaluated DEF EmptyEval
<1>5. Len(NewBoard.history) = 0 /\ IsSeq(<<>>) /\ Len(<<>>) = 0
  BY <1>2 DEF IsSeq
<1>6. DOMAIN NewBoard.stones = {NewBoard.history[j].cell : j \in 1 .. 0}
  BY <1>3
<1> QED
  BY <1>1, <1>2, <1>4, <1>5, <1>6 DEF EvalOK

(* A stone is put on an empty cell. *)
LEMMA PutEval ==
    ASSUME NEW b, BoardInv(b), EvalOK(b),
           NEW cell \in Cells, cell \notin DOMAIN b.stones, NEW owner \in Players,
           NEW player \in Players, NEW remaining
    PROVE  LET put == PutStone(b, cell, owner, player, remaining)
           IN  /\ EvalOK(put)
               /\ Added(b.stones, put.stones, cell)
               /\ put.stones[cell] = owner
               /\ put.eval.deltas
                    = Append(b.eval.deltas, DeltaOf(b.stones, put.stones, cell))
<1> DEFINE put == PutStone(b, cell, owner, player, remaining)
           more == put.stones
           n == Len(b.history)
           ds == b.eval.deltas
           d == DeltaOf(b.stones, more, cell)
<1>1. /\ more = [c \in DOMAIN b.stones \cup {cell} |-> IF c = cell THEN owner ELSE b.stones[c]]
      /\ put.eval = EvalPlace(b.eval, cell, owner)
  BY DEF PutStone
<1>2. PICK rec : put.history = Append(b.history, rec) /\ rec.cell = cell
  BY DEF PutStone
<1>3. /\ DOMAIN more = DOMAIN b.stones \cup {cell}
      /\ more[cell] = owner
      /\ \A c \in DOMAIN b.stones : more[c] = b.stones[c]
  BY <1>1
<1>4. BoardInv(put)
  BY PutKeeps
<1> HIDE DEF put, more
<1>5. Added(b.stones, more, cell)
  BY <1>3, <1>4 DEF BoardInv, Added, more
<1>6. put.eval = EvalOf(more, Append(ds, d))
  <2>1. b.eval = EvalOf(b.stones, ds)
    BY DEF EvalOK
  <2> QED
    BY <1>1, <1>3, <1>5, <2>1, EvalAfterPlace
<1>7. put.eval.deltas = Append(ds, d)
  BY <1>6 DEF EvalOf
<1> HIDE DEF d
<1>8. /\ IsSeq(put.eval.deltas) /\ Len(put.eval.deltas) = n + 1 /\ n \in Nat
      /\ \A i \in 1 .. n : put.eval.deltas[i] = ds[i]
      /\ put.eval.deltas[n + 1] = d
  BY <1>7, AppendToHistory DEF EvalOK
<1>9. /\ Len(put.history) = n + 1
      /\ \A i \in 1 .. n : put.history[i] = b.history[i]
      /\ put.history[n + 1] = rec
  BY <1>2, AppendToHistory DEF BoardInv, HistoryOK
<1>10. DOMAIN more = {put.history[j].cell : j \in 1 .. Len(put.history)}
  <2>1. {put.history[j].cell : j \in 1 .. n + 1}
          = {b.history[j].cell : j \in 1 .. n} \cup {cell}
    BY <1>2, <1>8, <1>9
  <2> QED
    BY <1>3, <1>9, <2>1 DEF EvalOK
<1>11. ASSUME NEW k \in 0 .. n
       PROVE  Upto(more, put.history, k) = Upto(b.stones, b.history, k)
  <2>1. \A j \in 1 .. k : j \in 1 .. n /\ b.history[j].cell \in DOMAIN b.stones
    BY <1>8 DEF EvalOK
  <2>2. \A j \in 1 .. k : /\ put.history[j] = b.history[j]
                          /\ more[put.history[j].cell] = b.stones[put.history[j].cell]
    BY <1>3, <1>9, <2>1
  <2> QED
    BY <1>8, <2>2, UptoDepends
<1>12. Upto(more, put.history, n + 1) = more /\ Upto(b.stones, b.history, n) = b.stones
  <2>1. StonesOK(put.stones) /\ DOMAIN put.stones = {put.history[j].cell : j \in 1 .. Len(put.history)}
    BY <1>4, <1>10 DEF BoardInv, more
  <2>2. StonesOK(b.stones) /\ DOMAIN b.stones = {b.history[j].cell : j \in 1 .. Len(b.history)}
    BY DEF BoardInv, EvalOK
  <2> QED
    BY <1>9, <2>1, <2>2, UptoAll DEF more
<1>13. ASSUME NEW i \in 1 .. n + 1
       PROVE  put.eval.deltas[i] = DeltaOf(Upto(more, put.history, i - 1),
                                           Upto(more, put.history, i), put.history[i].cell)
  <2>1. CASE i = n + 1
    <3>1. i - 1 = n /\ n \in 0 .. n
      BY <1>8, <2>1
    <3>2. Upto(more, put.history, i - 1) = b.stones
      BY <1>11, <1>12, <3>1
    <3> QED
      BY <1>2, <1>8, <1>9, <1>12, <2>1, <3>2 DEF d
  <2>2. CASE i # n + 1
    <3>1. i \in 1 .. n /\ i \in 0 .. n /\ i - 1 \in 0 .. n
      BY <1>8, <2>2
    <3>2. ds[i] = DeltaOf(Upto(b.stones, b.history, i - 1),
                          Upto(b.stones, b.history, i), b.history[i].cell)
      BY <3>1 DEF EvalOK
    <3> QED
      BY <1>8, <1>9, <1>11, <3>1, <3>2
  <2> QED
    BY <2>1, <2>2
<1>14. EvalOK(put)
  BY <1>6, <1>7, <1>8, <1>9, <1>10, <1>13 DEF EvalOK, more
<1> QED
  BY <1>3, <1>5, <1>7, <1>14 DEF put, more, d

(* What EvalOK says is about these fields only. *)
LEMMA SameEval ==
    ASSUME NEW b, EvalOK(b), NEW other,
           other.stones = b.stones, other.history = b.history, other.eval = b.eval
    PROVE  EvalOK(other)
  BY DEF EvalOK

LEMMA CommitEval ==
    ASSUME NEW b, BoardInv(b), EvalOK(b), NEW cell \in Cells, cell \notin DOMAIN b.stones
    PROVE  EvalOK(Commit(b, cell)) /\ BoardShape(Commit(b, cell))
<1> DEFINE put == PutStone(b, cell, b.player, b.player, b.remaining)
           next == Commit(b, cell)
<1>1. /\ next.stones = put.stones /\ next.history = put.history /\ next.eval = put.eval
  BY DEF Commit, PutStone
<1>2. BoardShape(next)
  BY DEF Commit, PutStone, BoardShape
<1>3. EvalOK(put)
  BY PutEval DEF BoardInv
<1> HIDE DEF put, next
<1>4. EvalOK(next)
  BY <1>1, <1>3, SameEval
<1> QED
  BY <1>2, <1>4 DEF next

(* The last stone is taken back. *)
LEMMA UndoEval ==
    ASSUME NEW b, BoardInv(b), EvalOK(b), b.history # <<>>
    PROVE  EvalOK(Undo(b)) /\ BoardShape(Undo(b))
<1> DEFINE n == Len(b.history)
           cell == b.history[n].cell
           few == [c \in DOMAIN b.stones \ {cell} |-> b.stones[c]]
           next == Undo(b)
           ds == b.eval.deltas
<1>1. /\ next.stones = few
      /\ next.history = SubSeq(b.history, 1, n - 1)
      /\ next.eval = EvalUnplace(b.eval)
  BY DEF Undo
<1>2. BoardShape(next)
  BY DEF Undo, BoardShape
<1>3. BoardInv(next)
  BY UndoKeeps
<1>4. /\ n \in Nat \ {0}
      /\ Len(next.history) = n - 1
      /\ \A i \in 1 .. n - 1 : next.history[i] = b.history[i]
  BY <1>1, DropFromHistory DEF BoardInv, HistoryOK
<1>5. cell \in DOMAIN b.stones /\ \A i \in 1 .. n - 1 : b.history[i].cell # cell
  BY <1>4 DEF BoardInv, HistoryOK
<1>6. ds # <<>>
  <2>1. Len(ds) = n /\ Len(<<>>) = 0
    BY DEF EvalOK
  <2> QED
    BY <1>4, <2>1
<1>7. /\ IsSeq(SubSeq(ds, 1, n - 1)) /\ Len(SubSeq(ds, 1, n - 1)) = n - 1
      /\ \A i \in 1 .. n - 1 : SubSeq(ds, 1, n - 1)[i] = ds[i]
  BY <1>6, DropFromHistory DEF EvalOK
<1>8. /\ DOMAIN few = DOMAIN b.stones \ {cell}
      /\ \A c \in DOMAIN few : few[c] = b.stones[c]
  OBVIOUS
<1> HIDE DEF next, few, cell
<1>9. Added(few, b.stones, cell)
  BY <1>1, <1>3, <1>5, <1>8 DEF BoardInv, StonesOK, Added
<1>10. DOMAIN few = {next.history[j].cell : j \in 1 .. n - 1}
  <2>1. DOMAIN b.stones = {b.history[j].cell : j \in 1 .. n - 1} \cup {cell}
    BY <1>4 DEF EvalOK, cell
  <2> QED
    BY <1>4, <1>5, <1>8, <2>1
<1>11. ASSUME NEW k \in 0 .. n - 1
       PROVE  Upto(few, next.history, k) = Upto(b.stones, b.history, k)
  <2>1. \A j \in 1 .. k : j \in 1 .. n - 1 /\ next.history[j].cell \in DOMAIN few
    BY <1>4, <1>10
  <2>2. \A j \in 1 .. k : /\ next.history[j] = b.history[j]
                          /\ few[next.history[j].cell] = b.stones[next.history[j].cell]
    BY <1>4, <1>8, <2>1
  <2> QED
    BY <1>4, <2>2, UptoDepends
<1>12. Upto(few, next.history, n - 1) = few
  <2>1. StonesOK(next.stones)
        /\ DOMAIN next.stones = {next.history[j].cell : j \in 1 .. Len(next.history)}
    BY <1>1, <1>3, <1>4, <1>10 DEF BoardInv
  <2> QED
    BY <1>1, <1>4, <2>1, UptoAll
<1>13. Upto(b.stones, b.history, n) = b.stones
  BY UptoAll DEF BoardInv, EvalOK
<1>14. ds[Len(ds)] = DeltaOf(few, b.stones, cell)
  <2>1. n \in 1 .. n /\ n - 1 \in 0 .. n - 1 /\ Len(ds) = n
    BY <1>4 DEF EvalOK
  <2>2. ds[n] = DeltaOf(Upto(b.stones, b.history, n - 1),
                        Upto(b.stones, b.history, n), b.history[n].cell)
    BY <2>1 DEF EvalOK
  <2> QED
    BY <1>11, <1>12, <1>13, <2>1, <2>2 DEF cell
<1>15. next.eval = EvalOf(few, SubSeq(ds, 1, n - 1))
  <2>1. b.eval = EvalOf(b.stones, ds) /\ Len(ds) = n
    BY DEF EvalOK
  <2> HIDE DEF ds
  <2> QED
    BY <1>1, <1>9, <1>14, <2>1, EvalAfterUnplace
<1>16. next.eval.deltas = SubSeq(ds, 1, n - 1)
  BY <1>15 DEF EvalOf
<1>17. ASSUME NEW i \in 1 .. n - 1
       PROVE  next.eval.deltas[i] = DeltaOf(Upto(few, next.history, i - 1),
                                            Upto(few, next.history, i), next.history[i].cell)
  <2>1. i \in 1 .. n /\ i \in 0 .. n - 1 /\ i - 1 \in 0 .. n - 1
    BY <1>4
  <2>2. ds[i] = DeltaOf(Upto(b.stones, b.history, i - 1),
                        Upto(b.stones, b.history, i), b.history[i].cell)
    BY <2>1 DEF EvalOK
  <2> QED
    BY <1>4, <1>7, <1>11, <1>16, <2>1, <2>2
<1>18. EvalOK(next)
  BY <1>1, <1>4, <1>7, <1>10, <1>15, <1>16, <1>17 DEF EvalOK
<1> QED
  BY <1>2, <1>18 DEF next

(* The last element of a sequence, put there and taken away. *)
LEMMA DropAppended ==
    ASSUME NEW h, IsSeq(h), NEW x
    PROVE  SubSeq(Append(h, x), 1, Len(Append(h, x)) - 1) = h
<1> DEFINE S == {h[i] : i \in 1 .. Len(h)} \cup {x}
<1>1. h \in Seq(S) /\ x \in S
  BY DEF IsSeq
<1> HIDE DEF S
<1>2. /\ Len(Append(h, x)) = Len(h) + 1 /\ Len(h) \in Nat
      /\ \A i \in 1 .. Len(h) : Append(h, x)[i] = h[i]
  BY <1>1
<1>3. /\ SubSeq(Append(h, x), 1, Len(h)) \in Seq(S)
      /\ Len(SubSeq(Append(h, x), 1, Len(h))) = Len(h)
      /\ \A i \in 1 .. Len(h) : SubSeq(Append(h, x), 1, Len(h))[i] = Append(h, x)[i]
  <2>1. \A i \in 1 .. Len(h) : Append(h, x)[i] \in S
    BY <1>1, <1>2
  <2> QED
    BY <1>2, <2>1, Prefix
<1>4. SubSeq(Append(h, x), 1, Len(h)) = h
  BY <1>1, <1>2, <1>3, SeqEqual
<1>5. Len(Append(h, x)) - 1 = Len(h)
  BY <1>2
<1> QED
  BY <1>4, <1>5

(* A stone that is tried and taken back leaves no trace. *)
LEMMA UndoAfterCommit ==
    ASSUME NEW b, BoardInv(b), EvalOK(b), BoardShape(b),
           NEW cell \in Cells, cell \notin DOMAIN b.stones
    PROVE  Undo(Commit(b, cell)) = b
<1> DEFINE put == PutStone(b, cell, b.player, b.player, b.remaining)
           next == Commit(b, cell)
           rec == [cell |-> cell, player |-> b.player,
                   playerBefore |-> b.player, remainingBefore |-> b.remaining,
                   winnerBefore |-> b.winner, lineBefore |-> b.line]
           n == Len(next.history)
           back == Undo(next)
           few == [c \in DOMAIN next.stones \ {cell} |-> next.stones[c]]
<1>1. /\ next.stones = put.stones /\ next.history = put.history /\ next.eval = put.eval
      /\ next.zobrist = put.zobrist /\ next.history = Append(b.history, rec)
      /\ put.zobrist = Toggle(b.zobrist, <<b.player, cell>>)
  BY DEF Commit, PutStone
<1>2. /\ IsSeq(b.history) /\ StonesOK(b.stones) /\ b.player \in Players
      /\ b.zobrist = {<<b.stones[c], c>> : c \in DOMAIN b.stones}
      /\ b.candidates = Recompute(b.stones, NearRadius)
      /\ b.placement = Recompute(b.stones, PlacementRadius)
  BY DEF BoardInv, HistoryOK, CachesMatchStones
<1>3. /\ Added(b.stones, next.stones, cell)
      /\ \E d : next.eval.deltas = Append(b.eval.deltas, d)
  <2>1. Added(b.stones, put.stones, cell)
    BY <1>2, PutEval
  <2>2. put.eval.deltas = Append(b.eval.deltas, DeltaOf(b.stones, put.stones, cell))
    BY <1>2, PutEval
  <2> HIDE DEF put, next, rec
  <2> QED
    BY <1>1, <2>1, <2>2
<1>4. next.history[n] = rec /\ SubSeq(next.history, 1, n - 1) = b.history
  <2> HIDE DEF rec
  <2>1. n = Len(b.history) + 1 /\ next.history[Len(b.history) + 1] = rec
    BY <1>1, <1>2, AppendToHistory
  <2>2. SubSeq(next.history, 1, n - 1) = b.history
    BY <1>1, <1>2, DropAppended
  <2> QED
    BY <2>1, <2>2
<1>5. BoardInv(next) /\ EvalOK(next)
  BY CommitKeeps, CommitEval
<1>6. next.history # <<>>
  <2> HIDE DEF next, rec
  <2>1. n = Len(b.history) + 1 /\ Len(b.history) \in Nat /\ Len(<<>>) = 0
    BY <1>1, <1>2, AppendToHistory
  <2> QED
    BY <2>1
<1> HIDE DEF next, put
<1>7. few = b.stones
  <2>1. DOMAIN few = DOMAIN b.stones /\ \A c \in DOMAIN b.stones : few[c] = b.stones[c]
    BY <1>3 DEF Added
  <2>2. b.stones = [c \in DOMAIN b.stones |-> b.stones[c]]
    BY <1>2 DEF StonesOK
  <2>3. few = [c \in DOMAIN b.stones |-> few[c]]
    BY <2>1
  <2> QED
    BY <2>1, <2>2, <2>3
<1>8. /\ rec.cell = cell /\ rec.player = b.player /\ rec.playerBefore = b.player
      /\ rec.remainingBefore = b.remaining
      /\ rec.winnerBefore = b.winner /\ rec.lineBefore = b.line
  OBVIOUS
<1> HIDE DEF rec
<1>9. /\ back.player = b.player /\ back.remaining = b.remaining
      /\ back.winner = b.winner /\ back.line = b.line
      /\ back.stones = b.stones /\ back.history = b.history
      /\ back.zobrist = Toggle(next.zobrist, <<b.player, cell>>)
      /\ back.eval = EvalUnplace(next.eval)
  BY <1>4, <1>7, <1>8 DEF Undo
<1>10. BoardInv(back) /\ EvalOK(back) /\ BoardShape(back)
  BY <1>5, <1>6, UndoKeeps, UndoEval
<1> HIDE DEF back, few
<1>11. back.zobrist = b.zobrist /\ back.candidates = b.candidates /\ back.placement = b.placement
  BY <1>2, <1>9, <1>10 DEF BoardInv, CachesMatchStones
<1>12. back.eval = b.eval
  <2>1. back.eval = EvalOf(b.stones, back.eval.deltas) /\ b.eval = EvalOf(b.stones, b.eval.deltas)
    BY <1>9, <1>10 DEF EvalOK
  <2>2. back.eval.deltas = SubSeq(next.eval.deltas, 1, Len(next.eval.deltas) - 1)
    BY <1>9 DEF EvalUnplace
  <2>3. back.eval.deltas = b.eval.deltas
    BY <1>3, <2>2, DropAppended DEF EvalOK
  <2> QED
    BY <2>1, <2>3
<1>13. back = b
  BY <1>9, <1>10, <1>11, <1>12 DEF BoardShape
<1> QED
  BY <1>13 DEF back, next

LEMMA EvalInvInit == Init => EvalInv
<1> SUFFICES ASSUME Init PROVE EvalInv
  OBVIOUS
<1>1. board = NewBoard /\ load.next = NewBoard
  BY DEF Init, NoLoad, Loading
<1> QED
  BY <1>1, NewEval, CacheInvInit DEF EvalInv

LEMMA EvalInvStep == EvalInv /\ [Next]_vars => EvalInv'
<1> SUFFICES ASSUME EvalInv, [Next]_vars PROVE EvalInv'
  OBVIOUS
<1>1. /\ BoardInv(board) /\ EvalOK(board) /\ BoardShape(board)
      /\ BoardInv(load.next) /\ EvalOK(load.next) /\ BoardShape(load.next)
      /\ load.simPlayer \in Players
      /\ EvalOK(NewBoard) /\ BoardShape(NewBoard)
      /\ Offered \subseteq Cells
  BY NewEval, OfferedAreCells DEF EvalInv, CacheInv
<1>2. CacheInv'
  BY CacheInvStep DEF EvalInv
<1>3. \A kind : Loading(kind).next = NewBoard
  BY DEF Loading
<1>4. NoLoad.next = NewBoard
  BY <1>3 DEF NoLoad
<1>5. ASSUME NEW cell \in Offered, Place(cell)
      PROVE  EvalInv'
  <2>1. EvalOK(Commit(board, cell)) /\ BoardShape(Commit(board, cell))
    BY <1>1, <1>5, CommitEval DEF Place, Valid
  <2> QED
    BY <1>1, <1>2, <1>5, <2>1 DEF Place, EvalInv
<1>6. CASE Unplace
  <2>1. EvalOK(Undo(board)) /\ BoardShape(Undo(board))
    BY <1>1, <1>6, UndoEval DEF Unplace
  <2> QED
    BY <1>1, <1>2, <1>6, <2>1 DEF Unplace, EvalInv
<1>7. CASE Reset
  BY <1>1, <1>2, <1>7 DEF Reset, EvalInv
<1>8. CASE BeginHistory
  BY <1>1, <1>2, <1>3, <1>8 DEF BeginHistory, EvalInv
<1>9. ASSUME NEW cell \in Offered, NEW owner \in Players, LoadMove(cell, owner)
      PROVE  EvalInv'
  <2> DEFINE next == Commit(load.next, cell)
  <2>1. EvalOK(next) /\ BoardShape(next)
    BY <1>1, <1>9, CommitEval DEF LoadMove, Valid
  <2>2. load' = [load EXCEPT !.next = next] /\ UNCHANGED board
    BY <1>9 DEF LoadMove
  <2>3. load.kind = "history"
    BY <1>9 DEF LoadMove
  <2> HIDE DEF next
  <2>4. load'.next = next
    BY <2>2, <2>3
  <2> QED
    BY <1>1, <1>2, <2>1, <2>2, <2>4 DEF EvalInv
<1>10. CASE HistoryLoaded
  BY <1>1, <1>2, <1>4, <1>10 DEF HistoryLoaded, EvalInv
<1>11. CASE BeginPosition
  BY <1>1, <1>2, <1>3, <1>11 DEF BeginPosition, EvalInv
<1>12. ASSUME NEW cell \in Offered, NEW owner \in Players, LoadStone(cell, owner)
       PROVE  EvalInv'
  <2> DEFINE b == load.next
             put == PutStone(b, cell, owner, load.simPlayer, load.simRemaining)
             line == FindWinningLine(put.stones, cell, owner)
             next == IF line = <<>> THEN put
                     ELSE [put EXCEPT !.winner = owner, !.line = line]
  <2>1. EvalOK(put)
    BY <1>1, <1>12, PutEval DEF LoadStone
  <2>2. next.stones = put.stones /\ next.history = put.history /\ next.eval = put.eval
    BY DEF PutStone
  <2>3. BoardShape(next)
    <3>1. CASE line = <<>>
      BY <3>1 DEF PutStone, BoardShape
    <3>2. CASE line # <<>>
      <4> HIDE DEF line
      <4>1. next = [put EXCEPT !.winner = owner, !.line = line]
        BY <3>2
      <4> HIDE DEF next
      <4>2. PICK l : next = [put EXCEPT !.winner = owner, !.line = l]
        BY <4>1
      <4> QED
        BY <4>2 DEF PutStone, BoardShape
    <3> QED
      BY <3>1, <3>2
  <2>4. /\ load' = [load EXCEPT !.next = next,
                       !.simPlayer = IF load.simRemaining = 1 THEN 1 - @ ELSE @,
                       !.simRemaining = IF @ = 1 THEN 2 ELSE @ - 1]
        /\ UNCHANGED board
    BY <1>12 DEF LoadStone
  <2> HIDE DEF put, next
  <2>5. EvalOK(next)
    BY <2>1, <2>2, SameEval
  <2>6. load'.next = next
    BY <2>4
  <2> QED
    BY <1>1, <1>2, <2>3, <2>4, <2>5, <2>6 DEF EvalInv
<1>13. ASSUME NEW player \in Players, NEW remaining \in 1 .. 2,
              PositionLoaded(player, remaining)
       PROVE  EvalInv'
  <2> DEFINE b == load.next
             next == [b EXCEPT !.player = player,
                               !.remaining = IF Over(b) THEN 0 ELSE remaining]
  <2>1. next.stones = b.stones /\ next.history = b.history /\ next.eval = b.eval
    OBVIOUS
  <2>2. BoardShape(next)
    BY <1>1, TurnKeepsShape
  <2>3. board' = next /\ load' = NoLoad
    BY <1>13 DEF PositionLoaded
  <2> HIDE DEF next
  <2>4. EvalOK(next)
    BY <1>1, <2>1, SameEval
  <2> QED
    BY <1>1, <1>2, <1>4, <2>2, <2>3, <2>4 DEF EvalInv
<1>14. CASE LoadRefused
  BY <1>1, <1>2, <1>4, <1>14 DEF LoadRefused, EvalInv
<1>15. CASE UNCHANGED vars
  BY <1>1, <1>2, <1>15 DEF vars, EvalInv
<1> QED
  BY <1>5, <1>6, <1>7, <1>8, <1>9, <1>10, <1>11, <1>12, <1>13, <1>14, <1>15 DEF Next

LEMMA EvalOfIsConsistent ==
    ASSUME NEW stones, NEW deltas
    PROVE  EvalConsistent(EvalOf(stones, deltas), stones)
<1> DEFINE e == EvalOf(stones, deltas)
           idx == [w \in GridWindows |-> IndexOf(stones, w)]
<1>1. /\ e.indices = idx
      /\ e.score = Score(idx)
      /\ e.counts = [p \in Players |-> [t \in Threats |-> CountIn(idx, p, t)]]
      /\ e.hot = [p \in Players |-> {w \in GridWindows : IsHot(idx[w], p)}]
  BY DEF EvalOf, Idx
<1> HIDE DEF e, idx
<1>2. e.score = MapThenSumSet(LAMBDA w : PatternValue[idx[w]], GridWindows)
  BY <1>1, Zenon DEF Score
<1>3. \A p \in Players :
        /\ e.hot[p] = {w \in GridWindows : IsHot(idx[w], p)}
        /\ \A t \in Threats : e.counts[p][t] =
              Cardinality({w \in GridWindows : ThreatOf[idx[w]][p] = t})
  BY <1>1 DEF CountIn
<1>4. e.indices = [w \in GridWindows |-> IndexOf(stones, w)]
  BY <1>1 DEF idx
<1> QED
  BY <1>2, <1>3, <1>4, Zenon DEF EvalConsistent, e, idx

(* assert_consistent_with_stones never fails: after any placements, undos    *)
(* and loads, what the evaluation has added up and subtracted is what a      *)
(* recount from the stones gives, on any grid and with any weights.          *)
THEOREM EvalMatchesStonesHolds == Spec => []EvalMatchesStones
<1>1. EvalInv => EvalMatchesStones
  <2> SUFFICES ASSUME EvalInv PROVE EvalConsistent(Current.eval, Current.stones)
    BY DEF EvalMatchesStones
  <2>1. EvalOK(Current)
    BY DEF EvalInv, Current
  <2> QED
    BY <2>1, EvalOfIsConsistent DEF EvalOK
<1> QED
  BY <1>1, EvalInvInit, EvalInvStep, PTL DEF Spec

(* A stone that place accepts and unplace takes back leaves the board, with  *)
(* its turn, hash, maps and evaluation, as it was.                           *)
THEOREM UndoRestoresHolds == Spec => UndoRestores
<1>1. ASSUME EvalInv, [Next]_vars, load = NoLoad, Stones(board)' = Stones(board) + 1
      PROVE  Undo(board') = board
  <2>1. /\ BoardInv(board) /\ EvalOK(board) /\ BoardShape(board) /\ Offered \subseteq Cells
    BY <1>1, OfferedAreCells DEF EvalInv, CacheInv
  <2>2. Len(board.history) \in Nat
    BY <2>1, AppendToHistory DEF BoardInv, HistoryOK
  <2>3. Len(board'.history) = Len(board.history) + 1
    BY <1>1 DEF Stones
  <2>4. board' # board
    BY <2>2, <2>3
  <2>5. NoLoad.kind = "none"
    BY DEF NoLoad, Loading
  <2>6. ASSUME NEW cell \in Offered, Place(cell)
        PROVE  Undo(board') = board
    BY <2>1, <2>6, UndoAfterCommit DEF Place, Valid
  <2>7. ~Unplace
    <3> SUFFICES ASSUME Unplace PROVE FALSE
      OBVIOUS
    <3>1. Len(board'.history) = Len(board.history) - 1
      <4>1. /\ board'.history = SubSeq(board.history, 1, Len(board.history) - 1)
            /\ board.history # <<>>
        BY DEF Unplace, Undo
      <4> QED
        BY <2>1, <4>1, DropFromHistory DEF BoardInv, HistoryOK
    <3> QED
      BY <2>2, <2>3, <3>1
  <2>8. ~Reset
    <3> SUFFICES ASSUME Reset PROVE FALSE
      OBVIOUS
    <3>1. Len(board'.history) = 0
      BY DEF Reset, NewBoard
    <3> QED
      BY <2>2, <2>3, <3>1
  <2>9. /\ \A cell \in Offered, owner \in Players :
              ~LoadMove(cell, owner) /\ ~LoadStone(cell, owner)
        /\ ~HistoryLoaded /\ ~LoadRefused
        /\ \A player \in Players, remaining \in 1 .. 2 : ~PositionLoaded(player, remaining)
    BY <1>1, <2>5 DEF LoadMove, LoadStone, HistoryLoaded, LoadRefused, PositionLoaded
  <2>10. ~BeginHistory /\ ~BeginPosition /\ ~UNCHANGED vars
    BY <2>4 DEF BeginHistory, BeginPosition, vars
  <2> QED
    BY <1>1, <2>6, <2>7, <2>8, <2>9, <2>10 DEF Next
<1>2. EvalInv /\ [Next]_vars
        => [load = NoLoad /\ Stones(board)' = Stones(board) + 1 => Undo(board') = board]_vars
  BY <1>1
<1> QED
  BY <1>2, EvalInvInit, EvalInvStep, PTL DEF Spec, UndoRestores

-----------------------------------------------------------------------------
(* Threats: the windows of one player's stones that lack one or two cells. *)
(* All windows of the plane; the grid of the evaluation has some of them.    *)
Windows == Cells \X DOMAIN Directions
Missing(stones, w) == WindowCells(w) \ DOMAIN stones
OnlyOf(stones, w, p) == \A c \in WindowCells(w) \cap DOMAIN stones : stones[c] = p

LEMMA CellsOfWindow ==
    ASSUME NEW w \in Windows
    PROVE  /\ \A off \in Offsets : CellAt(w, off) \in Cells
           /\ \A m, n \in Offsets : CellAt(w, m) = CellAt(w, n) => m = n
           /\ WindowCells(w) \subseteq Cells
<1>1. w[1] \in Cells /\ w[2] \in DOMAIN Directions
  BY DEF Windows
<1>2. Offsets \subseteq Int
  BY WinLengthOK DEF Offsets
<1>3. \A off \in Int : Along(w[1], Directions[w[2]], off) \in Cells
  BY <1>1, AlongAdds
<1>4. \A m, n \in Int :
        Along(w[1], Directions[w[2]], m) = Along(w[1], Directions[w[2]], n) => m = n
  BY <1>1, AlongIsOneToOne
<1> QED
  BY <1>2, <1>3, <1>4 DEF CellAt, WindowCells

(* As many cells as offsets. *)
LEMMA CellsAtOffsets ==
    ASSUME NEW w \in Windows, NEW A \in SUBSET Offsets
    PROVE  LET cells == {CellAt(w, off) : off \in A}
           IN  IsFiniteSet(cells) /\ Cardinality(cells) = Cardinality(A)
<1> DEFINE T == {CellAt(w, off) : off \in A}
           f == [off \in A |-> CellAt(w, off)]
<1>1. IsFiniteSet(A)
  <2>1. IsFiniteSet(Offsets)
    BY WinLengthOK, FS_Interval DEF Offsets
  <2> QED
    BY <2>1, FS_Subset
<1>2. f \in [A -> T]
  OBVIOUS
<1>3. \A m, n \in A : f[m] = f[n] => m = n
  BY CellsOfWindow
<1>4. \A c \in T : \E off \in A : f[off] = c
  OBVIOUS
<1> HIDE DEF f, T
<1>5. f \in Surjection(A, T) /\ f \in Injection(A, T)
  BY <1>2, <1>3, <1>4 DEF Surjection, Injection, IsInjective
<1>6. IsFiniteSet(T) /\ Cardinality(T) = Cardinality(A)
  BY <1>1, <1>5, FS_Surjection
<1> QED
  BY <1>6 DEF T

LEMMA WindowSize ==
    ASSUME NEW w \in Windows
    PROVE  IsFiniteSet(WindowCells(w)) /\ Cardinality(WindowCells(w)) = WinLength
<1>1. Cardinality(Offsets) = WinLength
  BY WinLengthOK, FS_Interval DEF Offsets
<1>2. Offsets \in SUBSET Offsets
  OBVIOUS
<1> QED
  BY <1>1, <1>2, CellsAtOffsets DEF WindowCells

LEMMA TakenAndMissing ==
    ASSUME NEW stones, NEW w \in Windows
    PROVE  /\ IsFiniteSet(Missing(stones, w))
           /\ Cardinality(Missing(stones, w)) \in Nat
           /\ Cardinality(WindowCells(w) \cap DOMAIN stones) \in Nat
           /\ Cardinality(WindowCells(w) \cap DOMAIN stones) + Cardinality(Missing(stones, w))
                = WinLength
<1> DEFINE W == WindowCells(w)
           D == DOMAIN stones
<1>1. IsFiniteSet(W) /\ Cardinality(W) = WinLength
  BY WindowSize
<1> HIDE DEF W, D
<1>2. IsFiniteSet(W \ D) /\ Cardinality(W \ D) = Cardinality(W) - Cardinality(W \cap D)
  BY <1>1, FS_Difference
<1>3. IsFiniteSet(W \cap D)
  BY <1>1, FS_Subset
<1>4. Cardinality(W \ D) \in Nat /\ Cardinality(W \cap D) \in Nat
  BY <1>2, <1>3, FS_CardinalityType
<1>5. Cardinality(W \cap D) + Cardinality(W \ D) = WinLength
  BY <1>1, <1>2, <1>4, WinLengthOK
<1> QED
  BY <1>2, <1>4, <1>5 DEF W, D, Missing

LEMMA AlongReturns ==
    ASSUME NEW cell \in Cells, NEW dir \in DOMAIN Directions, NEW n \in Int
    PROVE  LET d == Directions[dir]
           IN  /\ Along(Along(cell, d, n), d, -n) = cell
               /\ Along(Along(cell, d, -n), d, n) = cell
<1>1. PICK q \in Int, r \in Int : cell = <<q, r>>
  BY DEF Cells
<1> QED
  BY <1>1, DirectionsAre DEF Along

(* The windows that are looked at, those through a stone of the player.      *)
LEMMA WindowsOfAre ==
    ASSUME NEW stones, StonesOK(stones), NEW p, NEW w
    PROVE  w \in WindowsOf(stones, p)
             <=> w \in Windows /\ \E c \in WindowCells(w) : Owns(stones, c, p)
<1>1. Offsets \subseteq Int /\ \A off \in Offsets : -off \in Int /\ -off + off = 0 /\ off + (-off) = 0
  BY WinLengthOK DEF Offsets
<1>2. ASSUME w \in WindowsOf(stones, p)
      PROVE  w \in Windows /\ \E c \in WindowCells(w) : Owns(stones, c, p)
  <2>1. PICK s \in {c \in DOMAIN stones : stones[c] = p}, dir \in DOMAIN Directions, off \in Offsets :
          w = <<Along(s, Directions[dir], -off), dir>>
    BY <1>2 DEF WindowsOf
  <2>2. s \in Cells
    BY DEF StonesOK
  <2>3. Along(s, Directions[dir], -off) \in Cells
    BY <1>1, <2>2, AlongAdds
  <2>4. Along(Along(s, Directions[dir], -off), Directions[dir], off) = s
    BY <1>1, <2>2, AlongReturns
  <2>5. w \in Windows /\ CellAt(w, off) = s
    BY <2>1, <2>3, <2>4 DEF Windows, CellAt
  <2> QED
    BY <2>5 DEF WindowCells, Owns
<1>3. ASSUME w \in Windows, NEW c \in WindowCells(w), Owns(stones, c, p)
      PROVE  w \in WindowsOf(stones, p)
  <2>1. PICK off \in Offsets : c = CellAt(w, off)
    BY <1>3 DEF WindowCells
  <2>2. w[1] \in Cells /\ w[2] \in DOMAIN Directions /\ w = <<w[1], w[2]>>
    BY <1>3 DEF Windows
  <2>3. Along(c, Directions[w[2]], -off) = w[1]
    BY <1>1, <2>1, <2>2, AlongReturns DEF CellAt
  <2>4. c \in {s \in DOMAIN stones : stones[s] = p}
    BY <1>3 DEF Owns
  <2>5. w = <<Along(c, Directions[w[2]], -off), w[2]>>
    BY <2>2, <2>3
  <2> QED
    BY <2>2, <2>4, <2>5 DEF WindowsOf
<1> QED
  BY <1>2, <1>3

(* A window that lacks two cells at most has a stone.                        *)
LEMMA SomeStone ==
    ASSUME NEW stones, NEW w \in Windows, Cardinality(Missing(stones, w)) <= 2
    PROVE  \E c \in WindowCells(w) : c \in DOMAIN stones
<1> SUFFICES ASSUME WindowCells(w) \cap DOMAIN stones = {} PROVE FALSE
  OBVIOUS
<1> QED
  BY TakenAndMissing, FS_EmptySet, WinLengthOK

LEMMA ThreatWindowsAre ==
    ASSUME NEW stones, StonesOK(stones), NEW p, NEW e
    PROVE  e \in ThreatWindows(stones, p)
             <=> \E w \in Windows : /\ OnlyOf(stones, w, p)
                                    /\ Cardinality(Missing(stones, w)) \in 1 .. 2
                                    /\ e = Missing(stones, w)
<1> DEFINE size(w) == Cardinality(WindowCells(w) \cap DOMAIN stones)
           less(w) == Cardinality(Missing(stones, w))
           threat(w) == w \in WindowsOf(stones, p) /\ OnlyOf(stones, w, p)
                        /\ size(w) \in {WinLength - 2, WinLength - 1}
<1>1. e \in ThreatWindows(stones, p) <=> \E w : threat(w) /\ e = Missing(stones, w)
  BY DEF ThreatWindows, OnlyOf, Missing
<1>2. ASSUME NEW w \in Windows
      PROVE  size(w) \in {WinLength - 2, WinLength - 1} <=> less(w) \in 1 .. 2
  <2>1. size(w) \in Nat /\ less(w) \in Nat /\ size(w) + less(w) = WinLength
    BY TakenAndMissing
  <2> HIDE DEF size, less
  <2> QED
    BY <2>1, WinLengthOK
<1>3. ASSUME NEW w \in Windows, OnlyOf(stones, w, p), less(w) \in 1 .. 2
      PROVE  w \in WindowsOf(stones, p)
  <2>1. PICK c \in WindowCells(w) : c \in DOMAIN stones
    BY <1>3, SomeStone
  <2>2. Owns(stones, c, p)
    BY <1>3, <2>1 DEF OnlyOf, Owns
  <2> QED
    BY <2>2, WindowsOfAre
<1>4. \A w : w \in WindowsOf(stones, p) => w \in Windows
  BY WindowsOfAre
<1> HIDE DEF size
<1> QED
  BY <1>1, <1>2, <1>3, <1>4

LEMMA HasLineIs ==
    ASSUME NEW stones, StonesOK(stones), NEW p
    PROVE  HasLine(stones, p)
             <=> \E w \in Windows : \A c \in WindowCells(w) : Owns(stones, c, p)
<1>1. ASSUME NEW s \in DOMAIN stones, NEW dir \in DOMAIN Directions,
             \A off \in Offsets : Owns(stones, Along(s, Directions[dir], off), p)
      PROVE  \E w \in Windows : \A c \in WindowCells(w) : Owns(stones, c, p)
  <2> DEFINE w == <<s, dir>>
  <2>1. w \in Windows
    BY DEF Windows, StonesOK
  <2>2. \A c \in WindowCells(w) : Owns(stones, c, p)
    BY <1>1 DEF WindowCells, CellAt
  <2> QED
    BY <2>1, <2>2
<1>2. ASSUME NEW w \in Windows, \A c \in WindowCells(w) : Owns(stones, c, p)
      PROVE  HasLine(stones, p)
  <2>1. w[1] \in Cells /\ w[2] \in DOMAIN Directions /\ 0 \in Offsets
    BY WinLengthOK DEF Windows, Offsets
  <2>2. \A off \in Offsets : Owns(stones, Along(w[1], Directions[w[2]], off), p)
    BY <1>2 DEF WindowCells, CellAt
  <2>3. w[1] \in DOMAIN stones
    BY <2>1, <2>2, AlongBack DEF Owns
  <2> QED
    BY <2>1, <2>2, <2>3 DEF HasLine
<1> QED
  BY <1>1, <1>2 DEF HasLine

LEMMA CouldWinIs ==
    ASSUME NEW stones, StonesOK(stones), NEW p
    PROVE  CouldWin(stones, p)
             <=> \E w \in Windows : /\ OnlyOf(stones, w, p)
                                    /\ Cardinality(Missing(stones, w)) <= 2
<1>1. CouldWin(stones, p)
        <=> \E w \in WindowsOf(stones, p) : /\ OnlyOf(stones, w, p)
                                            /\ Cardinality(Missing(stones, w)) <= 2
  BY DEF CouldWin, OnlyOf, Missing
<1>2. ASSUME NEW w \in Windows, OnlyOf(stones, w, p), Cardinality(Missing(stones, w)) <= 2
      PROVE  w \in WindowsOf(stones, p)
  <2>1. PICK c \in WindowCells(w) : c \in DOMAIN stones
    BY <1>2, SomeStone
  <2>2. Owns(stones, c, p)
    BY <1>2, <2>1 DEF OnlyOf, Owns
  <2> QED
    BY <2>2, WindowsOfAre
<1> QED
  BY <1>1, <1>2, WindowsOfAre

(* A position in which a player has to move. *)
Position(b) ==
    /\ StonesOK(b.stones) /\ NoLine(b.stones) /\ ~Over(b)
    /\ b.player \in Players /\ b.remaining \in 1 .. 2

LEMMA OneOrTwo ==
    ASSUME NEW e, IsFiniteSet(e)
    PROVE  /\ Cardinality(e) = 1 <=> \E c : e = {c}
           /\ Cardinality(e) = 2 <=> \E c, d : c # d /\ e = {c, d}
           /\ Cardinality(e) = 0 <=> e = {}
           /\ Cardinality(e) \in Nat
<1>1. Cardinality(e) \in Nat /\ (Cardinality(e) = 1 <=> \E c : e = {c})
      /\ (Cardinality(e) = 0 <=> e = {})
  BY FS_CardinalityType, FS_Singleton, FS_EmptySet
<1>2. ASSUME NEW c, NEW d, c # d, e = {c, d}
      PROVE  Cardinality(e) = 2
  <2>1. IsFiniteSet({c}) /\ Cardinality({c}) = 1 /\ {c} \cup {d} = e /\ d \notin {c}
    BY <1>2, FS_Singleton
  <2> QED
    BY <2>1, FS_AddElement
<1>3. ASSUME Cardinality(e) = 2
      PROVE  \E c, d : c # d /\ e = {c, d}
  <2>1. PICK c : c \in e
    BY <1>1, <1>3
  <2>2. IsFiniteSet(e \ {c}) /\ Cardinality(e \ {c}) = 1
    BY <1>3, <2>1, FS_RemoveElement
  <2>3. PICK d : e \ {c} = {d}
    BY <2>2, FS_Singleton
  <2>4. c # d /\ e = {c, d}
    BY <2>1, <2>3
  <2> QED
    BY <2>4
<1> QED
  BY <1>1, <1>2, <1>3

LEMMA PairSize ==
    ASSUME NEW c, NEW d
    PROVE  IsFiniteSet({c, d}) /\ Cardinality({c, d}) = IF c = d THEN 1 ELSE 2
<1>1. IsFiniteSet({c}) /\ Cardinality({c}) = 1 /\ {c} \cup {d} = {c, d}
  BY FS_Singleton
<1>2. IsFiniteSet({c, d}) /\ Cardinality({c, d}) = IF d \in {c} THEN 1 ELSE 2
  BY <1>1, FS_AddElement
<1> QED
  BY <1>2

LEMMA ThreatShape ==
    ASSUME NEW stones, StonesOK(stones), NEW p, NEW e \in ThreatWindows(stones, p)
    PROVE  /\ IsFiniteSet(e) /\ Cardinality(e) \in 1 .. 2 /\ e # {}
           /\ e \subseteq Cells /\ e \cap DOMAIN stones = {}
<1>1. PICK w \in Windows : Cardinality(Missing(stones, w)) \in 1 .. 2 /\ e = Missing(stones, w)
  BY ThreatWindowsAre
<1>2. IsFiniteSet(e)
  BY <1>1, TakenAndMissing
<1>3. e # {}
  BY <1>1, <1>2, OneOrTwo
<1>4. e \subseteq Cells /\ e \cap DOMAIN stones = {}
  BY <1>1, CellsOfWindow DEF Missing
<1> QED
  BY <1>1, <1>2, <1>3, <1>4

LEMMA StonesWithTurn ==
    ASSUME NEW stones, StonesOK(stones), NEW t, t \subseteq Cells, IsFiniteSet(t),
           NEW p \in Players
    PROVE  StonesOK(WithTurn(stones, t, p))
<1>1. IsFiniteSet(DOMAIN stones \cup t)
  BY FS_Union DEF StonesOK
<1> QED
  BY <1>1 DEF StonesOK, WithTurn

LEMMA WinningTurnsAre ==
    ASSUME NEW b, Position(b)
    PROVE  LET winning == WinningTurns(ThreatWindows(b.stones, b.player), b.remaining)
           IN  /\ TacticalStatus(b).turns = winning
               /\ TacticalStatus(b).kind = "winning" <=> winning # {}
<1> DEFINE winning == WinningTurns(ThreatWindows(b.stones, b.player), b.remaining)
<1>1. ~Over(b)
  BY DEF Position
<1> HIDE DEF winning
<1>2. CASE winning # {}
  <2>1. TacticalStatus(b) = Status("winning", winning, {}, {})
    BY <1>1, <1>2 DEF TacticalStatus, winning
  <2> QED
    BY <1>2, <2>1 DEF Status, winning
<1>3. CASE winning = {}
  <2>1. TacticalStatus(b).turns = {} /\ TacticalStatus(b).kind # "winning"
    BY <1>1, <1>3 DEF TacticalStatus, winning, Status, Quiet
  <2> QED
    BY <1>3, <2>1 DEF winning
<1> QED
  BY <1>2, <1>3

(* A turn makes a line exactly when it fills what a window lacks. *)
LEMMA TurnWins ==
    ASSUME NEW b, Position(b), NEW t, t \subseteq Cells, IsFiniteSet(t),
           t \cap DOMAIN b.stones = {}, Cardinality(t) <= b.remaining
    PROVE  HasLine(WithTurn(b.stones, t, b.player), b.player)
             <=> \E e \in WinningTurns(ThreatWindows(b.stones, b.player), b.remaining) : e \subseteq t
<1> DEFINE after == WithTurn(b.stones, t, b.player)
           winning == WinningTurns(ThreatWindows(b.stones, b.player), b.remaining)
<1>1. /\ StonesOK(b.stones) /\ b.player \in Players /\ b.remaining \in 1 .. 2
      /\ ~HasLine(b.stones, b.player)
  BY DEF Position, NoLine
<1>2. StonesOK(after)
  BY <1>1, StonesWithTurn
<1>3. \A c : Owns(after, c, b.player) <=> c \in t \/ Owns(b.stones, c, b.player)
  BY DEF WithTurn, Owns
<1> HIDE DEF after
<1>4. ASSUME NEW w \in Windows, \A c \in WindowCells(w) : Owns(after, c, b.player)
      PROVE  \E e \in winning : e \subseteq t
  <2> DEFINE e == Missing(b.stones, w)
  <2>1. e \subseteq t
    BY <1>3, <1>4 DEF Missing, Owns
  <2>2. OnlyOf(b.stones, w, b.player)
    BY <1>3, <1>4 DEF OnlyOf, Owns
  <2>3. e # {}
    <3> SUFFICES ASSUME e = {} PROVE FALSE
      OBVIOUS
    <3>1. \A c \in WindowCells(w) : Owns(b.stones, c, b.player)
      BY <2>2 DEF OnlyOf, Owns, Missing
    <3> QED
      BY <1>1, <3>1, HasLineIs
  <2> HIDE DEF e
  <2>4. IsFiniteSet(e) /\ Cardinality(e) <= Cardinality(t)
    BY <2>1, FS_Subset
  <2>5. Cardinality(e) \in Nat /\ Cardinality(e) # 0 /\ Cardinality(t) \in Nat
    BY <2>3, <2>4, OneOrTwo
  <2>6. Cardinality(e) \in 1 .. 2 /\ Cardinality(e) <= b.remaining
    BY <1>1, <2>4, <2>5
  <2>7. e \in ThreatWindows(b.stones, b.player)
    BY <1>1, <2>2, <2>6, ThreatWindowsAre DEF e
  <2> QED
    BY <2>1, <2>6, <2>7 DEF WinningTurns
<1>5. ASSUME NEW e \in winning, e \subseteq t
      PROVE  HasLine(after, b.player)
  <2>1. PICK w \in Windows : OnlyOf(b.stones, w, b.player) /\ e = Missing(b.stones, w)
    BY <1>1, ThreatWindowsAre DEF WinningTurns
  <2>2. \A c \in WindowCells(w) : Owns(after, c, b.player)
    BY <1>3, <1>5, <2>1 DEF OnlyOf, Missing, Owns
  <2> QED
    BY <1>2, <2>2, HasLineIs
<1> QED
  BY <1>2, <1>4, <1>5, HasLineIs DEF after

LEMMA TurnsAre ==
    ASSUME NEW b, StonesOK(b.stones), NEW least \in Nat, NEW t \in TurnsOf(b, least)
    PROVE  /\ t \subseteq Cells /\ IsFiniteSet(t) /\ t \cap DOMAIN b.stones = {}
           /\ Cardinality(t) \in least .. b.remaining
<1>1. PICK c \in Playable(b), d \in Playable(b) : t = {c, d}
  BY DEF TurnsOf
<1>2. \A p : LiveCells(b, p) \subseteq Cells
  BY ThreatShape DEF LiveCells
<1>3. Playable(b) \subseteq Cells /\ Playable(b) \cap DOMAIN b.stones = {}
  BY <1>2, OfferedAreCells DEF Playable
<1>4. IsFiniteSet(t)
  BY <1>1, PairSize, Zenon
<1>5. Cardinality(t) \in least .. b.remaining
  BY DEF TurnsOf
<1> QED
  BY <1>1, <1>3, <1>4, <1>5

LEMMA WinsAreExact ==
    ASSUME Position(board)
    PROVE  LET winning == TacticalStatus(board).turns
           IN  /\ \A w \in winning : Cardinality(w) \in 1 .. board.remaining
               /\ \A t \in TurnsOf(board, 1) :
                     HasLine(WithTurn(board.stones, t, board.player), board.player)
                       <=> \E w \in winning : w \subseteq t
<1> DEFINE winning == WinningTurns(ThreatWindows(board.stones, board.player), board.remaining)
<1>1. TacticalStatus(board).turns = winning
  BY WinningTurnsAre
<1>2. StonesOK(board.stones) /\ board.remaining \in 1 .. 2
  BY DEF Position
<1>3. ASSUME NEW w \in winning
      PROVE  Cardinality(w) \in 1 .. board.remaining
  <2>1. w \in ThreatWindows(board.stones, board.player) /\ Cardinality(w) <= board.remaining
    BY <1>3 DEF WinningTurns
  <2> QED
    BY <1>2, <2>1, ThreatShape
<1>4. ASSUME NEW t \in TurnsOf(board, 1)
      PROVE  HasLine(WithTurn(board.stones, t, board.player), board.player)
               <=> \E w \in winning : w \subseteq t
  <2>1. /\ t \subseteq Cells /\ IsFiniteSet(t) /\ t \cap DOMAIN board.stones = {}
        /\ Cardinality(t) \in 1 .. board.remaining
    BY <1>2, TurnsAre
  <2>2. Cardinality(t) <= board.remaining
    BY <1>2, <2>1
  <2> QED
    BY <2>1, <2>2, TurnWins
<1> HIDE DEF winning
<1> QED
  BY <1>1, <1>3, <1>4

LEMMA InPlayIs ==
    ASSUME RulesInv, InPlay(board)
    PROVE  Position(board)
<1>1. LinesOK(board) /\ LeftOK(board) /\ BoardInv(board) /\ ~Over(board)
  BY DEF RulesInv, CacheInv, InPlay
<1> QED
  BY <1>1 DEF Position, LinesOK, LeftOK, BoardInv

(* "Every turn that wins immediately". *)
THEOREM WinningTurnsExactHolds == Spec => []WinningTurnsExact
<1>1. RulesInv => WinningTurnsExact
  BY InPlayIs, WinsAreExact DEF WinningTurnsExact
<1> QED
  BY <1>1, RulesInvInit, RulesInvStep, PTL DEF Spec

-----------------------------------------------------------------------------
(* The answers to a threat. *)
(* A turn leaves the opponent a winning turn exactly when it misses one of   *)
(* the windows they threaten with.                                           *)
LEMMA TurnLeavesWin ==
    ASSUME NEW b, Position(b), NEW t, t \subseteq Cells, IsFiniteSet(t),
           t \cap DOMAIN b.stones = {}
    PROVE  CouldWin(WithTurn(b.stones, t, b.player), 1 - b.player)
             <=> \E e \in ThreatWindows(b.stones, 1 - b.player) : e \cap t = {}
<1> DEFINE after == WithTurn(b.stones, t, b.player)
           opp == 1 - b.player
<1>1. /\ StonesOK(b.stones) /\ b.player \in Players /\ opp \in Players /\ opp # b.player
      /\ ~HasLine(b.stones, opp)
  BY DEF Position, NoLine, Players
<1>2. StonesOK(after)
  BY <1>1, StonesWithTurn
<1>3. /\ DOMAIN after = DOMAIN b.stones \cup t
      /\ \A c \in t : after[c] = b.player
      /\ \A c \in DOMAIN b.stones : after[c] = b.stones[c]
  BY DEF WithTurn
<1> HIDE DEF after, opp
<1>4. ASSUME NEW w \in Windows, OnlyOf(after, w, opp), Cardinality(Missing(after, w)) <= 2
      PROVE  \E e \in ThreatWindows(b.stones, opp) : e \cap t = {}
  <2> DEFINE e == Missing(b.stones, w)
  <2>1. WindowCells(w) \cap t = {}
    BY <1>1, <1>3, <1>4 DEF OnlyOf
  <2>2. Missing(after, w) = e
    BY <1>3, <2>1 DEF Missing
  <2>3. OnlyOf(b.stones, w, opp)
    BY <1>3, <1>4 DEF OnlyOf
  <2>4. e # {}
    <3> SUFFICES ASSUME e = {} PROVE FALSE
      OBVIOUS
    <3>1. \A c \in WindowCells(w) : Owns(b.stones, c, opp)
      BY <2>3 DEF OnlyOf, Owns, Missing
    <3> QED
      BY <1>1, <3>1, HasLineIs
  <2>5. e \cap t = {}
    BY <2>1 DEF Missing
  <2> HIDE DEF e
  <2>6. IsFiniteSet(e)
    BY TakenAndMissing DEF e
  <2>7. Cardinality(e) \in Nat /\ Cardinality(e) # 0
    BY <2>4, <2>6, OneOrTwo
  <2>8. Cardinality(e) \in 1 .. 2
    BY <1>4, <2>2, <2>7
  <2>9. e \in ThreatWindows(b.stones, opp)
    BY <1>1, <2>3, <2>8, ThreatWindowsAre DEF e
  <2> QED
    BY <2>5, <2>9
<1>5. ASSUME NEW e \in ThreatWindows(b.stones, opp), e \cap t = {}
      PROVE  CouldWin(after, opp)
  <2>1. PICK w \in Windows : /\ OnlyOf(b.stones, w, opp)
                             /\ Cardinality(Missing(b.stones, w)) \in 1 .. 2
                             /\ e = Missing(b.stones, w)
    BY <1>1, ThreatWindowsAre
  <2>2. WindowCells(w) \cap t = {}
    BY <1>5, <2>1 DEF Missing
  <2>3. Missing(after, w) = e
    BY <1>3, <2>1, <2>2 DEF Missing
  <2>4. OnlyOf(after, w, opp)
    BY <1>3, <2>1, <2>2 DEF OnlyOf
  <2>5. Cardinality(Missing(after, w)) <= 2
    BY <2>1, <2>3
  <2> QED
    BY <1>2, <2>4, <2>5, CouldWinIs
<1> QED
  BY <1>2, <1>4, <1>5, CouldWinIs DEF after, opp

(* The sets that meet every window: those with a cell of all, and the pairs. *)
LEMMA MeetsAll ==
    ASSUME NEW windows, windows # {}, NEW remaining \in 1 .. 2,
           NEW t, IsFiniteSet(t), Cardinality(t) = remaining
    PROVE  (\A e \in windows : e \cap t # {})
             <=> t \cap BlockCells(windows) # {} \/ t \in BlockPairs(windows, remaining)
<1>1. ASSUME NEW c \in t, c \in BlockCells(windows)
      PROVE  \A e \in windows : e \cap t # {}
  BY <1>1 DEF BlockCells
<1>2. ASSUME t \in BlockPairs(windows, remaining)
      PROVE  \A e \in windows : e \cap t # {}
  <2>1. ~(remaining <= 1)
    BY <1>2 DEF BlockPairs
  <2> QED
    BY <1>2, <2>1 DEF BlockPairs
<1>3. ASSUME \A e \in windows : e \cap t # {}, t \cap BlockCells(windows) = {}
      PROVE  t \in BlockPairs(windows, remaining)
  <2>1. ASSUME NEW c \in t
        PROVE  \E e \in windows : c \notin e
    <3> SUFFICES ASSUME \A e \in windows : c \in e PROVE FALSE
      OBVIOUS
    <3>1. c \in UNION windows
      OBVIOUS
    <3> QED
      BY <1>3, <3>1 DEF BlockCells
  <2>2. CASE remaining = 1
    <3>1. PICK c : t = {c}
      BY <2>2, OneOrTwo
    <3>2. PICK e \in windows : c \notin e
      BY <2>1, <3>1
    <3> QED
      BY <1>3, <3>1, <3>2
  <2>3. CASE remaining = 2
    <3>1. PICK c, d : c # d /\ t = {c, d}
      BY <2>3, OneOrTwo
    <3>2. PICK e1 \in windows : c \notin e1
      BY <2>1, <3>1
    <3>3. PICK e2 \in windows : d \notin e2
      BY <2>1, <3>1
    <3>4. d \in UNION windows /\ c \in UNION windows
      BY <1>3, <3>1, <3>2, <3>3
    <3>5. Cardinality(t) = 2 /\ t \in {{x, y} : x \in UNION windows, y \in UNION windows}
      BY <2>3, <3>1, <3>4
    <3>6. ~(remaining <= 1)
      BY <2>3
    <3> QED
      BY <1>3, <3>5, <3>6 DEF BlockPairs
  <2> QED
    BY <2>2, <2>3
<1> QED
  BY <1>1, <1>2, <1>3

(* What the status of a position says, when no turn wins at once.            *)
LEMMA StatusIs ==
    ASSUME NEW b, Position(b), TacticalStatus(b).kind # "winning"
    PROVE  LET status == TacticalStatus(b)
               threats == ThreatWindows(b.stones, 1 - b.player)
               cells == BlockCells(threats)
               pairs == BlockPairs(threats, b.remaining)
           IN  /\ status.turns = {}
               /\ threats = {} <=> status.kind = "quiet"
               /\ status.kind = "quiet" => status.cells = {} /\ status.pairs = {}
               /\ status.kind = "unblockable" =>
                     status.cells = {} /\ status.pairs = {} /\ cells = {} /\ pairs = {}
               /\ status.kind = "block" =>
                     status.cells = cells /\ status.pairs = pairs /\ ~(cells = {} /\ pairs = {})
               /\ status.kind \in {"quiet", "unblockable", "block"}
<1> DEFINE winning == WinningTurns(ThreatWindows(b.stones, b.player), b.remaining)
           threats == ThreatWindows(b.stones, 1 - b.player)
           cells == BlockCells(threats)
           pairs == BlockPairs(threats, b.remaining)
<1>1. winning = {} /\ ~Over(b)
  BY WinningTurnsAre DEF Position
<1>2. TacticalStatus(b) = IF threats = {} THEN Quiet
                          ELSE IF cells = {} /\ pairs = {} THEN Status("unblockable", {}, {}, {})
                          ELSE Status("block", {}, cells, pairs)
  <2> HIDE DEF threats, cells, pairs, winning
  <2>1. TacticalStatus(b) = IF Over(b) THEN Quiet
                            ELSE IF winning # {} THEN Status("winning", winning, {}, {})
                            ELSE IF threats = {} THEN Quiet
                            ELSE IF cells = {} /\ pairs = {} THEN Status("unblockable", {}, {}, {})
                            ELSE Status("block", {}, cells, pairs)
    BY Zenon DEF TacticalStatus, winning, threats, cells, pairs
  <2> QED
    BY <1>1, <2>1
<1> HIDE DEF threats, cells, pairs, winning
<1>3. CASE threats = {}
  BY <1>2, <1>3 DEF Quiet, Status, threats, cells, pairs
<1>4. CASE threats # {} /\ cells = {} /\ pairs = {}
  <2>1. TacticalStatus(b) = Status("unblockable", {}, {}, {})
    BY <1>2, <1>4
  <2> QED
    BY <1>4, <2>1 DEF Status, threats, cells, pairs
<1>5. CASE threats # {} /\ ~(cells = {} /\ pairs = {})
  <2>1. TacticalStatus(b) = Status("block", {}, cells, pairs)
    BY <1>2, <1>5
  <2> QED
    BY <1>5, <2>1 DEF Status, threats, cells, pairs
<1> QED
  BY <1>3, <1>4, <1>5

LEMMA TurnIsMet ==
    ASSUME NEW b, Position(b), TacticalStatus(b).kind # "winning",
           NEW t, t \subseteq Cells, IsFiniteSet(t), t \cap DOMAIN b.stones = {},
           Cardinality(t) = b.remaining
    PROVE  CouldWin(WithTurn(b.stones, t, b.player), 1 - b.player)
             <=> TacticalStatus(b).kind = "unblockable" \/ ~Satisfies(TacticalStatus(b), t)
<1> DEFINE status == TacticalStatus(b)
           threats == ThreatWindows(b.stones, 1 - b.player)
           cells == BlockCells(threats)
           pairs == BlockPairs(threats, b.remaining)
           left == CouldWin(WithTurn(b.stones, t, b.player), 1 - b.player)
<1>1. left <=> \E e \in threats : e \cap t = {}
  BY TurnLeavesWin
<1>2. b.remaining \in 1 .. 2
  BY DEF Position
<1>3. threats # {} =>
        ((\A e \in threats : e \cap t # {}) <=> t \cap cells # {} \/ t \in pairs)
  <2> HIDE DEF threats
  <2> QED
    BY <1>2, MeetsAll
<1>4. /\ threats = {} <=> status.kind = "quiet"
      /\ status.kind = "unblockable" => cells = {} /\ pairs = {}
      /\ status.kind = "block" => status.cells = cells /\ status.pairs = pairs
      /\ status.kind \in {"quiet", "unblockable", "block"}
  BY StatusIs
<1> HIDE DEF threats, cells, pairs, left, status
<1>5. CASE status.kind = "quiet"
  <2>1. Satisfies(status, t) /\ status.kind # "unblockable"
    BY <1>5 DEF Satisfies
  <2>2. ~left
    BY <1>1, <1>4, <1>5
  <2> QED
    BY <2>1, <2>2 DEF left, status
<1>6. CASE status.kind = "unblockable"
  <2>1. left
    BY <1>1, <1>3, <1>4, <1>6
  <2> QED
    BY <1>6, <2>1 DEF left, status
<1>7. CASE status.kind = "block"
  <2>1. Satisfies(status, t) <=> t \cap cells # {} \/ t \in pairs
    BY <1>4, <1>7 DEF Satisfies
  <2>2. status.kind # "unblockable"
    BY <1>7
  <2>3. left <=> ~(t \cap cells # {} \/ t \in pairs)
    BY <1>1, <1>3, <1>4, <1>7
  <2> QED
    BY <2>1, <2>2, <2>3 DEF left, status
<1> QED
  BY <1>4, <1>5, <1>6, <1>7

LEMMA BlocksAreExact == Position(board) /\ InPlay(board) => BlockingExact
<1> SUFFICES ASSUME Position(board), TacticalStatus(board).kind # "winning",
                    NEW t \in TurnsOf(board, board.remaining)
             PROVE  CouldWin(WithTurn(board.stones, t, board.player), 1 - board.player)
                      <=> \/ TacticalStatus(board).kind = "unblockable"
                          \/ ~Satisfies(TacticalStatus(board), t)
  BY DEF BlockingExact
<1>1. StonesOK(board.stones) /\ board.remaining \in 1 .. 2
  BY DEF Position
<1>2. /\ t \subseteq Cells /\ IsFiniteSet(t) /\ t \cap DOMAIN board.stones = {}
      /\ Cardinality(t) \in board.remaining .. board.remaining
  BY <1>1, TurnsAre
<1>3. Cardinality(t) = board.remaining
  BY <1>1, <1>2
<1> QED
  BY <1>2, <1>3, TurnIsMet

LEMMA DistanceAlong ==
    ASSUME NEW cell \in Cells, NEW dir \in DOMAIN Directions, NEW m \in Int, NEW n \in Int
    PROVE  HexDistance(Along(cell, Directions[dir], m), Along(cell, Directions[dir], n))
             = Magnitude(m - n)
<1>1. PICK q \in Int, r \in Int : cell = <<q, r>>
  BY DEF Cells
<1>2. PICK k \in Int : k = m - n
  OBVIOUS
<1>3. (Magnitude(k) + Magnitude(k)) \div 2 = Magnitude(k) /\ Magnitude(0) = 0
  BY DEF Magnitude
<1> DEFINE d == Directions[dir]
           a == Along(cell, d, m)
           b == Along(cell, d, n)
<1>4. /\ a[1] = q + m * d[1] /\ a[2] = r + m * d[2]
      /\ b[1] = q + n * d[1] /\ b[2] = r + n * d[2]
  BY <1>1 DEF Along
<1>5. \/ d[1] = 1 /\ d[2] = 0
      \/ d[1] = 0 /\ d[2] = 1
      \/ d[1] = 1 /\ d[2] = -1
  BY DirectionsAre
<1> HIDE DEF a, b, d
<1>6. HexDistance(a, b) = (Magnitude(a[1] - b[1]) + Magnitude(a[2] - b[2])
                             + Magnitude((a[1] - b[1]) + (a[2] - b[2]))) \div 2
  BY DEF HexDistance
<1>7. HexDistance(a, b) = Magnitude(k)
  <2>1. Magnitude(-k) = Magnitude(k) /\ Magnitude(k) \in Int
    BY DEF Magnitude
  <2>2. CASE d[1] = 1 /\ d[2] = 0
    <3>1. a[1] - b[1] = k /\ a[2] - b[2] = 0 /\ k + 0 = k
      BY <1>2, <1>4, <2>2
    <3> QED
      BY <1>3, <1>6, <2>1, <3>1
  <2>3. CASE d[1] = 0 /\ d[2] = 1
    <3>1. a[1] - b[1] = 0 /\ a[2] - b[2] = k /\ 0 + k = k
      BY <1>2, <1>4, <2>3
    <3> QED
      BY <1>3, <1>6, <2>1, <3>1
  <2>4. CASE d[1] = 1 /\ d[2] = -1
    <3>1. a[1] - b[1] = k /\ a[2] - b[2] = -k /\ k + (-k) = 0
      BY <1>2, <1>4, <2>4
    <3> QED
      BY <1>3, <1>6, <2>1, <3>1
  <2> QED
    BY <1>5, <2>2, <2>3, <2>4
<1> QED
  BY <1>2, <1>7 DEF a, b, d

(* A cell that a window lacks, of two at most, is at most two steps from one *)
(* of its stones.                                                            *)
LEMMA MissingIsNear ==
    ASSUME NEW stones, NEW w \in Windows, Cardinality(Missing(stones, w)) <= 2,
           NEW c \in Missing(stones, w)
    PROVE  \E s \in DOMAIN stones : HexDistance(s, c) <= 2
<1>1. PICK k \in Offsets : c = CellAt(w, k)
  BY DEF Missing, WindowCells
<1>2. Offsets = 0 .. WinLength - 1 /\ WinLength \in Nat /\ WinLength >= 4
  BY WinLengthOK DEF Offsets
<1>3. \E x, y \in Offsets : /\ x # k /\ y # k /\ x # y
                            /\ Magnitude(x - k) <= 2 /\ Magnitude(y - k) <= 2
  <2>1. CASE k < 2
    <3>1. k + 1 \in Offsets /\ k + 2 \in Offsets /\ k + 1 # k /\ k + 2 # k /\ k + 1 # k + 2
      BY <1>2, <2>1
    <3>2. Magnitude((k + 1) - k) <= 2 /\ Magnitude((k + 2) - k) <= 2
      BY <1>2 DEF Magnitude
    <3> QED
      BY <3>1, <3>2
  <2>2. CASE k >= 2
    <3>1. k - 1 \in Offsets /\ k - 2 \in Offsets /\ k - 1 # k /\ k - 2 # k /\ k - 1 # k - 2
      BY <1>2, <2>2
    <3>2. Magnitude((k - 1) - k) <= 2 /\ Magnitude((k - 2) - k) <= 2
      BY <1>2 DEF Magnitude
    <3> QED
      BY <3>1, <3>2
  <2> QED
    BY <1>2, <2>1, <2>2
<1>4. PICK x \in Offsets, y \in Offsets : /\ x # k /\ y # k /\ x # y
                                          /\ Magnitude(x - k) <= 2 /\ Magnitude(y - k) <= 2
  BY <1>3
<1>5. CellAt(w, x) # c /\ CellAt(w, y) # c /\ CellAt(w, x) # CellAt(w, y)
  BY <1>1, <1>4, CellsOfWindow
<1>6. CellAt(w, x) \in DOMAIN stones \/ CellAt(w, y) \in DOMAIN stones
  <2> SUFFICES ASSUME CellAt(w, x) \in Missing(stones, w), CellAt(w, y) \in Missing(stones, w)
               PROVE  FALSE
    BY DEF Missing, WindowCells
  <2> DEFINE M == Missing(stones, w)
  <2>1. IsFiniteSet(M) /\ Cardinality(M) <= 2
    BY TakenAndMissing
  <2> HIDE DEF M
  <2>2. Cardinality(M) \in 0 .. 2
    BY <2>1, OneOrTwo
  <2>3. CASE Cardinality(M) = 0
    BY <2>1, <2>3, OneOrTwo DEF M
  <2>4. CASE Cardinality(M) = 1
    <3>1. \E a : M = {a}
      BY <2>1, <2>4, OneOrTwo
    <3> QED
      BY <1>5, <3>1 DEF M
  <2>5. CASE Cardinality(M) = 2
    <3>1. \E a, b : a # b /\ M = {a, b}
      BY <2>1, <2>5, OneOrTwo
    <3> QED
      BY <1>5, <3>1 DEF M
  <2> QED
    BY <2>2, <2>3, <2>4, <2>5
<1>7. \A off \in Offsets : HexDistance(CellAt(w, off), CellAt(w, k)) = Magnitude(off - k)
  <2>1. w[1] \in Cells /\ w[2] \in DOMAIN Directions /\ Offsets \subseteq Int
    BY <1>2 DEF Windows
  <2> QED
    BY <2>1, DistanceAlong DEF CellAt
<1> QED
  BY <1>1, <1>4, <1>6, <1>7

LEMMA ThreatsAreNear ==
    ASSUME NEW stones, StonesOK(stones), NEW p, NEW e \in ThreatWindows(stones, p), NEW c \in e
    PROVE  c \in Cells /\ c \notin DOMAIN stones /\ \E s \in DOMAIN stones : HexDistance(s, c) <= 2
<1>1. PICK w \in Windows : Cardinality(Missing(stones, w)) \in 1 .. 2 /\ e = Missing(stones, w)
  BY ThreatWindowsAre
<1>2. Cardinality(Missing(stones, w)) <= 2
  BY <1>1
<1> QED
  BY <1>1, <1>2, MissingIsNear, ThreatShape

(* What a window lacks can be played on. *)
LEMMA ThreatsAreValid ==
    ASSUME NEW b, Position(b), BoardInv(b), NEW p, NEW c \in UNION ThreatWindows(b.stones, p)
    PROVE  Valid(b, c)
<1>1. StonesOK(b.stones) /\ ~Over(b) /\ b.remaining # 0
  BY DEF Position
<1>2. PICK s \in DOMAIN b.stones : HexDistance(s, c) <= 2
  BY <1>1, ThreatsAreNear
<1>3. c \in Cells /\ c \notin DOMAIN b.stones
  BY <1>1, ThreatsAreNear
<1>4. s \in NearStones(c, b.stones, PlacementRadius)
  <2>1. HexDistance(s, c) \in Int
    BY <1>1, <1>3 DEF StonesOK, HexDistance, Magnitude, Cells
  <2> QED
    BY <1>2, <2>1, RadiiOK, ReachOK DEF NearStones
<1>5. c \in DOMAIN b.placement
  BY <1>1, <1>3, <1>4, RecomputeDomain, RadiiOK DEF BoardInv, CachesMatchStones
<1> QED
  BY <1>1, <1>2, <1>3, <1>5 DEF Valid

LEMMA TwoOf ==
    ASSUME NEW cells, NEW t \in Pairs(cells)
    PROVE  t \subseteq cells /\ IsFiniteSet(t) /\ Cardinality(t) = 2
<1>1. PICK c \in cells, d \in cells : t = {c, d}
  BY DEF Pairs
<1>2. c # d
  BY <1>1 DEF Pairs
<1> QED
  BY <1>1, <1>2, PairSize

LEMMA PairsOf ==
    ASSUME NEW cells, NEW c \in cells, NEW d \in cells, c # d
    PROVE  {c, d} \in Pairs(cells)
  BY DEF Pairs

LEMMA TurnsWin ==
    ASSUME Position(board), BoardInv(board), TacticalStatus(board).kind = "winning"
    PROVE  TurnsAreTactical(TacticalStatus(board), ThreatTurns(board, TacticalStatus(board)))
<1> DEFINE status == TacticalStatus(board)
           turns == ThreatTurns(board, status)
<1>1. turns = status.turns
  BY DEF ThreatTurns
<1>2. status.turns = WinningTurns(ThreatWindows(board.stones, board.player), board.remaining)
      /\ status.turns # {}
  BY WinningTurnsAre
<1>3. \A t \in status.turns : Cardinality(t) \in 1 .. board.remaining
  BY WinsAreExact
<1>4. ASSUME NEW t \in status.turns, NEW c \in t
      PROVE  Valid(board, c)
  BY <1>2, <1>4, ThreatsAreValid DEF WinningTurns
<1>5. \A t \in status.turns : Satisfies(status, t)
  BY DEF Satisfies
<1> HIDE DEF turns, status
<1>6. status.kind = "winning"
  BY DEF status
<1>7. TurnsAreTactical(status, turns)
  BY <1>1, <1>2, <1>3, <1>4, <1>5, <1>6 DEF TurnsAreTactical
<1> QED
  BY <1>7 DEF turns, status

LEMMA QuietTurns ==
    ASSUME Position(board), BoardInv(board), TacticalStatus(board).kind = "quiet"
    PROVE  TurnsAreTactical(TacticalStatus(board), ThreatTurns(board, TacticalStatus(board)))
<1> DEFINE status == TacticalStatus(board)
           turns == ThreatTurns(board, status)
           theirs == LiveCells(board, 1 - board.player)
           ours == LiveCells(board, board.player)
<1>1. /\ status.kind = "quiet" /\ theirs = {}
      /\ WinningTurns(ThreatWindows(board.stones, board.player), board.remaining) = {}
  <2>1. TacticalStatus(board).kind # "winning"
    OBVIOUS
  <2>2. ThreatWindows(board.stones, 1 - board.player) = {}
    BY <2>1, StatusIs
  <2>3. theirs = {}
    BY <2>2 DEF LiveCells
  <2> QED
    BY <2>1, <2>3, WinningTurnsAre
<1>2. board.remaining \in 1 .. 2 /\ StonesOK(board.stones)
  BY DEF Position
<1>3. \A t : Satisfies(status, t)
  BY <1>1 DEF Satisfies
<1>4. CASE board.remaining = 1
  <2>1. turns = {{c} : c \in IF theirs # {} THEN theirs ELSE ours}
    BY <1>1, <1>4 DEF ThreatTurns
  <2>2. ASSUME NEW t \in turns
        PROVE  Cardinality(t) = 1 /\ \A c \in t : Valid(board, c)
    <3>1. PICK c \in ours : t = {c}
      BY <1>1, <2>1, <2>2
    <3>2. Valid(board, c)
      BY <3>1, ThreatsAreValid DEF LiveCells
    <3> QED
      BY <3>1, <3>2, FS_Singleton
  <2> HIDE DEF turns, status
  <2>3. TurnsAreTactical(status, turns)
    BY <1>1, <1>3, <1>4, <2>2 DEF TurnsAreTactical
  <2> QED
    BY <2>3 DEF turns, status
<1>5. CASE board.remaining = 2
  <2>1. turns = Pairs(theirs \cup ours)
    BY <1>1, <1>5 DEF ThreatTurns
  <2>2. ThreatWindows(board.stones, board.player) = {}
    <3> SUFFICES ASSUME NEW e \in ThreatWindows(board.stones, board.player) PROVE FALSE
      OBVIOUS
    <3>1. Cardinality(e) <= board.remaining
      BY <1>2, <1>5, ThreatShape
    <3> QED
      BY <1>1, <3>1 DEF WinningTurns
  <2>3. ours = {}
    BY <2>2 DEF LiveCells
  <2>4. turns = {}
    BY <1>1, <2>1, <2>3 DEF Pairs
  <2> HIDE DEF turns, status
  <2>5. TurnsAreTactical(status, turns)
    BY <1>1, <2>4 DEF TurnsAreTactical
  <2> QED
    BY <2>5 DEF turns, status
<1> QED
  BY <1>2, <1>4, <1>5

LEMMA BlockTurns ==
    ASSUME Position(board), BoardInv(board), TacticalStatus(board).kind = "block"
    PROVE  TurnsAreTactical(TacticalStatus(board), ThreatTurns(board, TacticalStatus(board)))
<1> DEFINE status == TacticalStatus(board)
           turns == ThreatTurns(board, status)
           threats == ThreatWindows(board.stones, 1 - board.player)
           cells == status.cells
           pairs == status.pairs
           mask == MaskCells(status)
<1>1. /\ status.kind = "block" /\ status.turns = {} /\ ~(cells = {} /\ pairs = {})
      /\ cells = BlockCells(threats) /\ pairs = BlockPairs(threats, board.remaining)
  <2>1. TacticalStatus(board).kind # "winning"
    OBVIOUS
  <2> QED
    BY <2>1, StatusIs
<1>2. board.remaining \in 1 .. 2 /\ StonesOK(board.stones)
  BY DEF Position
<1>3. mask = cells \cup UNION pairs
  BY <1>1 DEF MaskCells
<1>4. \A t \in pairs : t \subseteq UNION threats /\ IsFiniteSet(t) /\ Cardinality(t) = 2
                         /\ board.remaining # 1
  <2>1. SUFFICES ASSUME NEW t \in pairs
                 PROVE  t \subseteq UNION threats /\ IsFiniteSet(t) /\ Cardinality(t) = 2
                          /\ board.remaining # 1
    OBVIOUS
  <2>2. ~(board.remaining <= 1)
    BY <1>1, <2>1 DEF BlockPairs
  <2>3. t \in {{c, d} : c \in UNION threats, d \in UNION threats} /\ Cardinality(t) = 2
    BY <1>1, <2>1, <2>2 DEF BlockPairs
  <2>4. PICK c \in UNION threats, d \in UNION threats : t = {c, d}
    BY <2>3
  <2>5. t \subseteq UNION threats
    BY <2>4
  <2>6. IsFiniteSet(t)
    BY <2>4, PairSize, Zenon
  <2> QED
    BY <1>2, <2>2, <2>3, <2>5, <2>6
<1>5. cells \subseteq UNION threats
  BY <1>1 DEF BlockCells
<1>6. \A c \in mask : Valid(board, c)
  <2>1. mask \subseteq UNION threats
    BY <1>3, <1>4, <1>5
  <2> QED
    BY <2>1, ThreatsAreValid
<1>7. \A t : Satisfies(status, t) <=> t \cap cells # {} \/ t \in pairs
  BY <1>1 DEF Satisfies
<1>8. CASE board.remaining = 1
  <2>1. turns = {{c} : c \in cells}
    BY <1>1, <1>8 DEF ThreatTurns
  <2>2. pairs = {} /\ cells # {}
    BY <1>1, <1>4, <1>8
  <2>3. ASSUME NEW t \in turns
        PROVE  /\ Satisfies(status, t) /\ Cardinality(t) = 1
               /\ \A c \in t : Valid(board, c)
    <3>1. PICK c \in cells : t = {c}
      BY <2>1, <2>3
    <3>2. Satisfies(status, t)
      BY <1>7, <3>1
    <3>3. Valid(board, c)
      BY <1>3, <1>6, <3>1
    <3> QED
      BY <3>1, <3>2, <3>3, FS_Singleton
  <2>4. turns # {}
    BY <2>1, <2>2
  <2> HIDE DEF turns, status
  <2>5. TurnsAreTactical(status, turns)
    BY <1>1, <1>8, <2>3, <2>4 DEF TurnsAreTactical
  <2> QED
    BY <2>5 DEF turns, status
<1>9. CASE board.remaining = 2
  <2>1. turns = pairs \cup {t \in Pairs(mask) : t \cap cells # {}}
    BY <1>1, <1>9 DEF ThreatTurns
  <2>2. ASSUME NEW t \in turns
        PROVE  /\ Satisfies(status, t) /\ Cardinality(t) = 2
               /\ \A c \in t : Valid(board, c)
    <3>1. CASE t \in pairs
      BY <1>3, <1>4, <1>6, <1>7, <3>1
    <3>2. CASE t \in Pairs(mask) /\ t \cap cells # {}
      <4>1. t \subseteq mask /\ Cardinality(t) = 2
        BY <3>2, TwoOf
      <4> QED
        BY <1>6, <1>7, <3>2, <4>1
    <3> QED
      BY <2>1, <2>2, <3>1, <3>2
  <2>3. ASSUME turns = {}
        PROVE  \E c \in mask : mask = {c}
    <3>1. pairs = {}
      BY <2>1, <2>3
    <3>2. PICK c \in cells : TRUE
      BY <1>1, <3>1
    <3>3. c \in mask
      BY <1>3
    <3>4. ASSUME NEW d \in mask, d # c
          PROVE  FALSE
      <4>1. {c, d} \in Pairs(mask)
        BY <3>3, <3>4, PairsOf
      <4>2. {c, d} \in turns
        BY <2>1, <3>2, <4>1
      <4> QED
        BY <2>3, <4>2
    <3> QED
      BY <3>3, <3>4
  <2>4. ASSUME NEW c \in mask, mask = {c}
        PROVE  turns = {}
    <3> SUFFICES ASSUME NEW t \in turns PROVE FALSE
      OBVIOUS
    <3>1. t \subseteq mask /\ IsFiniteSet(t) /\ Cardinality(t) = 2
      <4>1. CASE t \in pairs
        BY <1>3, <1>4, <4>1
      <4>2. CASE t \in Pairs(mask)
        BY <4>2, TwoOf
      <4> QED
        BY <2>1, <4>1, <4>2
    <3>2. PICK x, y : x # y /\ t = {x, y}
      BY <3>1, OneOrTwo
    <3> QED
      BY <2>4, <3>1, <3>2
  <2> HIDE DEF turns, status, mask
  <2>5. TurnsAreTactical(status, turns)
    <3>1. turns = {} <=> board.remaining = 2 /\ \E c \in mask : mask = {c}
      BY <1>9, <2>3, <2>4
    <3>2. \A t \in turns : /\ Satisfies(status, t) /\ Cardinality(t) \in 1 .. board.remaining
                           /\ \A c \in t : Valid(board, c)
      BY <1>9, <2>2
    <3> QED
      BY <1>1, <3>1, <3>2 DEF TurnsAreTactical, mask
  <2> QED
    BY <2>5 DEF turns, status
<1> QED
  BY <1>2, <1>8, <1>9

LEMMA QuiescenceTurns ==
    ASSUME Position(board), BoardInv(board)
    PROVE  QuiescenceIsTactical
<1> DEFINE status == TacticalStatus(board)
<1>1. status.kind \in {"winning", "quiet", "unblockable", "block"}
  BY StatusIs
<1>2. ASSUME status.kind = "unblockable"
      PROVE  TurnsAreTactical(status, ThreatTurns(board, status))
  <2>1. ThreatTurns(board, status) = {}
    BY <1>2 DEF ThreatTurns
  <2> HIDE DEF status
  <2> QED
    BY <1>2, <2>1 DEF TurnsAreTactical
<1>3. TurnsAreTactical(status, ThreatTurns(board, status))
  BY <1>1, <1>2, TurnsWin, QuietTurns, BlockTurns
<1> QED
  BY <1>3 DEF QuiescenceIsTactical

(* A player who cannot win now meets every threat exactly with the turns the *)
(* status allows, and the quiescence search looks at such turns only.        *)
THEOREM DefencesExactHolds == Spec => []DefencesExact
<1>1. RulesInv => DefencesExact
  <2> SUFFICES ASSUME RulesInv PROVE DefencesExact
    OBVIOUS
  <2>1. CASE InPlay(board)
    <3>1. Position(board) /\ BoardInv(board)
      BY <2>1, InPlayIs DEF RulesInv, CacheInv
    <3> QED
      BY <2>1, <3>1, BlocksAreExact, QuiescenceTurns DEF DefencesExact
  <2>2. CASE ~InPlay(board)
    BY <2>2 DEF DefencesExact, BlockingExact, QuiescenceIsTactical
  <2> QED
    BY <2>1, <2>2
<1> QED
  BY <1>1, RulesInvInit, RulesInvStep, PTL DEF Spec

-----------------------------------------------------------------------------
(* What the index of a window says, and with it the hot windows. *)
(* What a place of the index says of the cell: nothing, or whose stone it    *)
(* is.                                                                       *)
LEMMA DigitOfCell ==
    ASSUME NEW stones, StonesOK(stones), NEW w \in GridWindows, NEW off \in Offsets,
           NEW p \in Players
    PROVE  (IndexOf(stones, w) \div Pow3[off]) % 3 = p + 1
             <=> Owns(stones, CellAt(w, off), p)
<1> DEFINE f == Digits(stones, w)
           A == Taken(stones, w)
           c == CellAt(w, off)
           digit == (IndexOf(stones, w) \div Pow3[off]) % 3
<1>1. IndexOf(stones, w) = Total(f, A)
  BY IndexIsTotal
<1>2. A \in SUBSET Offsets /\ \A x \in A : f[x] = Pow3[x] \/ f[x] = 2 * Pow3[x]
  BY DigitsAre
<1>3. off \in A <=> c \in DOMAIN stones
  BY DEF Taken
<1>4. f[off] = (stones[c] + 1) * Pow3[off]
  BY DEF Digits
<1>5. c \in DOMAIN stones => stones[c] \in 0 .. 1
  BY DEF StonesOK, Players
<1> HIDE DEF f, A, c
<1>6. CASE c \in DOMAIN stones
  <2> DEFINE d == stones[c] + 1
  <2>1. d \in 0 .. 2 /\ f[off] = d * Pow3[off]
    BY <1>4, <1>5, <1>6
  <2> HIDE DEF d
  <2>2. (Total(f, A) \div Pow3[off]) % 3 = d
    BY <1>2, <1>3, <1>6, <2>1, DigitOfTotal
  <2>3. digit = d
    BY <1>1, <2>2
  <2>4. d = p + 1 <=> stones[c] = p
    BY <1>5, <1>6 DEF d, Players
  <2> QED
    BY <1>6, <2>3, <2>4 DEF Owns, c
<1>7. CASE c \notin DOMAIN stones
  <2>1. (Total(f, A) \div Pow3[off]) % 3 = 0
    <3>1. off \notin A /\ 0 \in 0 .. 2
      BY <1>3, <1>7
    <3> QED
      BY <1>2, <3>1, DigitOfTotal
  <2>2. digit = 0
    BY <1>1, <2>1
  <2>3. p + 1 # 0
    BY DEF Players
  <2> QED
    BY <1>7, <2>2, <2>3 DEF Owns, c
<1> QED
  BY <1>6, <1>7

(* PATTERN_COUNTS counts the stones of each player. *)
LEMMA PatternCountsAre ==
    ASSUME NEW stones, StonesOK(stones), NEW w \in GridWindows, NEW p \in Players
    PROVE  LET own == {off \in Offsets : Owns(stones, CellAt(w, off), p)}
           IN  PatternCounts[IndexOf(stones, w)][p] = Cardinality(own)
<1> DEFINE idx == IndexOf(stones, w)
<1>1. idx \in Patterns
  BY IndexIsPattern
<1>2. {off \in Offsets : (idx \div Pow3[off]) % 3 = p + 1}
        = {off \in Offsets : Owns(stones, CellAt(w, off), p)}
  BY DigitOfCell
<1> HIDE DEF idx
<1>3. PatternCounts[idx][p] = Cardinality({off \in Offsets : (idx \div Pow3[off]) % 3 = p + 1})
  BY <1>1 DEF PatternCounts
<1> QED
  BY <1>2, <1>3 DEF idx

LEMMA GridIsPartOfPlane == GridWindows \subseteq Windows
  BY GridOK DEF GridWindows, Windows, Cells

(* A window is hot exactly when it has stones of one player only and lacks   *)
(* two cells at most.                                                        *)
LEMMA HotIs ==
    ASSUME NEW stones, StonesOK(stones), NEW w \in GridWindows, NEW p \in Players
    PROVE  IsHot(IndexOf(stones, w), p)
             <=> OnlyOf(stones, w, p) /\ Cardinality(Missing(stones, w)) <= 2
<1> DEFINE idx == IndexOf(stones, w)
           own(x) == {off \in Offsets : Owns(stones, CellAt(w, off), x)}
           taken == {off \in Offsets : CellAt(w, off) \in DOMAIN stones}
           mine == Cardinality(own(p))
           other == Cardinality(own(1 - p))
<1>1. w \in Windows /\ 1 - p \in Players /\ 1 - p # p /\ \A x \in Players : x = p \/ x = 1 - p
  BY GridIsPartOfPlane DEF Players
<1>2. IsFiniteSet(Offsets)
  BY WinLengthOK, FS_Interval DEF Offsets
<1>3. PatternCounts[idx][p] = mine /\ PatternCounts[idx][1 - p] = other
  BY <1>1, PatternCountsAre
<1>4. other \in Nat /\ mine \in Nat /\ (other = 0 <=> own(1 - p) = {})
  <2>1. own(1 - p) \in SUBSET Offsets /\ own(p) \in SUBSET Offsets
    OBVIOUS
  <2> HIDE DEF own
  <2> QED
    BY <1>2, <2>1, FS_Subset, FS_CardinalityType, FS_EmptySet
<1>5. own(1 - p) = {} <=> OnlyOf(stones, w, p)
  <2>1. ASSUME own(1 - p) = {}, NEW c \in WindowCells(w) \cap DOMAIN stones
        PROVE  stones[c] = p
    <3>1. PICK off \in Offsets : c = CellAt(w, off)
      BY DEF WindowCells
    <3>2. stones[c] # 1 - p
      BY <2>1, <3>1 DEF Owns
    <3> QED
      BY <1>1, <3>2 DEF StonesOK
  <2>2. ASSUME OnlyOf(stones, w, p)
        PROVE  own(1 - p) = {}
    BY <1>1, <2>2 DEF OnlyOf, Owns, WindowCells
  <2> QED
    BY <2>1, <2>2 DEF OnlyOf
<1>6. ASSUME OnlyOf(stones, w, p)
      PROVE  mine + Cardinality(Missing(stones, w)) = WinLength
  <2>1. own(p) = taken
    BY <1>6 DEF OnlyOf, Owns, WindowCells
  <2>2. {CellAt(w, off) : off \in taken} = WindowCells(w) \cap DOMAIN stones
    BY DEF WindowCells
  <2>3. taken \in SUBSET Offsets
    OBVIOUS
  <2> HIDE DEF taken
  <2>4. Cardinality(WindowCells(w) \cap DOMAIN stones) = Cardinality(taken)
    BY <1>1, <2>2, <2>3, CellsAtOffsets
  <2> QED
    BY <1>1, <2>1, <2>4, TakenAndMissing
<1>7. IsHot(idx, p) <=> other = 0 /\ mine >= WinLength - 2
  <2>1. idx \in Patterns
    BY IndexIsPattern
  <2> HIDE DEF idx, own
  <2>2. ThreatOf[idx][p] = IF other > 0 THEN "none"
                           ELSE CASE mine >= WinLength - 1 -> "fives"
                                  [] mine = WinLength - 2  -> "fours"
                                  [] mine = WinLength - 3  -> "threes"
                                  [] OTHER                 -> "none"
    BY <1>3, <2>1 DEF ThreatOf
  <2>3. WinLength \in Nat
    BY WinLengthOK
  <2> HIDE DEF mine, other
  <2>4. CASE other > 0
    <3>1. ThreatOf[idx][p] = "none"
      BY <2>2, <2>4
    <3> QED
      BY <1>4, <2>4, <3>1 DEF IsHot
  <2>5. CASE ~(other > 0) /\ mine >= WinLength - 1
    <3>1. ThreatOf[idx][p] = "fives"
      BY <1>4, <2>2, <2>3, <2>5
    <3> QED
      BY <1>4, <2>3, <2>5, <3>1 DEF IsHot
  <2>6. CASE ~(other > 0) /\ mine = WinLength - 2
    <3>1. ThreatOf[idx][p] = "fours"
      BY <1>4, <2>2, <2>3, <2>6
    <3> QED
      BY <1>4, <2>3, <2>6, <3>1 DEF IsHot
  <2>7. CASE ~(other > 0) /\ mine < WinLength - 2
    <3>1. ThreatOf[idx][p] = "threes" \/ ThreatOf[idx][p] = "none"
      BY <1>4, <2>2, <2>3, <2>7
    <3> QED
      BY <1>4, <2>3, <2>7, <3>1 DEF IsHot
  <2> QED
    BY <1>4, <2>3, <2>4, <2>5, <2>6, <2>7
<1> HIDE DEF own
<1>8. OnlyOf(stones, w, p) => (mine >= WinLength - 2 <=> Cardinality(Missing(stones, w)) <= 2)
  <2> DEFINE less == Cardinality(Missing(stones, w))
  <2>1. less \in Nat
    BY <1>1, TakenAndMissing
  <2>2. OnlyOf(stones, w, p) => mine + less = WinLength
    BY <1>6
  <2> HIDE DEF mine, less
  <2>3. OnlyOf(stones, w, p) => (mine >= WinLength - 2 <=> less <= 2)
    BY <1>4, <2>1, <2>2, WinLengthOK
  <2> QED
    BY <2>3 DEF less
<1> QED
  BY <1>4, <1>5, <1>7, <1>8 DEF idx

-----------------------------------------------------------------------------
(* What the scanner finds with runs and lists of moves. *)
(* The runs on both sides of a cell, whatever is on the cell.                *)
LEMMA RunsBeside ==
    ASSUME NEW stones, StonesOK(stones), NEW c \in Cells, NEW p, NEW dir \in DOMAIN Directions
    PROVE  LET d == Directions[dir]
               behind == RunLength(stones, c, <<-d[1], -d[2]>>, p)
               ahead == RunLength(stones, c, d, p)
               own(k) == Owns(stones, Along(c, d, k), p)
           IN  /\ behind \in Nat /\ ahead \in Nat
               /\ \A k \in -behind .. ahead : k # 0 => own(k)
               /\ ~own(ahead + 1) /\ ~own(-(behind + 1))
<1> DEFINE d == Directions[dir]
           rev == <<-d[1], -d[2]>>
           behind == RunLength(stones, c, rev, p)
           ahead == RunLength(stones, c, d, p)
           own(k) == Owns(stones, Along(c, d, k), p)
<1>1. \A m, n \in Int : Along(c, d, m) = Along(c, d, n) => m = n
  BY AlongIsOneToOne, Zenon
<1>2. \A n \in Int : Along(c, rev, n) = Along(c, d, -n)
  BY AlongBack, Zenon
<1>3. \A m, n \in Int : Along(c, rev, m) = Along(c, rev, n) => m = n
  <2> TAKE m, n \in Int
  <2>1. -m \in Int /\ -n \in Int /\ (-m = -n => m = n)
    OBVIOUS
  <2> QED
    BY <1>1, <1>2, <2>1, Zenon
<1>4. ahead \in Nat /\ (\A k \in 1 .. ahead : own(k)) /\ ~own(ahead + 1)
  BY <1>1, RunEnds, Zenon
<1>5. /\ behind \in Nat
      /\ \A k \in 1 .. behind : Owns(stones, Along(c, rev, k), p)
      /\ ~Owns(stones, Along(c, rev, behind + 1), p)
  BY <1>3, RunEnds, Zenon
<1> HIDE DEF ahead, behind, rev
<1>6. ~own(-(behind + 1))
  BY <1>2, <1>5
<1>7. ASSUME NEW k \in -behind .. ahead, k # 0
      PROVE  own(k)
  <2>1. CASE k \in 1 .. ahead
    BY <1>4, <2>1
  <2>2. CASE -k \in 1 .. behind
    <3>1. Along(c, rev, -k) = Along(c, d, -(-k)) /\ -(-k) = k
      BY <1>2, <1>7, <1>4, <1>5
    <3> QED
      BY <1>5, <2>2, <3>1
  <2> QED
    BY <1>4, <1>5, <1>7, <2>1, <2>2
<1> QED
  BY <1>4, <1>5, <1>6, <1>7 DEF ahead, behind, rev, d

(* The scanner counts runs: a cell would win when a window through it has    *)
(* the player's stones on all other cells.                                   *)
FillsWith(stones, p, c, w) ==
    c \in WindowCells(w) /\ \A x \in WindowCells(w) : x = c \/ Owns(stones, x, p)

LEMMA RunsMakeWindow ==
    ASSUME NEW stones, StonesOK(stones), NEW c \in Cells, NEW p, NEW dir \in DOMAIN Directions
    PROVE  LET d == Directions[dir]
           IN  RunLength(stones, c, d, p) + RunLength(stones, c, <<-d[1], -d[2]>>, p) + 1 >= WinLength
                 <=> \E w \in Windows : w[2] = dir /\ FillsWith(stones, p, c, w)
<1> DEFINE d == Directions[dir]
           behind == RunLength(stones, c, <<-d[1], -d[2]>>, p)
           ahead == RunLength(stones, c, d, p)
           own(k) == Owns(stones, Along(c, d, k), p)
<1>1. /\ behind \in Nat /\ ahead \in Nat
      /\ \A k \in -behind .. ahead : k # 0 => own(k)
      /\ ~own(ahead + 1) /\ ~own(-(behind + 1))
  BY RunsBeside
<1> HIDE DEF behind, ahead
<1>2. WinLength \in Nat /\ WinLength >= 4 /\ Offsets = 0 .. WinLength - 1
  BY WinLengthOK DEF Offsets
<1>3. \A n \in Int : Along(c, d, n) \in Cells /\ \A m \in Int : Along(Along(c, d, n), d, m) = Along(c, d, n + m)
  BY AlongAdds
<1>4. Along(c, d, 0) = c
  BY AlongBack
<1>5. \A m, n \in Int : Along(c, d, m) = Along(c, d, n) => m = n
  BY AlongIsOneToOne
<1>6. ASSUME ahead + behind + 1 >= WinLength
      PROVE  \E w \in Windows : w[2] = dir /\ FillsWith(stones, p, c, w)
  <2>1. \E start \in Int : /\ start <= 0 /\ 0 <= start + WinLength - 1
                           /\ -behind <= start /\ start + WinLength - 1 <= ahead
    <3>1. CASE behind >= WinLength - 1
      <4>1. /\ -(WinLength - 1) \in Int /\ -(WinLength - 1) <= 0
            /\ -(WinLength - 1) + WinLength - 1 = 0 /\ -behind <= -(WinLength - 1)
        BY <1>1, <1>2, <3>1
      <4> QED
        BY <1>1, <4>1
    <3>2. CASE behind < WinLength - 1
      <4>1. /\ -behind \in Int /\ -behind <= 0 /\ 0 <= -behind + WinLength - 1
            /\ -behind + WinLength - 1 <= ahead
        BY <1>1, <1>2, <1>6, <3>2
      <4> QED
        BY <4>1
    <3> QED
      BY <1>1, <1>2, <3>1, <3>2
  <2>2. PICK start \in Int : /\ start <= 0 /\ 0 <= start + WinLength - 1
                             /\ -behind <= start /\ start + WinLength - 1 <= ahead
    BY <2>1
  <2> DEFINE w == <<Along(c, d, start), dir>>
  <2>3. w \in Windows /\ w[2] = dir
    BY <1>3 DEF Windows
  <2>4. \A off \in Offsets : CellAt(w, off) = Along(c, d, start + off)
    BY <1>2, <1>3 DEF CellAt
  <2>5. c \in WindowCells(w)
    <3>1. -start \in Offsets /\ start + (-start) = 0
      BY <1>2, <2>2
    <3> QED
      BY <1>4, <2>4, <3>1 DEF WindowCells
  <2>6. ASSUME NEW off \in Offsets
        PROVE  CellAt(w, off) = c \/ Owns(stones, CellAt(w, off), p)
    <3>1. start + off \in -behind .. ahead
      BY <1>1, <1>2, <2>2
    <3> QED
      BY <1>1, <1>4, <2>4, <3>1
  <2> HIDE DEF w
  <2>7. FillsWith(stones, p, c, w)
    BY <2>5, <2>6 DEF FillsWith, WindowCells
  <2> QED
    BY <2>3, <2>7
<1>7. ASSUME NEW w \in Windows, w[2] = dir, FillsWith(stones, p, c, w)
      PROVE  ahead + behind + 1 >= WinLength
  <2>1. PICK o \in Offsets : c = CellAt(w, o)
    BY <1>7 DEF FillsWith, WindowCells
  <2>2. w[1] \in Cells
    BY <1>7 DEF Windows
  <2>3. ASSUME NEW off \in Offsets
        PROVE  CellAt(w, off) = Along(c, d, off - o)
    <3>1. o \in Int /\ off \in Int /\ off - o \in Int /\ o + (off - o) = off
      BY <1>2
    <3>2. Along(Along(w[1], d, o), d, off - o) = Along(w[1], d, o + (off - o))
      BY <2>2, <3>1, AlongAdds
    <3> QED
      BY <1>7, <2>1, <3>1, <3>2 DEF CellAt
  <2>4. ASSUME NEW k \in Int, k # 0, k + o \in Offsets
        PROVE  own(k)
    <3>1. (k + o) - o = k
      BY <1>2
    <3>2. CellAt(w, k + o) = Along(c, d, k)
      BY <2>3, <2>4, <3>1
    <3>3. Along(c, d, k) # c
      BY <1>4, <1>5, <2>4
    <3>4. CellAt(w, k + o) \in WindowCells(w)
      BY <2>4 DEF WindowCells
    <3> QED
      BY <1>7, <3>2, <3>3, <3>4 DEF FillsWith
  <2> HIDE DEF own
  <2>5. ahead >= WinLength - 1 - o
    <3> SUFFICES ASSUME ahead < WinLength - 1 - o PROVE FALSE
      BY <1>1, <1>2
    <3>1. ahead + 1 \in Int /\ ahead + 1 # 0 /\ (ahead + 1) + o \in Offsets
      BY <1>1, <1>2
    <3> QED
      BY <1>1, <2>4, <3>1
  <2>6. behind >= o
    <3> SUFFICES ASSUME behind < o PROVE FALSE
      BY <1>1, <1>2
    <3>1. -(behind + 1) \in Int /\ -(behind + 1) # 0 /\ -(behind + 1) + o \in Offsets
      BY <1>1, <1>2
    <3> QED
      BY <1>1, <2>4, <3>1
  <2> QED
    BY <1>1, <1>2, <2>5, <2>6
<1> QED
  BY <1>6, <1>7 DEF behind, ahead

LEMMA WouldWinIs ==
    ASSUME NEW stones, StonesOK(stones), NEW c \in Cells, NEW p
    PROVE  WouldWin(stones, p, c) <=> \E w \in Windows : FillsWith(stones, p, c, w)
<1>1. WouldWin(stones, p, c)
        <=> \E dir \in DOMAIN Directions, w \in Windows : w[2] = dir /\ FillsWith(stones, p, c, w)
  BY RunsMakeWindow, Zenon DEF WouldWin
<1>2. \A w \in Windows : w[2] \in DOMAIN Directions
  BY DEF Windows
<1> QED
  BY <1>1, <1>2

(* A cell would win exactly when it alone is a winning turn.                 *)
LEMMA WinningCells ==
    ASSUME NEW b, Position(b), NEW c \in Cells, c \notin DOMAIN b.stones
    PROVE  /\ WouldWin(b.stones, b.player, c)
                <=> {c} \in WinningTurns(ThreatWindows(b.stones, b.player), b.remaining)
           /\ WouldWin(b.stones, b.player, c)
                <=> HasLine(WithTurn(b.stones, {c}, b.player), b.player)
<1> DEFINE after == WithTurn(b.stones, {c}, b.player)
           winning == WinningTurns(ThreatWindows(b.stones, b.player), b.remaining)
<1>1. /\ StonesOK(b.stones) /\ b.player \in Players /\ b.remaining \in 1 .. 2
      /\ ~HasLine(b.stones, b.player)
  BY DEF Position, NoLine
<1>2. IsFiniteSet({c}) /\ Cardinality({c}) = 1 /\ {c} \subseteq Cells /\ {c} \cap DOMAIN b.stones = {}
  BY FS_Singleton
<1>3. Cardinality({c}) <= b.remaining
  BY <1>1, <1>2
<1>4. StonesOK(after)
  BY <1>1, <1>2, StonesWithTurn
<1>5. \A x : Owns(after, x, b.player) <=> x = c \/ Owns(b.stones, x, b.player)
  BY DEF WithTurn, Owns
<1>6. HasLine(after, b.player) <=> \E e \in winning : e \subseteq {c}
  BY <1>2, <1>3, TurnWins
<1>7. (\E e \in winning : e \subseteq {c}) <=> {c} \in winning
  <2>1. \A e \in winning : e # {}
    BY <1>1, ThreatShape DEF WinningTurns
  <2> QED
    BY <2>1
<1> HIDE DEF after, winning
<1>8. HasLine(after, b.player) <=> \E w \in Windows : FillsWith(b.stones, b.player, c, w)
  <2>1. ASSUME NEW w \in Windows, \A x \in WindowCells(w) : Owns(after, x, b.player)
        PROVE  FillsWith(b.stones, b.player, c, w)
    <3>1. \A x \in WindowCells(w) : x = c \/ Owns(b.stones, x, b.player)
      BY <1>5, <2>1
    <3>2. c \in WindowCells(w)
      <4> SUFFICES ASSUME c \notin WindowCells(w) PROVE FALSE
        OBVIOUS
      <4>1. \A x \in WindowCells(w) : Owns(b.stones, x, b.player)
        BY <3>1
      <4> QED
        BY <1>1, <4>1, HasLineIs
    <3> QED
      BY <3>1, <3>2 DEF FillsWith
  <2>2. ASSUME NEW w \in Windows, FillsWith(b.stones, b.player, c, w)
        PROVE  \A x \in WindowCells(w) : Owns(after, x, b.player)
    BY <1>5, <2>2 DEF FillsWith
  <2> QED
    BY <1>4, <2>1, <2>2, HasLineIs
<1>9. WouldWin(b.stones, b.player, c) <=> \E w \in Windows : FillsWith(b.stones, b.player, c, w)
  BY <1>1, WouldWinIs
<1> QED
  BY <1>6, <1>7, <1>8, <1>9 DEF after, winning

LEMMA LegalIs ==
    ASSUME NEW stones, StonesOK(stones), DOMAIN stones # {}, NEW c \in Cells
    PROVE  c \in LegalFromStones(stones, PlacementRadius)
             <=> /\ c \notin DOMAIN stones
                 /\ \E s \in DOMAIN stones : HexDistance(s, c) <= PlacementRadius
<1>1. PlacementRadius \in Nat
  BY RadiiOK
<1>2. \A s \in DOMAIN stones : c \in Ball(s, PlacementRadius) <=> HexDistance(s, c) <= PlacementRadius
  BY <1>1, BallIsNear DEF StonesOK
<1>3. c \in LegalFromStones(stones, PlacementRadius)
        <=> c \notin DOMAIN stones /\ \E s \in DOMAIN stones : c \in Ball(s, PlacementRadius)
  BY DEF LegalFromStones
<1> QED
  BY <1>2, <1>3

LEMMA LegalCells ==
    ASSUME NEW stones, StonesOK(stones)
    PROVE  LegalFromStones(stones, PlacementRadius) \subseteq Cells
<1>1. PlacementRadius \in Nat /\ Origin \in Cells
  BY RadiiOK DEF Origin, Cells
<1> QED
  BY <1>1, BallCells DEF LegalFromStones, StonesOK

(* What a window lacks is within reach. *)
LEMMA MissingIsLegal ==
    ASSUME NEW stones, StonesOK(stones), NEW w \in Windows, Cardinality(Missing(stones, w)) <= 2
    PROVE  Missing(stones, w) \subseteq LegalFromStones(stones, PlacementRadius)
<1> SUFFICES ASSUME NEW c \in Missing(stones, w)
             PROVE  c \in LegalFromStones(stones, PlacementRadius)
  OBVIOUS
<1>1. PICK s \in DOMAIN stones : HexDistance(s, c) <= 2
  BY MissingIsNear
<1>2. c \in Cells /\ c \notin DOMAIN stones
  BY CellsOfWindow DEF Missing
<1>3. HexDistance(s, c) <= PlacementRadius
  <2>1. HexDistance(s, c) \in Int
    BY <1>2 DEF StonesOK, HexDistance, Magnitude, Cells
  <2> QED
    BY <1>1, <2>1, RadiiOK, ReachOK
<1> QED
  BY <1>2, <1>3, LegalIs

LEMMA ThreatsAreLegal ==
    ASSUME NEW stones, StonesOK(stones), NEW p, NEW e \in ThreatWindows(stones, p)
    PROVE  e \subseteq LegalFromStones(stones, PlacementRadius)
<1>1. PICK w \in Windows : Cardinality(Missing(stones, w)) \in 1 .. 2 /\ e = Missing(stones, w)
  BY ThreatWindowsAre
<1>2. Cardinality(Missing(stones, w)) <= 2
  BY <1>1
<1> QED
  BY <1>1, <1>2, MissingIsLegal

(* Without a line a window of one player lacks a cell.                       *)
LEMMA SomeMissing ==
    ASSUME NEW stones, StonesOK(stones), NoLine(stones), NEW p \in Players,
           NEW w \in Windows, OnlyOf(stones, w, p), Cardinality(Missing(stones, w)) <= 2
    PROVE  /\ Cardinality(Missing(stones, w)) \in 1 .. 2
           /\ Missing(stones, w) \in ThreatWindows(stones, p)
<1> DEFINE e == Missing(stones, w)
<1>1. e # {}
  <2> SUFFICES ASSUME e = {} PROVE FALSE
    OBVIOUS
  <2>1. \A c \in WindowCells(w) : Owns(stones, c, p)
    BY DEF OnlyOf, Owns, Missing
  <2> QED
    BY <2>1, HasLineIs DEF NoLine
<1>2. IsFiniteSet(e)
  BY TakenAndMissing
<1> HIDE DEF e
<1>3. Cardinality(e) \in Nat /\ Cardinality(e) # 0
  BY <1>1, <1>2, OneOrTwo
<1>4. Cardinality(e) \in 1 .. 2
  BY <1>3 DEF e
<1>5. e \in ThreatWindows(stones, p)
  BY <1>4, ThreatWindowsAre DEF e
<1> QED
  BY <1>4, <1>5 DEF e

(* The windows that the scanner finds, with all moves within reach, are the  *)
(* threats.                                                                  *)
LEMMA HotWindowsAre ==
    ASSUME NEW stones, StonesOK(stones), NoLine(stones), NEW p \in Players
    PROVE  HotWindows(stones, p, LegalFromStones(stones, PlacementRadius))
             = ThreatWindows(stones, p)
<1> DEFINE legal == LegalFromStones(stones, PlacementRadius)
           size(w) == Cardinality(WindowCells(w) \cap DOMAIN stones)
           less(w) == Cardinality(Missing(stones, w))
           hot(w) == w \in WindowsOf(stones, p) /\ OnlyOf(stones, w, p)
                     /\ WindowCells(w) \ (WindowCells(w) \cap DOMAIN stones) \subseteq legal
                     /\ size(w) >= WinLength - 2
<1>1. \A e : e \in HotWindows(stones, p, legal) <=> \E w : hot(w) /\ e = Missing(stones, w)
  BY DEF HotWindows, OnlyOf, Missing
<1>2. ASSUME NEW w \in Windows
      PROVE  size(w) >= WinLength - 2 <=> less(w) <= 2
  <2>1. size(w) \in Nat /\ less(w) \in Nat /\ size(w) + less(w) = WinLength
    BY TakenAndMissing
  <2> HIDE DEF size, less
  <2> QED
    BY <2>1, WinLengthOK
<1>3. ASSUME NEW w, hot(w)
      PROVE  Missing(stones, w) \in ThreatWindows(stones, p)
  <2>1. w \in Windows
    BY <1>3, WindowsOfAre
  <2>2. less(w) <= 2
    BY <1>2, <1>3, <2>1
  <2> QED
    BY <1>3, <2>1, <2>2, SomeMissing
<1>4. ASSUME NEW e \in ThreatWindows(stones, p)
      PROVE  \E w : hot(w) /\ e = Missing(stones, w)
  <2>1. PICK w \in Windows : OnlyOf(stones, w, p) /\ less(w) \in 1 .. 2 /\ e = Missing(stones, w)
    BY ThreatWindowsAre
  <2>2. less(w) <= 2
    BY <2>1
  <2>3. PICK c \in WindowCells(w) : c \in DOMAIN stones
    BY <2>2, SomeStone
  <2>4. w \in WindowsOf(stones, p)
    <3>1. Owns(stones, c, p)
      BY <2>1, <2>3 DEF OnlyOf, Owns
    <3> QED
      BY <3>1, WindowsOfAre
  <2>5. WindowCells(w) \ (WindowCells(w) \cap DOMAIN stones) = Missing(stones, w)
    BY DEF Missing
  <2>6. Missing(stones, w) \subseteq legal
    BY <2>2, MissingIsLegal
  <2>7. size(w) >= WinLength - 2
    BY <1>2, <2>2
  <2> QED
    BY <2>1, <2>4, <2>5, <2>6, <2>7
<1> HIDE DEF hot, legal
<1>5. HotWindows(stones, p, legal) = ThreatWindows(stones, p)
  BY <1>1, <1>3, <1>4
<1> QED
  BY <1>5 DEF legal

(* The hot windows that the evaluation keeps are some of the threats.        *)
LEMMA EmptiesAreThreats ==
    ASSUME NEW b, Position(b), EvalConsistent(b.eval, b.stones), NEW p \in Players
    PROVE  EmptiesWithin(b, p, LegalFromStones(b.stones, PlacementRadius))
             \subseteq ThreatWindows(b.stones, p)
<1> DEFINE legal == LegalFromStones(b.stones, PlacementRadius)
           idx == [w \in GridWindows |-> IndexOf(b.stones, w)]
<1>1. StonesOK(b.stones) /\ NoLine(b.stones)
  BY DEF Position
<1>2. b.eval.hot[p] = {w \in GridWindows : IsHot(idx[w], p)}
  BY Zenon DEF EvalConsistent
<1>3. ASSUME NEW w \in b.eval.hot[p]
      PROVE  (WindowCells(w) \ DOMAIN b.stones) \cap legal \in ThreatWindows(b.stones, p)
  <2>1. w \in GridWindows /\ IsHot(IndexOf(b.stones, w), p)
    BY <1>2
  <2>2. OnlyOf(b.stones, w, p) /\ Cardinality(Missing(b.stones, w)) <= 2 /\ w \in Windows
    BY <1>1, <2>1, HotIs, GridIsPartOfPlane
  <2>3. Missing(b.stones, w) \in ThreatWindows(b.stones, p)
    BY <1>1, <2>2, SomeMissing
  <2>4. Missing(b.stones, w) \subseteq legal
    BY <1>1, <2>2, MissingIsLegal
  <2>5. (WindowCells(w) \ DOMAIN b.stones) \cap legal = Missing(b.stones, w)
    BY <2>4 DEF Missing
  <2> QED
    BY <2>3, <2>5
<1> HIDE DEF legal
<1>4. EmptiesWithin(b, p, legal) \subseteq ThreatWindows(b.stones, p)
  BY <1>3 DEF EmptiesWithin
<1> QED
  BY <1>4 DEF legal

-----------------------------------------------------------------------------
(* The two oracles. *)
(* What the scanner says of a position, for all moves within reach.          *)
LEMMA ScanIs ==
    ASSUME NEW b, Position(b), DOMAIN b.stones # {}
    PROVE  LET legal == LegalFromStones(b.stones, PlacementRadius)
               s == ScanOracle(b.stones, b.player, legal, b.remaining)
               winning == WinningTurns(ThreatWindows(b.stones, b.player), b.remaining)
               threats == ThreatWindows(b.stones, 1 - b.player)
           IN  /\ s.win = {c \in legal : {c} \in winning}
               /\ s.win = UNION {t \in winning : Cardinality(t) = 1}
               /\ \A c \in s.win : HasLine(WithTurn(b.stones, {c}, b.player), b.player)
               /\ s.forced = UNION threats /\ s.cover = UNION threats
               /\ s.pairs = CoverPairs(threats)
               /\ s.four = OfSize(2, ThreatWindows(b.stones, b.player))
               /\ s.five = OfSize(1, ThreatWindows(b.stones, b.player))
               /\ s.status = FallbackStatus(s.win, s.forced, s.pairs, b.remaining)
<1> DEFINE legal == LegalFromStones(b.stones, PlacementRadius)
           s == ScanOracle(b.stones, b.player, legal, b.remaining)
           winning == WinningTurns(ThreatWindows(b.stones, b.player), b.remaining)
           threats == ThreatWindows(b.stones, 1 - b.player)
           win == {c \in legal : WouldWin(b.stones, b.player, c)}
<1>1. /\ StonesOK(b.stones) /\ NoLine(b.stones) /\ b.player \in Players /\ 1 - b.player \in Players
  BY DEF Position, Players
<1>2. legal \subseteq Cells /\ legal \cap DOMAIN b.stones = {} /\ legal \ DOMAIN b.stones = legal
  <2>1. legal \cap DOMAIN b.stones = {}
    BY <1>1, LegalIs, LegalCells
  <2> QED
    BY <1>1, <2>1, LegalCells
<1>3. /\ HotWindows(b.stones, b.player, legal) = ThreatWindows(b.stones, b.player)
      /\ HotWindows(b.stones, 1 - b.player, legal) = threats
  BY <1>1, HotWindowsAre
<1>4. \A c \in legal : /\ WouldWin(b.stones, b.player, c) <=> {c} \in winning
                       /\ WouldWin(b.stones, b.player, c)
                            => HasLine(WithTurn(b.stones, {c}, b.player), b.player)
  <2>1. \A c \in legal : c \in Cells /\ c \notin DOMAIN b.stones
    BY <1>2
  <2> QED
    BY <2>1, WinningCells
<1>5. win = {c \in legal : {c} \in winning}
  BY <1>4
<1>6. win = UNION {t \in winning : Cardinality(t) = 1}
  <2>1. ASSUME NEW c \in win
        PROVE  c \in UNION {t \in winning : Cardinality(t) = 1}
    BY <1>5, FS_Singleton
  <2>2. ASSUME NEW t \in winning, Cardinality(t) = 1, NEW c \in t
        PROVE  c \in win
    <3>1. t \in ThreatWindows(b.stones, b.player)
      BY <2>2 DEF WinningTurns
    <3>2. IsFiniteSet(t) /\ t \subseteq legal
      BY <1>1, <3>1, ThreatShape, ThreatsAreLegal
    <3>3. t = {c}
      BY <2>2, <3>2, FS_Singleton
    <3> QED
      BY <1>5, <2>2, <3>2, <3>3
  <2> QED
    BY <2>1, <2>2
<1>7. (UNION threats) \cup UNION CoverPairs(threats) = UNION threats
  BY DEF CoverPairs
<1> HIDE DEF legal, threats, winning
<1>8. s = Labels(FallbackStatus(win, UNION threats, CoverPairs(threats), b.remaining), win,
                 UNION threats, (UNION threats) \cup UNION CoverPairs(threats), CoverPairs(threats),
                 OfSize(2, ThreatWindows(b.stones, b.player)),
                 OfSize(1, ThreatWindows(b.stones, b.player)))
  BY <1>2, <1>3, Zenon DEF ScanOracle
<1> HIDE DEF s, win
<1>9. /\ s.win = win
      /\ s.forced = UNION threats /\ s.cover = UNION threats
      /\ s.pairs = CoverPairs(threats)
      /\ s.four = OfSize(2, ThreatWindows(b.stones, b.player))
      /\ s.five = OfSize(1, ThreatWindows(b.stones, b.player))
      /\ s.status = FallbackStatus(win, UNION threats, CoverPairs(threats), b.remaining)
  BY <1>7, <1>8 DEF Labels
<1>10. \A c \in s.win : HasLine(WithTurn(b.stones, {c}, b.player), b.player)
  BY <1>4, <1>9 DEF win
<1> QED
  BY <1>5, <1>6, <1>9, <1>10 DEF legal, s, threats, winning

(* What the extension says of it. *)
LEMMA EngineIs ==
    ASSUME NEW b, Position(b), EvalConsistent(b.eval, b.stones), DOMAIN b.stones # {}
    PROVE  LET legal == LegalFromStones(b.stones, PlacementRadius)
               e == OracleFromGame(b, legal, legal)
               status == TacticalStatus(b)
               threats == ThreatWindows(b.stones, 1 - b.player)
           IN  /\ e.status = status.kind
               /\ e.four \subseteq OfSize(2, ThreatWindows(b.stones, b.player))
               /\ e.five \subseteq OfSize(1, ThreatWindows(b.stones, b.player))
               /\ status.kind # "winning" =>
                     /\ e.forced \subseteq UNION threats
                     /\ e.pairs = status.pairs
                     /\ status.kind = "block" => e.forced = status.cells \cup UNION status.pairs
<1> DEFINE legal == LegalFromStones(b.stones, PlacementRadius)
           e == OracleFromGame(b, legal, legal)
           o == EngineOracle(b, legal)
           status == TacticalStatus(b)
           own == EmptiesWithin(b, b.player, legal)
           theirs == EmptiesWithin(b, 1 - b.player, legal)
           met == status.cells \cup UNION status.pairs
           left == OfSize(1, theirs) \cup OfSize(2, theirs)
           forced == IF status.kind = "unblockable" THEN left ELSE met
           threats == ThreatWindows(b.stones, 1 - b.player)
<1>1. /\ StonesOK(b.stones) /\ b.player \in Players /\ 1 - b.player \in Players
  BY DEF Position, Players
<1>2. own \subseteq ThreatWindows(b.stones, b.player) /\ theirs \subseteq threats
  BY <1>1, EmptiesAreThreats
<1>3. UNION threats \subseteq legal
  BY <1>1, ThreatsAreLegal
<1>4. status.kind # "winning" => met \subseteq UNION threats
  <2>1. ASSUME status.kind # "winning"
        PROVE  met \subseteq UNION threats
    <3>1. status.cells \subseteq BlockCells(threats) /\ status.pairs \subseteq BlockPairs(threats, b.remaining)
      <4>1. \/ status.cells = {} /\ status.pairs = {}
            \/ status.cells = BlockCells(threats) /\ status.pairs = BlockPairs(threats, b.remaining)
        BY <2>1, StatusIs
      <4> QED
        BY <4>1
    <3>2. BlockCells(threats) \subseteq UNION threats
      BY DEF BlockCells
    <3>3. UNION BlockPairs(threats, b.remaining) \subseteq UNION threats
      <4>1. CASE b.remaining <= 1
        BY <4>1 DEF BlockPairs
      <4>2. CASE ~(b.remaining <= 1)
        BY <4>2 DEF BlockPairs
      <4> QED
        BY <4>1, <4>2
    <3> HIDE DEF threats, status
    <3> QED
      BY <3>1, <3>2, <3>3
  <2> QED
    BY <2>1
<1>5. left \subseteq UNION threats
  BY <1>2 DEF OfSize
<1> HIDE DEF legal, threats, status, own, theirs
<1>6. o = Labels(status.kind, UNION status.turns, forced, forced, status.pairs, OfSize(2, own), OfSize(1, own))
  BY Zenon DEF EngineOracle, status, own, theirs
<1> HIDE DEF o
<1>7. e = Labels(o.status, o.win \cap legal, o.forced \cap legal, o.cover \cap legal,
                 {p \in o.pairs : p \subseteq legal}, o.four \cap legal, o.five \cap legal)
  BY Zenon DEF OracleFromGame, FilterToLegal, o
<1> HIDE DEF e, forced, met, left
<1>8. /\ o.status = status.kind /\ o.forced = forced /\ o.pairs = status.pairs
      /\ o.four = OfSize(2, own) /\ o.five = OfSize(1, own)
  BY <1>6 DEF Labels
<1>9. /\ e.status = status.kind /\ e.forced = forced \cap legal
      /\ e.pairs = {p \in status.pairs : p \subseteq legal} /\ e.four = OfSize(2, own) \cap legal
      /\ e.five = OfSize(1, own) \cap legal
  BY <1>7, <1>8 DEF Labels
<1>10. /\ e.four \subseteq OfSize(2, ThreatWindows(b.stones, b.player))
       /\ e.five \subseteq OfSize(1, ThreatWindows(b.stones, b.player))
  BY <1>2, <1>9 DEF OfSize
<1>11. ASSUME status.kind # "winning"
       PROVE  /\ e.forced \subseteq UNION threats /\ e.pairs = status.pairs
              /\ status.kind = "block" => e.forced = status.cells \cup UNION status.pairs
  <2>1. forced \subseteq UNION threats
    BY <1>4, <1>5, <1>11 DEF forced
  <2>2. e.forced = forced
    BY <1>3, <1>9, <2>1
  <2>3. e.pairs = status.pairs
    <3>1. \A p \in status.pairs : p \subseteq legal
      BY <1>3, <1>4, <1>11 DEF met
    <3> QED
      BY <1>9, <3>1
  <2> QED
    BY <2>1, <2>2, <2>3 DEF forced, met
<1> QED
  BY <1>9, <1>10, <1>11 DEF legal, e, threats, status

(* Two cells of the windows, of which one meets all, cover them.             *)
LEMMA CoversAre ==
    ASSUME NEW windows, NEW t
    PROVE  t \in CoverPairs(windows)
             <=> t \in Pairs(UNION windows) /\ \A e \in windows : e \cap t # {}
<1>1. ASSUME t \in CoverPairs(windows)
      PROVE  t \in Pairs(UNION windows) /\ \A e \in windows : e \cap t # {}
  <2>1. Cardinality(t) = 2 /\ \A e \in windows : e \cap t # {}
    BY <1>1 DEF CoverPairs
  <2>2. PICK c \in UNION windows, d \in UNION windows : t = {c, d}
    BY <1>1 DEF CoverPairs
  <2>3. c # d
    <3> SUFFICES ASSUME c = d PROVE FALSE
      OBVIOUS
    <3>1. t = {c}
      BY <2>2
    <3>2. Cardinality({c}) = 1
      BY FS_Singleton
    <3> QED
      BY <2>1, <3>1, <3>2
  <2> QED
    BY <2>1, <2>2, <2>3, PairsOf
<1>2. ASSUME t \in Pairs(UNION windows), \A e \in windows : e \cap t # {}
      PROVE  t \in CoverPairs(windows)
  <2>1. Cardinality(t) = 2
    BY <1>2, TwoOf
  <2> QED
    BY <1>2, <2>1 DEF CoverPairs, Pairs
<1> QED
  BY <1>1, <1>2

LEMMA SamePairs ==
    ASSUME NEW windows, NEW remaining \in 1 .. 2
    PROVE  remaining = 2 => BlockPairs(windows, remaining) = CoverPairs(windows)
<1> SUFFICES ASSUME remaining = 2 PROVE BlockPairs(windows, remaining) = CoverPairs(windows)
  OBVIOUS
<1>1. ~(remaining <= 1)
  OBVIOUS
<1> QED
  BY <1>1 DEF BlockPairs, CoverPairs

(* With a second cell to pair it with, a cell that meets all windows is in a *)
(* pair that does.                                                           *)
LEMMA CellInPair ==
    ASSUME NEW windows, NEW c \in BlockCells(windows), NEW d \in UNION windows, d # c
    PROVE  {c, d} \in CoverPairs(windows)
<1>1. c \in UNION windows /\ \A e \in windows : c \in e
  BY DEF BlockCells
<1>2. {c, d} \in Pairs(UNION windows)
  BY <1>1, PairsOf
<1>3. \A e \in windows : e \cap {c, d} # {}
  BY <1>1
<1> QED
  BY <1>2, <1>3, CoversAre

(* The two oracles, as the lemmas above describe them, agree.                *)
LEMMA LabelsAgree ==
    ASSUME NEW b, Position(b), EvalConsistent(b.eval, b.stones), DOMAIN b.stones # {}
    PROVE  LET legal == LegalFromStones(b.stones, PlacementRadius)
           IN  SameLabels(b, OracleFromGame(b, legal, legal),
                          ScanOracle(b.stones, b.player, legal, b.remaining))
<1> DEFINE legal == LegalFromStones(b.stones, PlacementRadius)
           e == OracleFromGame(b, legal, legal)
           s == ScanOracle(b.stones, b.player, legal, b.remaining)
           status == TacticalStatus(b)
           winning == WinningTurns(ThreatWindows(b.stones, b.player), b.remaining)
           threats == ThreatWindows(b.stones, 1 - b.player)
           four == OfSize(2, ThreatWindows(b.stones, b.player))
           five == OfSize(1, ThreatWindows(b.stones, b.player))
<1>1. /\ b.remaining \in 1 .. 2 /\ StonesOK(b.stones)
  BY DEF Position
<1>2. /\ s.win = {c \in legal : {c} \in winning}
      /\ s.win = UNION {t \in winning : Cardinality(t) = 1}
      /\ s.forced = UNION threats /\ s.cover = UNION threats
      /\ s.pairs = CoverPairs(threats) /\ s.four = four /\ s.five = five
      /\ s.status = FallbackStatus(s.win, s.forced, s.pairs, b.remaining)
  BY ScanIs
<1>3. /\ e.status = status.kind /\ e.four \subseteq four /\ e.five \subseteq five
      /\ status.kind # "winning" =>
            /\ e.forced \subseteq UNION threats
            /\ e.pairs = status.pairs
            /\ status.kind = "block" => e.forced = status.cells \cup UNION status.pairs
  BY EngineIs
<1>4. status.turns = winning /\ (status.kind = "winning" <=> winning # {})
  BY WinningTurnsAre
<1>5. status.kind # "winning" =>
        /\ threats = {} <=> status.kind = "quiet"
        /\ status.kind = "quiet" => status.cells = {} /\ status.pairs = {}
        /\ status.kind = "unblockable" =>
              /\ status.cells = {} /\ status.pairs = {}
              /\ BlockCells(threats) = {} /\ BlockPairs(threats, b.remaining) = {}
        /\ status.kind = "block" =>
              /\ status.cells = BlockCells(threats)
              /\ status.pairs = BlockPairs(threats, b.remaining)
              /\ ~(status.cells = {} /\ status.pairs = {})
        /\ status.kind \in {"quiet", "unblockable", "block"}
  BY StatusIs
<1>6. \A x \in threats : x # {}
  BY <1>1, ThreatShape
<1>7. b.remaining = 2 => BlockPairs(threats, b.remaining) = CoverPairs(threats)
  BY <1>1, SamePairs
<1> HIDE DEF legal, e, s, status, winning, threats, four, five
<1>8. status.kind # "winning" => s.win = {}
  BY <1>2, <1>4
<1>9. UNION threats = {} <=> threats = {}
  BY <1>6
<1>10. ASSUME status.kind # "winning", b.remaining = 2
       PROVE  e.pairs = s.pairs
  <2>1. CASE status.kind = "quiet"
    <3>1. CoverPairs(threats) = {}
      <4>1. threats = {}
        BY <1>5, <1>10, <2>1
      <4> QED
        BY <4>1 DEF CoverPairs
    <3> QED
      BY <1>2, <1>3, <1>5, <1>10, <2>1, <3>1
  <2>2. CASE status.kind # "quiet"
    BY <1>2, <1>3, <1>5, <1>7, <1>10, <2>2
  <2> QED
    BY <2>1, <2>2
<1>11. ASSUME status.kind = "block", b.remaining = 2, Cardinality(s.forced) # 1
       PROVE  UNION s.pairs = e.forced
  <2>1. status.pairs = s.pairs /\ status.cells = BlockCells(threats)
        /\ e.forced = status.cells \cup UNION status.pairs
    BY <1>2, <1>3, <1>5, <1>7, <1>11
  <2>2. ASSUME NEW c \in BlockCells(threats)
        PROVE  c \in UNION s.pairs
    <3>1. c \in UNION threats
      BY DEF BlockCells
    <3>2. UNION threats # {c}
      BY <1>2, <1>11, FS_Singleton
    <3>3. PICK d \in UNION threats : d # c
      BY <3>1, <3>2
    <3>4. {c, d} \in s.pairs
      BY <1>2, <3>3, CellInPair
    <3> QED
      BY <3>4
  <2> QED
    BY <2>1, <2>2
<1>12. \/ status.kind = s.status \/ (status.kind = "winning" /\ s.win = {})
       \/ (b.remaining = 2 /\ Cardinality(s.forced) = 1)
       \/ (b.remaining = 1 /\ status.kind = "unblockable" /\ s.status = "block")
  <2>1. CASE status.kind = "winning"
    <3>1. s.win # {} => s.status = "winning"
      BY <1>2 DEF FallbackStatus
    <3> QED
      BY <2>1, <3>1
  <2>2. CASE status.kind = "quiet"
    <3>1. s.win = {} /\ s.forced = {}
      BY <1>2, <1>5, <1>8, <1>9, <2>2
    <3>2. s.status = "quiet"
      BY <1>2, <3>1 DEF FallbackStatus
    <3> QED
      BY <2>2, <3>2
  <2>3. CASE status.kind = "block" \/ status.kind = "unblockable"
    <3>1. s.win = {} /\ s.forced # {}
      BY <1>2, <1>5, <1>8, <1>9, <2>3
    <3>2. s.status = IF b.remaining <= 1 \/ s.pairs # {} THEN "block" ELSE "unblockable"
      BY <1>2, <3>1 DEF FallbackStatus
    <3>3. CASE b.remaining = 1
      <4>1. s.status = "block"
        BY <3>2, <3>3
      <4> QED
        BY <2>3, <3>3, <4>1
    <3>4. CASE b.remaining = 2 /\ status.kind = "unblockable"
      <4>1. s.pairs = {} /\ ~(b.remaining <= 1)
        BY <1>2, <1>5, <1>7, <3>4
      <4>2. s.status = "unblockable"
        BY <3>2, <4>1
      <4> QED
        BY <3>4, <4>2
    <3>5. CASE b.remaining = 2 /\ status.kind = "block" /\ s.pairs # {}
      <4>1. s.status = "block"
        BY <3>2, <3>5
      <4> QED
        BY <3>5, <4>1
    <3>6. CASE b.remaining = 2 /\ status.kind = "block" /\ s.pairs = {}
      <4>1. BlockCells(threats) # {}
        BY <1>2, <1>5, <1>7, <3>6
      <4>2. PICK c : c \in BlockCells(threats)
        BY <4>1
      <4>3. ASSUME NEW d \in UNION threats
            PROVE  d = c
        <5> SUFFICES ASSUME d # c PROVE FALSE
          OBVIOUS
        <5>1. {c, d} \in CoverPairs(threats)
          BY <4>2, CellInPair
        <5> QED
          BY <1>2, <3>6, <5>1
      <4>4. c \in UNION threats
        BY <4>2 DEF BlockCells
      <4>5. s.forced = {c}
        BY <1>2, <4>3, <4>4
      <4> QED
        BY <3>6, <4>5, FS_Singleton
    <3> QED
      BY <1>1, <2>3, <3>3, <3>4, <3>5, <3>6
  <2> QED
    BY <1>5, <2>1, <2>2, <2>3
<1>13. s.win = UNION {t \in TacticalStatus(b).turns : Cardinality(t) = 1}
  BY <1>2, <1>4 DEF status
<1>14. SameLabels(b, e, s)
  <2>1. e.four \subseteq s.four
    BY <1>2, <1>3
  <2>2. ASSUME e.status # "winning"
        PROVE  /\ e.forced \subseteq s.forced /\ s.cover = s.forced
               /\ b.remaining = 2 => e.pairs = s.pairs
               /\ e.status = "block" /\ b.remaining = 2 /\ Cardinality(s.forced) # 1
                    => UNION s.pairs = e.forced
    <3>1. status.kind # "winning"
      BY <1>3, <2>2
    <3>2. e.forced \subseteq s.forced /\ s.cover = s.forced
      BY <1>2, <1>3, <3>1
    <3>3. b.remaining = 2 => e.pairs = s.pairs
      BY <1>10, <3>1
    <3>4. e.status = "block" /\ b.remaining = 2 /\ Cardinality(s.forced) # 1
            => UNION s.pairs = e.forced
      BY <1>3, <1>11
    <3> QED
      BY <3>2, <3>3, <3>4
  <2>3. \/ e.status = s.status \/ (e.status = "winning" /\ s.win = {})
        \/ (b.remaining = 2 /\ Cardinality(s.forced) = 1)
        \/ (b.remaining = 1 /\ e.status = "unblockable" /\ s.status = "block")
    BY <1>3, <1>12
  <2>4. e.five \subseteq s.five
    BY <1>2, <1>3
  <2> QED
    BY <1>13, <2>1, <2>2, <2>3, <2>4, Zenon DEF SameLabels
<1> QED
  BY <1>14 DEF legal, e, s

(* A pair of cover cells passes exactly when it leaves the opponent no win.  *)
LEMMA LabelsAreTrue ==
    ASSUME NEW b, Position(b), DOMAIN b.stones # {}
    PROVE  LET legal == LegalFromStones(b.stones, PlacementRadius)
           IN  LabelsHold(b, ScanOracle(b.stones, b.player, legal, b.remaining), legal)
<1> DEFINE legal == LegalFromStones(b.stones, PlacementRadius)
           s == ScanOracle(b.stones, b.player, legal, b.remaining)
           threats == ThreatWindows(b.stones, 1 - b.player)
           position == SuitePosition("cover", s, legal, 0)
<1>1. StonesOK(b.stones)
  BY DEF Position
<1>2. /\ \A c \in s.win : HasLine(WithTurn(b.stones, {c}, b.player), b.player)
      /\ s.cover = UNION threats /\ s.pairs = CoverPairs(threats)
  BY ScanIs
<1>3. \A e \in threats : e \subseteq Cells /\ e \cap DOMAIN b.stones = {}
  BY <1>1, ThreatShape
<1> HIDE DEF s, legal
<1>4. s.pairs # {} => position.pairs = s.pairs
  BY DEF SuitePosition
<1>5. ASSUME s.pairs # {}, NEW t \in Pairs(s.cover)
      PROVE  (\E c \in t : Passes(position, c, CHOOSE d \in t : d # c))
               <=> ~CouldWin(WithTurn(b.stones, t, b.player), 1 - b.player)
  <2>1. t \subseteq UNION threats /\ IsFiniteSet(t) /\ Cardinality(t) = 2
    BY <1>2, <1>5, TwoOf
  <2>2. CouldWin(WithTurn(b.stones, t, b.player), 1 - b.player)
          <=> \E e \in threats : e \cap t = {}
    <3>1. t \subseteq Cells /\ t \cap DOMAIN b.stones = {}
      BY <1>3, <2>1
    <3> QED
      BY <2>1, <3>1, TurnLeavesWin
  <2>3. t \in s.pairs <=> \A e \in threats : e \cap t # {}
    BY <1>2, <1>5, CoversAre
  <2>4. position.pairs = s.pairs
    BY <1>4, <1>5
  <2> HIDE DEF position, threats
  <2>5. \A c \in t : {c, CHOOSE d \in t : d # c} = t
    <3>1. PICK x, y : x # y /\ t = {x, y}
      BY <2>1, OneOrTwo
    <3>2. ASSUME NEW c \in t
          PROVE  {c, CHOOSE d \in t : d # c} = t
      <4>1. \E d \in t : d # c
        BY <3>1
      <4>2. PICK z \in t : z = (CHOOSE d \in t : d # c) /\ z # c
        BY <4>1
      <4> QED
        BY <3>1, <4>2
    <3> QED
      BY <3>2
  <2>6. \A c \in t : Passes(position, c, CHOOSE d \in t : d # c) <=> t \in s.pairs
    BY <1>5, <2>4, <2>5 DEF Passes
  <2>7. t # {}
    BY <2>1, OneOrTwo
  <2> QED
    BY <2>2, <2>3, <2>6, <2>7
<1>6. LabelsHold(b, s, legal)
  BY <1>2, <1>5 DEF LabelsHold
<1> QED
  BY <1>6 DEF s, legal

LEMMA OraclesAgree ==
    ASSUME Position(board), BoardInv(board), EvalOK(board), board.history # <<>>
    PROVE  OracleAgrees
<1>1. DOMAIN board.stones # {}
  <2>1. Len(board.history) # 0 /\ Len(board.history) \in Nat
    BY AppendToHistory DEF BoardInv, HistoryOK, IsSeq
  <2>2. 1 \in 1 .. Len(board.history)
    BY <2>1
  <2> QED
    BY <2>2 DEF BoardInv, HistoryOK
<1>2. EvalConsistent(board.eval, board.stones)
  BY EvalOfIsConsistent DEF EvalOK
<1> QED
  BY <1>1, <1>2, LabelsAgree, LabelsAreTrue DEF OracleAgrees

(* What search, masks, candidate rows and the suite go by is the truth about *)
(* every turn, for lines of any length, any radius of two or more, any grid  *)
(* and any stones.                                                           *)
THEOREM ThreatsExactHolds == Spec => []ThreatsExact
<1>1. RulesInv /\ EvalInv => OracleAgrees
  <2> SUFFICES ASSUME RulesInv, EvalInv PROVE OracleAgrees
    OBVIOUS
  <2>1. CASE InPlay(board)
    <3>1. Position(board) /\ BoardInv(board) /\ EvalOK(board) /\ board.history # <<>>
      BY <2>1, InPlayIs DEF RulesInv, CacheInv, EvalInv, InPlay
    <3> QED
      BY <3>1, OraclesAgree
  <2>2. CASE ~InPlay(board)
    BY <2>2 DEF OracleAgrees
  <2> QED
    BY <2>1, <2>2
<1>2. Spec => [](RulesInv /\ EvalInv)
  BY RulesInvInit, RulesInvStep, EvalInvInit, EvalInvStep, PTL DEF Spec
<1>3. WinningTurnsExact /\ DefencesExact /\ OracleAgrees => ThreatsExact
  BY DEF ThreatsExact
<1> QED
  BY <1>1, <1>2, <1>3, WinningTurnsExactHolds, DefencesExactHolds, PTL
=============================================================================
