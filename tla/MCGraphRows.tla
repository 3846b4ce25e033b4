---------------------------- MODULE MCGraphRows ----------------------------
(* Records for GraphRows: those of the sampler, with their opponent's legal  *)
(* moves, and one whose search visited every pair of moves. The record of a  *)
(* first placement whose search did not is refused.                          *)
EXTENDS GraphRows, MCReplaySampler

WithGraph(rec) == rec @@ [oppLegal |-> Ids(rec.policy), complete |-> Complete(rec)]

(* The second turn of a game; two pairs name the farther cell first.         *)
Around == Nearest(Ball(Origin, 1) \ {Origin}, 6)
EveryPair ==
    MCRecord(<< <<0, 0>> >>, << <<1, 0>>, <<0, -1>> >>,
             [k \in DOMAIN PairTable(6) |->
                LET a == Around[PairTable(6)[k][1]]
                    b == Around[PairTable(6)[k][2]]
                IN  IF k < 3 THEN Pair(b, a, k) ELSE Pair(a, b, k)],
             <<>>, {<<0, 0>>, <<0, 1>>, <<2, 1>>})

MCGraphRecords == {WithGraph(rec) : rec \in {FirstPlacement, SecondPlacement, EveryPair, Opening}}
=============================================================================
