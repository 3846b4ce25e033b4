-------------------------- MODULE MCReplaySampler --------------------------
(* Records of positions for ReplaySampler: a first placement of a turn with  *)
(* more pairs than rows, a second one, positions whose tactical cells or     *)
(* whose targets do not fit, one after a forced search.                      *)
EXTENDS ReplaySampler

Placed(cells) == [k \in DOMAIN cells |-> [player |-> (k \div 2) % 2, cell |-> cells[k]]]
VisitsIn(cells) == [k \in DOMAIN cells |-> [cell |-> cells[k], visits |-> 2 * Len(cells) - k]]
Pair(a, b, n) == [first |-> a, second |-> b, visits |-> n]

(* The policy in the square about the stones, of at most two entries.        *)
InSquare(policy, h) ==
    LET offset == OffsetOf(h)
        half == CropSize \div 2
        shown == Dense(policy, offset, 2)
    IN  [k \in DOMAIN shown |->
            [shown[k] EXCEPT !.cell = <<@[1] - offset[1] - half, @[2] - offset[2] - half>>]]

MCRecord(h, policy, pairs, tactical, line) ==
    [history |-> Placed(h), policy |-> VisitsIn(policy), opp |-> VisitsIn(Cut(policy, 1)), pairs |-> pairs,
     square |-> InSquare(VisitsIn(policy), Placed(h)), oppSquare |-> InSquare(VisitsIn(Cut(policy, 1)), Placed(h)),
     tactical |-> tactical, line |-> line, axis |-> DominantAxis(line), full |-> Len(policy) > 1,
     oppFull |-> Len(policy) > 2, overflow |-> FALSE]

FirstPlacement ==
    MCRecord(<< <<0, 0>>, <<1, 0>>, <<1, 1>> >>, << <<0, 1>>, <<2, 0>>, <<-1, 0>>, <<1, -1>> >>,
             <<Pair(<<0, 1>>, <<2, 0>>, 3), Pair(<<2, 0>>, <<-1, 0>>, 1), Pair(<<2, 0>>, <<0, 1>>, 2),
               Pair(<<-1, 0>>, <<0, 1>>, 2), Pair(<<1, -1>>, <<0, 1>>, 1), Pair(<<1, -1>>, <<2, 0>>, 1)>>, << <<2, 0>> >>,
             {<<0, 0>>, <<1, 0>>, <<2, 0>>, <<0, 2>>})
SecondPlacement ==
    MCRecord(<< <<0, 0>>, <<1, 0>> >>, << <<2, 0>>, <<1, -1>>, <<0, 1>> >>,
             <<Pair(<<1, 0>>, <<2, 0>>, 4), Pair(<<1, 0>>, <<1, -1>>, 2)>>, <<>>,
             {<<0, 0>>, <<1, -1>>, <<0, 1>>})
CrowdedBy(policy) ==
    MCRecord(<< <<0, 0>>, <<1, 0>>, <<2, 0>> >>, policy, <<>>, << <<0, -1>> >>, {<<0, 0>>, <<0, 1>>, <<1, 1>>})
TacticalTooMany == CrowdedBy(<< <<3, 0>>, <<-1, 0>>, <<0, 1>>, <<1, 1>> >>)
TargetsTooMany == CrowdedBy(<< <<3, 0>>, <<-1, 0>>, <<0, 1>>, <<1, 1>>, <<1, -1>> >>)
Opening == MCRecord(<<>>, << <<0, 0>> >>, <<>>, <<>>, {<<0, 0>>, <<0, 1>>, <<2, 1>>})

(* A record of the first file format, which has its policies by place only.  *)
InOldFormat == [SecondPlacement EXCEPT !.policy = <<>>, !.opp = <<>>, !.pairs = <<>>]

MCRecordsToSample == {FirstPlacement, SecondPlacement, TacticalTooMany, TargetsTooMany, Opening, InOldFormat}
=============================================================================
