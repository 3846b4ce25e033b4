----------------------------- MODULE MCHexBoard -----------------------------
(* TLC instance of parts that run alone: the board with its caches and       *)
(* threat analysis and labels, the classical search, the replay buffer, the  *)
(* sampler of its records, and the rows of graph batches. A       *)
(* behaviour is one of one part; the others stay as they begin. The search,  *)
(* a leaf's scoring and a failed batch end.                                  *)
(* Board: two crossing lines of four cells. A game that is played can be won *)
(* on the row, a position that is loaded also on the column through the      *)
(* origin. Search: a quiet game of three turns with transpositions.          *)
EXTENDS TacticalOracle, AlphaBeta, RingBuffer, MCGraphRows

VARIABLE part

MCOffered == {<<0, r>> : r \in 0 .. 3} \cup {<<q, 1>> : q \in -1 .. 2}
MCPatternValue == [i \in Patterns |-> IF i % 2 = 0 THEN i ELSE -i]

SecondPly == {"d", "e", "f"}
ThirdPly == {"g", "h", "i"}
MCTurns ==
    [r |-> <<"a", "b", "c">>, a |-> <<"d", "e">>, b |-> <<"e", "f">>, c |-> <<"f", "d">>,
     d |-> <<"g", "h">>, e |-> <<"h", "i">>, f |-> <<"i", "g">>, g |-> <<>>, h |-> <<>>, i |-> <<>>]
MCEvaluations ==
    {[n \in DOMAIN MCTurns |-> IF n \in ThirdPly THEN x[n] ELSE IF n \in SecondPly THEN y[n]
                               ELSE IF n = "a" THEN 100 ELSE 0] :
        x \in [ThirdPly -> {-700, 0, 700}], y \in [SecondPly -> {-600, 100}]}
MCStatuses == {[n \in DOMAIN MCTurns |-> "quiet"]}

(* Positions of two games, with policies longer and shorter than the width,  *)
(* and one that sums to nearly one.                                          *)
Policy(parts, whole) == [parts |-> parts, of |-> whole]
MCRecords ==
    {[game |-> g, history |-> h, policy |-> Policy(<<1, 1, 2>>, 4),
      policyV2 |-> IF h = <<"b">> THEN Policy(<<40, 60>>, 101) ELSE Policy(<<1, 1, 2>>, 4),
      missing |-> 0, outcome |-> 1, player |-> Len(h) % 2, rest |-> "rest"] :
        g \in {0, 1}, h \in {<<"a">>, <<"b">>, <<"a", "b">>}}

NoSearch == NewSearch([n \in DOMAIN MCTurns |-> 0], [n \in DOMAIN MCTurns |-> "quiet"], 0)

BoardInit ==
    /\ part \in {"board", "search", "ring", "sampler", "graph"}
    /\ Init /\ RingInit /\ SamplerInit /\ GraphInit
    /\ IF part = "search" THEN SearchInit ELSE search = NoSearch

BoardNext ==
    /\ \/ part = "board" /\ Next /\ UNCHANGED <<search, ring, sampler, graph>>
       \/ part = "search" /\ SearchNext /\ UNCHANGED <<vars, ring, sampler, graph>>
       \/ part = "ring" /\ RingNext /\ UNCHANGED <<vars, search, sampler, graph>>
       \/ part = "sampler" /\ SampleBatch /\ UNCHANGED <<vars, search, ring, graph>>
       \/ part = "graph" /\ GraphNext /\ UNCHANGED <<vars, search, ring, sampler>>
       \/ part \in {"search", "graph"} /\ UNCHANGED <<vars, search, ring, sampler, graph>>
    /\ UNCHANGED part

BoardSpec == BoardInit /\ [][BoardNext]_<<vars, search, ring, sampler, graph, part>>
=============================================================================
