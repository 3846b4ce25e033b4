--------------------------- MODULE SelfPlayGame ---------------------------
(***************************************************************************)
(* One self-play game: SelfPlayWorker._play_one_game driving the search    *)
(* engine through RealMCTSEngine (hexorl/selfplay/worker.py), with network *)
(* requests that may fail.                                                 *)
(*                                                                         *)
(* Abstractions.  A request either answers or raises; which values it      *)
(* answers with is arbitrary.  The move sampled is any child of the root.  *)
(* Root noise, targets other than the visit counts, and RGSC are left out. *)
(***************************************************************************)
EXTENDS MctsEngine

CONSTANTS
    Configs,       \* the configurations a game may run under
    MaxGameMoves   \* max_game_moves

(* graph: global_graph_enabled, a failed request ends the game; pairs: pair  *)
(* priors are requested after the root was expanded; reuse:                  *)
(* cfg.selfplay.subtree_reuse.                                               *)
ASSUME GameConstants ==
    /\ Configs \subseteq [graph : BOOLEAN, pairs : BOOLEAN, reuse : BOOLEAN]
    /\ MaxGameMoves \in Nat

(* A game never runs out of moves: the board has more cells than a game has  *)
(* moves, and a position that constrains its moves has one (threats.rs:      *)
(* tactical_mask_cells leaves the moves alone when nothing helps).           *)
ASSUME MovesRemain ==
    /\ MaxGameMoves <= Cardinality(GameCells)
    /\ \A pos \in Threatened : Legal(pos) # {} => Legal(pos) \cap Blocks # {}

VARIABLES
    cfg,       \* the worker's configuration
    pc,        \* where the game is
    moveIdx,   \* move_idx
    failed,    \* history: a leaf request failed in this search
    ranOut,    \* history: a batch had only terminal leaves in this search
    survived   \* history: the visits of the new root's children after re_root

gameVars == <<cfg, pc, moveIdx, failed, ranOut, survived>>
allVars == <<engineVars, gameVars>>

Ended == pc \in {"win", "truncated", "invalid", "raised"}

Visits(a, i) == [c \in a[i].kids |-> a[c].visits]

GameInit ==
    /\ EngineInit
    /\ cfg \in Configs
    /\ pc = "init"
    /\ moveIdx = Len(arena[1].pos)
    /\ failed = FALSE
    /\ ranOut = FALSE
    /\ survived = << >>

(* The head of the game loop: the move limit, then init_root, which yields   *)
(* nothing when the game is over.                                            *)
BeginMove ==
    /\ pc = "init"
    /\ moveIdx < MaxGameMoves
    /\ InitRoot
    /\ pc' = "root"
    /\ UNCHANGED <<cfg, moveIdx, failed, ranOut, survived>>

StopAtHead ==
    /\ pc = "init"
    /\ moveIdx >= MaxGameMoves \/ Decided(arena[root].pos)
    /\ pc' = "truncated"
    /\ UNCHANGED <<engineVars, cfg, moveIdx, failed, ranOut, survived>>

(* The root request answers, and the root is expanded. *)
RootAnswered ==
    /\ pc = "root"
    /\ ExpandRoot(rootGen)
    /\ pc' = IF cfg.pairs THEN "pairs" ELSE "search"
    /\ UNCHANGED <<cfg, moveIdx, failed, ranOut, survived>>

(* The pair priors of the root arrive and change no statistics. *)
PairsAnswered ==
    /\ pc = "pairs"
    /\ pc' = "search"
    /\ UNCHANGED <<engineVars, cfg, moveIdx, failed, ranOut, survived>>

(* A request of the root stage raises.  A graph game is given up; otherwise  *)
(* the handler expands the root uniformly, which the wrapper refuses when    *)
(* the root is expanded already: that error leaves _play_one_game.           *)
RootFails ==
    /\ pc \in {"root", "pairs"}
    /\ ~cfg.graph
    /\ RootTokenValid(rootGen)
    /\ ExpandRoot(rootGen)
    /\ pc' = "search"
    /\ UNCHANGED <<cfg, moveIdx, failed, ranOut, survived>>

RootFallbackRefused ==
    /\ pc \in {"root", "pairs"}
    /\ ~cfg.graph
    /\ ~RootTokenValid(rootGen)
    /\ pc' = "raised"
    /\ UNCHANGED <<engineVars, cfg, moveIdx, failed, ranOut, survived>>

GraphRootFails ==
    /\ pc \in {"root", "pairs"}
    /\ cfg.graph
    /\ pc' = "invalid"
    /\ UNCHANGED <<engineVars, cfg, moveIdx, failed, ranOut, survived>>

(* while not engine.done(): *)
SearchDone ==
    /\ pc = "search"
    /\ Done
    /\ pc' = "pick"
    /\ UNCHANGED <<engineVars, cfg, moveIdx, failed, ranOut, survived>>

Select ==
    /\ pc = "search"
    /\ ~Done
    /\ \E leaves \in TupleOf(Leaves, BatchLimit) : SelectLeaves(leaves)
    /\ pc' = "leaf"
    /\ UNCHANGED <<cfg, moveIdx, failed, ranOut, survived>>

(* A batch of terminal leaves needs no request, and ends the search. *)
OnlyTerminal ==
    /\ pc = "leaf"
    /\ NonTerminal(pending) = <<>>
    /\ \E value \in [DOMAIN pending -> {0}] : ExpandAndBackprop(batchGen, value)
    /\ ranOut' = TRUE
    /\ pc' = "pick"
    /\ UNCHANGED <<cfg, moveIdx, failed, survived>>

LeafAnswered ==
    /\ pc = "leaf"
    /\ NonTerminal(pending) # <<>>
    /\ \E value \in [DOMAIN pending -> Values] : ExpandAndBackprop(batchGen, value)
    /\ pc' = "search"
    /\ UNCHANGED <<cfg, moveIdx, failed, ranOut, survived>>

(* Mutant: the failed batch is tried again. *)
LeafFailsRetry ==
    /\ pc = "leaf"
    /\ NonTerminal(pending) # <<>>
    /\ failed' = TRUE
    /\ pc' = IF cfg.graph THEN "invalid" ELSE "search"
    /\ UNCHANGED <<engineVars, cfg, moveIdx, ranOut, survived>>

(* The request raises: a graph game is given up, another one leaves the      *)
(* search with the batch still pending.                                      *)
LeafFails ==
    /\ pc = "leaf"
    /\ NonTerminal(pending) # <<>>
    /\ failed' = TRUE
    /\ pc' = IF cfg.graph THEN "invalid" ELSE "pick"
    /\ UNCHANGED <<engineVars, cfg, moveIdx, ranOut, survived>>

(* The visit counts are recorded, a move is sampled, and the engine moves to *)
(* it: by re_root, or as a fresh engine on the new position.                 *)
Pick ==
    /\ pc = "pick"
    /\ \E kid \in arena[root].kids :
          /\ IF cfg.reuse THEN ReRoot(kid) ELSE FreshEngine(arena[kid].pos)
          /\ survived' = Visits(arena', root')
          /\ pc' = IF Decided(arena[kid].pos) THEN "win" ELSE "init"
    /\ moveIdx' = moveIdx + 1
    /\ failed' = FALSE
    /\ ranOut' = FALSE
    /\ UNCHANGED cfg

GameNext ==
    \/ BeginMove \/ StopAtHead \/ RootAnswered \/ PairsAnswered
    \/ RootFails \/ RootFallbackRefused \/ GraphRootFails
    \/ SearchDone \/ Select \/ OnlyTerminal \/ LeafAnswered \/ LeafFails \/ Pick
    \/ Ended /\ UNCHANGED allVars

GameSpec == GameInit /\ [][GameNext]_allVars

-----------------------------------------------------------------------------
(* Properties.                                                               *)

SearchVisits ==
    LET add(n, c) == n + arena[c].real
    IN  FoldLeft(add, 0, SetToSeq(arena[root].kids))

(* The visit counts recorded as policy target hold exactly the simulations   *)
(* of this search: the whole budget, unless a request failed or a batch had  *)
(* only terminal leaves; never a simulation of the previous move's search.   *)
TargetCountsThisSearch ==
    pc = "pick" =>
        /\ SearchVisits = simsDone
        /\ simsDone <= NumSims
        /\ ~failed /\ ~ranOut => simsDone = NumSims

(* The visit counts recorded hold completed simulations only. *)
TargetsHoldNoVirtualLoss ==
    pc = "pick" => \A c \in arena[root].kids : arena[c].visits = arena[c].real

(* What a leaf request that raises leaves behind, the virtual losses of its  *)
(* batch and the batch itself, reaches neither a policy target nor re_root,  *)
(* which is to be called without pending leaves: a search nothing failed in  *)
(* is clean, and a graph game with a failure records and re-roots nothing.   *)
FailureStaysInside ==
    pc = "pick" /\ (cfg.graph \/ ~failed) =>
        /\ pending = <<>>
        /\ \A c \in arena[root].kids : arena[c].visits = arena[c].real

(* What a policy target is made of: the simulations of its own search, and   *)
(* nothing that a failure left behind.                                       *)
TargetsAreClean == TargetCountsThisSearch /\ FailureStaysInside

(* With subtree reuse the search of a move starts from the children, and    *)
(* their visits, that survived re_root.                                      *)
ReuseKeepsStatistics ==
    cfg.reuse /\ pc = "search" =>
        \A c \in DOMAIN survived :
            c \in arena[root].kids /\ arena[c].visits >= survived[c]

(* What is left of the game: moves, then the stage and budget of the search. *)
Stage ==
    CASE pc = "init" -> 2 * NumSims + 6
      [] pc = "root" -> 2 * NumSims + 5
      [] pc = "pairs" -> 2 * NumSims + 4
      [] pc = "search" -> 2 * (NumSims - simsDone) + 3
      [] pc = "leaf" -> 2 * (NumSims - simsDone) + 2
      [] OTHER -> 1

MovesLeft == IF moveIdx < MaxGameMoves THEN MaxGameMoves - moveIdx ELSE 0

Rank == IF Ended THEN 0 ELSE MovesLeft * (2 * NumSims + 6) + Stage

(* Every step brings the game nearer to its end, whatever fails: no search   *)
(* and no retry can keep a worker in a game for ever.                        *)
GameProgress == [][Rank' >= 0 /\ Rank' < Rank]_allVars
=============================================================================
