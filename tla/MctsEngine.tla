---------------------------- MODULE MctsEngine ----------------------------
(***************************************************************************)
(* The batched Monte Carlo tree search engine (hexgame-core/src/mcts.rs)   *)
(* behind its Python wrapper (hexgame-py/src/engine.rs, PyMCTSEngine).     *)
(*                                                                         *)
(* Abstractions.  A position is the sequence of the cells placed so far.   *)
(* Priors and PUCT scores are left out: a descent may take any child, so   *)
(* a batch is any sequence of leaves of the current tree.  Values are      *)
(* small integers.  Tensors, legal-move ordering and telemetry are left    *)
(* out.  The fields real, rtotal and ends of a node, and the variables     *)
(* issued and misapplied, are history: no guard reads them.                *)
(*                                                                         *)
(* A call that the engine or its wrapper refuses changes nothing and is    *)
(* not an action, except ReRootMissing.                                    *)
(***************************************************************************)
EXTENDS Integers, Sequences, FiniteSets, SequencesExt

CONSTANTS
    GameCells,       \* the cells of the board
    FirstCell,      \* where the first stone must go
    Wins,        \* the positions whose last stone completed a line
    Threatened,  \* the positions whose root moves are constrained
    Blocks,      \* the cells that answer a threat
    Values,      \* what the network may say of a leaf
    NumSims,     \* num_simulations
    BatchSize,   \* what the caller passes to select_leaves
    Starts       \* positions a game may start from

ASSUME EngineConstants ==
    /\ FirstCell \in GameCells
    /\ IsFiniteSet(GameCells)
    /\ Values \subseteq Int
    /\ NumSims \in Nat \ {0}
    /\ BatchSize \in Nat \ {0}
    /\ Starts \subseteq Seq(GameCells)

VARIABLES
    arena,       \* the nodes ever allocated
    root,        \* root_idx
    simsDone,    \* sims_done
    pending,     \* the leaves selected and not yet backpropagated
    rootGen,     \* root_generation
    lastInit,    \* last_root_init_generation, 0 for None
    batchGen,    \* batch_generation
    pendingGen,  \* pending_batch_generation, 0 for None
    snapshot,    \* the wrapper's root_snapshot: its generation, 0 for None
    lastBatch,   \* the wrapper's last_batch_generation, 0 for None
    issued,      \* history: the leaves each batch token was issued for
    misapplied   \* history: values were applied to leaves of another batch

engineVars == <<arena, root, simsDone, pending, rootGen, lastInit, batchGen,
                pendingGen, snapshot, lastBatch, issued, misapplied>>

-----------------------------------------------------------------------------
(* The game, as far as the search can tell. *)

Decided(pos) == pos \in Wins

Legal(pos) ==
    IF Decided(pos) THEN {} ELSE IF pos = <<>> THEN {FirstCell} ELSE GameCells \ ToSet(pos)

(* Only init_root constrains the moves under a threat. *)
RootLegal(pos) == IF pos \in Threatened THEN Legal(pos) \cap Blocks ELSE Legal(pos)

(* One stone opens, then two per turn. *)
Mover(n) == ((n + 1) \div 2) % 2

(* current_player: a winning stone does not pass the turn. *)
Player(pos) == Mover(IF Decided(pos) THEN Len(pos) - 1 ELSE Len(pos))

-----------------------------------------------------------------------------
(* The arena. *)

Node(pos, line) ==
    [pos |-> pos,      \* the moves that lead to the node
     line |-> line,    \* the nodes above it, then itself
     kids |-> {},      \* children_start .. children_start + children_count - 1
     visits |-> 0, total |-> 0,
     real |-> 0, rtotal |-> 0, ends |-> 0]

FreshArena(pos) == <<Node(pos, <<1>>)>>

Depth(i) == Len(arena[i].pos) - Len(arena[1].pos)

(* The search path from the root to node i. *)
Path(i) == SubSeq(arena[i].line, Depth(root) + 1, Len(arena[i].line))

Below(i) == Depth(i) >= Depth(root) /\ arena[i].line[Depth(root) + 1] = root

Parent(i) == arena[i].line[Len(arena[i].line) - 1]

(* The nodes a descent from the root can reach. *)
InTree(i) ==
    /\ Below(i)
    /\ \A j \in ToSet(Path(i)) \ {root} : j \in arena[Parent(j)].kids

(* Mutant: a descent may stop at a node that has children. *)
LeavesOrNot == {i \in DOMAIN arena : InTree(i)}

Leaves == {i \in DOMAIN arena : arena[i].kids = {} /\ InTree(i)}

(* expand_node: the children go to the end of the arena, and replace the     *)
(* children the node may have had.                                           *)
Expand(a, i, legal) ==
    LET moves == SetToSeq(legal)
        kid(k) == Node(Append(a[i].pos, moves[k]), Append(a[i].line, Len(a) + k))
    IN  IF legal = {} THEN a
        ELSE [a EXCEPT ![i].kids = Len(a) + 1 .. Len(a) + Len(moves)]
                \o [k \in 1 .. Len(moves) |-> kid(k)]

(* How many of the leaves have node i on their path. *)
Through(leaves, i) ==
    Cardinality({k \in DOMAIN leaves : i \in ToSet(Path(leaves[k]))})

AddVirtualLoss(a, leaves) ==
    [i \in DOMAIN a |->
        [a[i] EXCEPT !.visits = @ + Through(leaves, i),
                     !.total = @ - Through(leaves, i)]]

RemoveVirtualLoss(a, leaves) ==
    [i \in DOMAIN a |->
        [a[i] EXCEPT !.visits = @ - Through(leaves, i),
                     !.total = @ + Through(leaves, i)]]

(* One step of the walk from a leaf to the root: the sign of the value flips *)
(* when the walk crosses to a node of the other player.                      *)
BackUp(st, i) ==
    LET p == Player(st.arena[i].pos)
        v == IF p # st.player THEN -st.value ELSE st.value
    IN  [arena |-> [st.arena EXCEPT ![i].visits = @ + 1, ![i].total = @ + v],
         value |-> v,
         player |-> p]

(* One leaf of expand_and_backprop. *)
BackpropLeaf(a, leaf, value) ==
    LET pos == a[leaf].pos
        b == Expand(RemoveVirtualLoss(a, <<leaf>>), leaf, Legal(pos))
        v == IF Decided(pos) THEN 1 ELSE value
        up == FoldLeft(BackUp, [arena |-> b, value |-> v, player |-> Player(pos)],
                       Reverse(Path(leaf)))
    IN  up.arena

(* History: what the leaf should add to the nodes above it. *)
Account(a, leaf, value) ==
    LET v == IF Decided(a[leaf].pos) THEN 1 ELSE value
        sign(i) == IF Player(a[i].pos) = Player(a[leaf].pos) THEN 1 ELSE -1
    IN  [i \in DOMAIN a |->
            IF i \in ToSet(Path(leaf))
            THEN [a[i] EXCEPT !.real = @ + 1, !.rtotal = @ + sign(i) * v,
                              !.ends = @ + (IF i = leaf THEN 1 ELSE 0)]
            ELSE a[i]]

-----------------------------------------------------------------------------
(* The calls. *)

EngineInit ==
    /\ \E pos \in Starts : arena = FreshArena(pos)
    /\ root = 1
    /\ simsDone = 0
    /\ pending = <<>>
    /\ rootGen = 0
    /\ lastInit = 0
    /\ batchGen = 0
    /\ pendingGen = 0
    /\ snapshot = 0
    /\ lastBatch = 0
    /\ issued = <<>>
    /\ misapplied = FALSE

(* MCTSEngine(game, ...): what the worker builds when it does not reuse the  *)
(* tree.                                                                     *)
FreshEngine(pos) ==
    /\ arena' = FreshArena(pos)
    /\ root' = 1
    /\ simsDone' = 0
    /\ pending' = <<>>
    /\ rootGen' = 0
    /\ lastInit' = 0
    /\ batchGen' = 0
    /\ pendingGen' = 0
    /\ snapshot' = 0
    /\ lastBatch' = 0
    /\ issued' = <<>>
    /\ UNCHANGED misapplied

InitRoot ==
    /\ ~Decided(arena[root].pos)
    /\ rootGen' = rootGen + 1
    /\ lastInit' = rootGen + 1
    /\ snapshot' = rootGen + 1
    /\ UNCHANGED <<arena, root, simsDone, pending, batchGen, pendingGen,
                   lastBatch, issued, misapplied>>

(* The wrapper and the engine both check the token, and the wrapper drops    *)
(* its snapshot: an init_root is good for one expansion.                     *)
RootTokenValid(token) == token = snapshot /\ token = lastInit /\ token = rootGen /\ token # 0

ExpandRoot(token) ==
    /\ RootTokenValid(token)
    /\ arena' = Expand(arena, root, RootLegal(arena[root].pos))
    /\ snapshot' = 0
    /\ UNCHANGED <<root, simsDone, pending, rootGen, lastInit, batchGen,
                   pendingGen, lastBatch, issued, misapplied>>

(* saturating_sub: the budget left. *)
Least(m, n) == IF m < n THEN m ELSE n
BudgetLeft == IF simsDone < NumSims THEN NumSims - simsDone ELSE 0

BatchLimit == Least(BatchSize, BudgetLeft)

(* Mutant: an abandoned batch keeps its virtual loss. *)
SelectLeavesOverAbandoned(leaves) ==
    /\ Len(leaves) = BatchLimit
    /\ \A k \in DOMAIN leaves : leaves[k] \in Leaves
    /\ arena' = AddVirtualLoss(arena, leaves)
    /\ pending' = leaves
    /\ batchGen' = batchGen + 1
    /\ pendingGen' = IF leaves = <<>> THEN 0 ELSE batchGen + 1
    /\ lastBatch' = batchGen + 1
    /\ issued' = Append(issued, leaves)
    /\ UNCHANGED <<root, simsDone, rootGen, lastInit, snapshot, misapplied>>

(* An abandoned batch is rolled back before the next one is selected. *)
SelectLeaves(leaves) ==
    /\ Len(leaves) = BatchLimit
    /\ \A k \in DOMAIN leaves : leaves[k] \in Leaves
    /\ arena' = AddVirtualLoss(RemoveVirtualLoss(arena, pending), leaves)
    /\ pending' = leaves
    /\ batchGen' = batchGen + 1
    /\ pendingGen' = IF leaves = <<>> THEN 0 ELSE batchGen + 1
    /\ lastBatch' = batchGen + 1
    /\ issued' = Append(issued, leaves)
    /\ UNCHANGED <<root, simsDone, rootGen, lastInit, snapshot, misapplied>>

NonTerminal(leaves) == SelectSeq(leaves, LAMBDA i : ~Decided(arena[i].pos))

(* Mutant: any token is accepted while a batch is pending. *)
AnyBatchTokenValid(token) == pendingGen # 0 /\ token \in 1 .. batchGen

(* The engine and the wrapper each compare the token with their own record;  *)
(* no batch is pending after a backpropagation, a roll back or a re-rooting. *)
BatchTokenValid(token) == token = pendingGen /\ token = lastBatch /\ token # 0

(* value is what the network says of each leaf; terminal leaves ignore it.   *)
ExpandAndBackprop(token, value) ==
    LET one(a, k) == BackpropLeaf(a, pending[k], value[k])
        account(a, k) == Account(a, pending[k], value[k])
        order == [k \in DOMAIN pending |-> k]
    IN  /\ BatchTokenValid(token)
        /\ arena' = FoldLeft(account, FoldLeft(one, arena, order), order)
        /\ simsDone' = simsDone + Len(pending)
        /\ pending' = <<>>
        /\ pendingGen' = 0
        /\ lastBatch' = 0
        /\ misapplied' = (misapplied \/ issued[token] # pending)
        /\ UNCHANGED <<root, rootGen, lastInit, batchGen, snapshot, issued>>

(* Mutant: the simulation count survives the move. *)
ReRootKeepingCount(kid) ==
    /\ kid \in arena[root].kids
    /\ arena' = [RemoveVirtualLoss(arena, pending) EXCEPT
                    ![kid].kids = IF arena[kid].pos \in Threatened THEN {} ELSE @]
    /\ root' = kid
    /\ pending' = <<>>
    /\ pendingGen' = 0
    /\ rootGen' = rootGen + 1
    /\ lastInit' = 0
    /\ snapshot' = 0
    /\ lastBatch' = 0
    /\ UNCHANGED <<simsDone, batchGen, issued, misapplied>>

(* re_root rolls pending leaves back, moves the root to the child, drops its *)
(* unconstrained children under a threat, and waits for a new init_root.     *)
ReRoot(kid) ==
    /\ kid \in arena[root].kids
    /\ arena' = [RemoveVirtualLoss(arena, pending) EXCEPT
                    ![kid].kids = IF arena[kid].pos \in Threatened THEN {} ELSE @]
    /\ root' = kid
    /\ simsDone' = 0
    /\ pending' = <<>>
    /\ pendingGen' = 0
    /\ rootGen' = rootGen + 1
    /\ lastInit' = 0
    /\ snapshot' = 0
    /\ lastBatch' = 0
    /\ UNCHANGED <<batchGen, issued, misapplied>>

(* re_root with an action that is no child of the root fails, but only after *)
(* it has rolled the pending leaves back; the wrapper notices nothing.       *)
ReRootMissing ==
    /\ arena' = RemoveVirtualLoss(arena, pending)
    /\ pending' = <<>>
    /\ pendingGen' = 0
    /\ UNCHANGED <<root, simsDone, rootGen, lastInit, batchGen, snapshot,
                   lastBatch, issued, misapplied>>

Done == simsDone >= NumSims

-----------------------------------------------------------------------------
(* Properties of the engine, whoever calls it.                               *)

(* Whatever the order of selections, roll backs, re-rootings and             *)
(* backpropagations, a node's statistics are those of the simulations that   *)
(* went through it, each valued for the node's own player, and exactly one   *)
(* virtual loss per pending leaf below it.                                   *)
NodeStats ==
    \A i \in DOMAIN arena :
        LET inFlight == Through(pending, i)
        IN  /\ arena[i].visits = arena[i].real + inFlight
            /\ arena[i].total = arena[i].rtotal - inFlight

RealBelow(i) ==
    LET add(n, j) == n + arena[j].real
    IN  FoldLeft(add, 0, SetToSeq(arena[i].kids))

(* Below the root no visit is ever lost: every simulation through a node     *)
(* ended there or went on to one of its present children, also when the same *)
(* leaf is taken twice in a batch and expanded twice.                        *)
NoVisitLost ==
    \A i \in DOMAIN arena :
        InTree(i) /\ i # root => arena[i].real = arena[i].ends + RealBelow(i)

(* Network answers are only ever applied to the leaves they were computed    *)
(* for, whichever token the caller presents.                                 *)
StaleAnswersFail == ~misapplied

(* The selector's value of a child, from the player who chooses at i, times  *)
(* the child's visits.                                                       *)
Seen(i, child, total) ==
    IF Player(arena[child].pos) = Player(arena[i].pos) THEN total ELSE -total

(* A visit in flight never makes a branch look better to the selector than   *)
(* the simulations completed in it: virtual loss discourages.                *)
VirtualLossDiscourages ==
    \A i \in DOMAIN arena : \A c \in arena[i].kids :
        arena[c].real > 0 =>
            Seen(i, c, arena[c].total) * arena[c].real
                <= Seen(i, c, arena[c].rtotal) * arena[c].visits
=============================================================================
