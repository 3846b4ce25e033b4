---------------------------- MODULE MctsCaller ----------------------------
(* An arbitrary caller of the search engine: it makes the calls in any       *)
(* order and may present any token it was ever given.                        *)
EXTENDS MctsEngine

CONSTANTS
    MaxTokens,   \* bound on the root and batch tokens issued
    MaxArena     \* bound on the nodes allocated

CallerNext ==
    \/ InitRoot /\ rootGen < MaxTokens
    \/ \E token \in 1 .. rootGen : ExpandRoot(token) /\ Len(arena) < MaxArena
    \/ batchGen < MaxTokens /\ \E leaves \in TupleOf(Leaves, BatchLimit) : SelectLeaves(leaves)
    \/ \E token \in 1 .. batchGen : \E value \in [DOMAIN pending -> Values] :
          ExpandAndBackprop(token, value) /\ Len(arena) < MaxArena
    \/ rootGen < MaxTokens /\ \E kid \in arena[root].kids : ReRoot(kid)
    \/ ReRootMissing

CallerSpec == EngineInit /\ [][CallerNext]_engineVars
=============================================================================
