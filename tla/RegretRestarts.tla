--------------------------- MODULE RegretRestarts ---------------------------
(* A worker's prioritized buffer of restart positions: the entries of        *)
(* buffer/regret_buffer.py, the service of selfplay/rgsc.py that owns them,  *)
(* and the places of worker.py where a game starts from an entry, offers     *)
(* nodes of its search tree as entries and, at its end, refreshes the entry  *)
(* it knows by index and offers its own best position.                       *)
EXTENDS Integers, Sequences, SequencesExt, FiniteSetsExt

CONSTANTS
    PrbCapacity,    \* entries of the buffer
    RestartHistories, \* move histories of positions, none of them empty
    Restorable,     \* those that replay to an open position before the cap
    Scores,         \* regrets and ranks, as numbers
    RgscGames,      \* games of the worker (bound)
    RgscSteps       \* steps of the buffer up to which tree nodes are offered (bound)

ASSUME RgscOK == /\ PrbCapacity \in Nat \ {0} /\ {RgscGames, RgscSteps} \subseteq Nat
                 /\ Restorable \subseteq RestartHistories /\ Scores \subseteq Nat

VARIABLE rgsc

(* What a game remembers of maybe_restart: the entry that was sampled, even  *)
(* when it could not be restored (used is FALSE then).                       *)
NoRestart == [index |-> 0, id |-> 0, used |-> FALSE]

RgscInit ==
    rgsc = [entries |-> <<>>, nextId |-> 1, step |-> 0, playing |-> FALSE, restart |-> NoRestart,
            games |-> 0]

(* add: append while there is room; then replace the entry of the lowest     *)
(* regret, of those the one sampled longest ago, if the new regret is higher.*)
Weakest(entries) ==
    CHOOSE i \in DOMAIN entries :
        \A j \in DOMAIN entries :
            \/ entries[i].regret < entries[j].regret
            \/ /\ entries[i].regret = entries[j].regret
               /\ \/ entries[i].sampled < entries[j].sampled
                  \/ entries[i].sampled = entries[j].sampled /\ i <= j

(* Mutant: the new entry goes to the end. *)
AddByMoving(b, new) ==
    LET entry == [history |-> new.history, regret |-> new.regret, rank |-> new.rank,
                  id |-> b.nextId, sampled |-> 0]
        w == Weakest(b.entries)
    IN  IF Len(b.entries) < PrbCapacity
        THEN [b EXCEPT !.step = @ + 1, !.entries = Append(@, entry), !.nextId = @ + 1]
        ELSE IF new.regret > b.entries[w].regret
        THEN [b EXCEPT !.step = @ + 1, !.entries = Append(RemoveAt(@, w), entry), !.nextId = @ + 1]
        ELSE [b EXCEPT !.step = @ + 1]

AddEntry(b, new) ==
    LET entry == [history |-> new.history, regret |-> new.regret, rank |-> new.rank,
                  id |-> b.nextId, sampled |-> 0]
        w == Weakest(b.entries)
    IN  IF Len(b.entries) < PrbCapacity
        THEN [b EXCEPT !.step = @ + 1, !.entries = Append(@, entry), !.nextId = @ + 1]
        ELSE IF new.regret > b.entries[w].regret
        THEN [b EXCEPT !.step = @ + 1, !.entries[w] = entry, !.nextId = @ + 1]
        ELSE [b EXCEPT !.step = @ + 1]

(* update_regret with ema_alpha = 1/2, on whole numbers.                     *)
Refresh(b, i, regret) ==
    IF i \in DOMAIN b.entries
    THEN [b EXCEPT !.step = @ + 1, !.entries[i].regret = (@ + regret) \div 2]
    ELSE b

------------------------------------------------------------------------------
(* maybe_restart: the service is asked before every game. It may not sample, *)
(* as it cannot when the buffer is empty.                                    *)
NotSampled ==
    /\ ~rgsc.playing /\ rgsc.games < RgscGames
    /\ rgsc' = [rgsc EXCEPT !.playing = TRUE, !.restart = NoRestart]

RestartFrom(i) ==
    /\ ~rgsc.playing /\ rgsc.games < RgscGames
    /\ rgsc' = [rgsc EXCEPT !.playing = TRUE, !.step = @ + 1, !.entries[i].sampled = rgsc.step + 1,
                            !.restart = [index |-> i, id |-> rgsc.entries[i].id,
                                         used |-> rgsc.entries[i].history \in Restorable]]

(* observe_tree_node_candidates, at a move: nodes whose score is positive.   *)
TreeCandidate(history, score) ==
    /\ rgsc.playing
    /\ rgsc.step < RgscSteps
    /\ score > 0
    /\ rgsc' = AddEntry(rgsc, [history |-> history, rank |-> score, regret |-> score])

(* observe_game. Positions up to one whose move has no value, and those of a *)
(* game cut short, carry no regret (targets.py). If the first one carries    *)
(* one, the entry is refreshed with it by its index; the best one with a     *)
(* regret and a history is offered: it was played from, so it can be         *)
(* restored, and after a restart the first one is among those it is best of. *)
GameObserved(first, weighted, best) ==
    LET fresh == IF weighted /\ rgsc.restart.index > 0
                 THEN Refresh(rgsc, rgsc.restart.index, first) ELSE rgsc
    IN  /\ rgsc.playing
        /\ weighted /\ rgsc.restart.used => first <= best.regret
        /\ rgsc' = [AddEntry(fresh, best) EXCEPT !.playing = FALSE, !.games = @ + 1]

(* A game none of whose positions carries a regret, and a game that raises.  *)
GameUnobserved ==
    /\ rgsc.playing
    /\ rgsc' = [rgsc EXCEPT !.playing = FALSE, !.games = @ + 1]

RgscNext ==
    \/ NotSampled \/ GameUnobserved
    \/ \E i \in DOMAIN rgsc.entries : RestartFrom(i)
    \/ \E history \in RestartHistories, score \in Scores :
          \/ TreeCandidate(history, score)
          \/ history \in Restorable /\ \E first \in Scores, weighted \in BOOLEAN :
                GameObserved(first, weighted, [history |-> history, regret |-> score, rank |-> score])

RgscSpec == RgscInit /\ [][RgscNext]_rgsc

------------------------------------------------------------------------------
(* A game holds an index across everything that is added while it is played, *)
(* so an entry must keep its place until it goes. It goes only for a new one,*)
(* out of a full buffer, and, unless a refresh comes first, only when it is  *)
(* the weakest and the new one is stronger.                                  *)
Stays(i) == rgsc'.entries[i].id = rgsc.entries[i].id
PlacesKept ==
    /\ Len(rgsc'.entries) >= Len(rgsc.entries)
    /\ \A i \in DOMAIN rgsc.entries :
          \/ Stays(i)
          \/ /\ Len(rgsc.entries) = PrbCapacity
             /\ rgsc'.entries[i].id = rgsc.nextId
             /\ rgsc'.playing => \A j \in DOMAIN rgsc.entries :
                                   /\ rgsc.entries[i].regret <= rgsc.entries[j].regret
                                   /\ rgsc.entries[i].regret < rgsc'.entries[i].regret
PlacesAreStable == [][PlacesKept]_rgsc
=============================================================================
