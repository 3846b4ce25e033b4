----------------------------- MODULE MCTraining -----------------------------
(* TLC instance of what turns games into networks: the games of a worker,    *)
(* the restarts it takes from its regret buffer, the epochs that fill and    *)
(* train on a replay buffer, the targets of a finished game, the trainer,    *)
(* and the supervisor that trains many networks. A behaviour is one of one part; the *)
(* others stay as they begin. All but the game may stop.                     *)
(* Game: a board of four cells; the second player wins with a and b on his   *)
(* first turn, otherwise the first player wins with the last stone.          *)
EXTENDS SelfPlayGame, RegretRestarts, ReplayEpochs, ReplayTargets, TrialSupervisor, TrainingLoop

VARIABLE part

MCCells == {"o", "a", "b", "c"}
MCWins == {<<"o", "a", "b">>, <<"o", "b", "a">>}
            \cup {pos \in [1 .. 4 -> MCCells] : pos[1] = "o" /\ ToSet(pos) = MCCells}
MCThreatened == {<<"o", "c">>}
MCBlocks == {"a"}
MCStarts == {<<"o">>}
MCConfigs == [graph : BOOLEAN, pairs : BOOLEAN, reuse : BOOLEAN]

MCGameIds == 0 .. 13
MCFamilies == <<"f", "g">>
MCResources == <<1>>
MCSetups ==
    {[prefetch |-> 1, amp |-> TRUE, scheduled |-> TRUE, smoke |-> FALSE],
     [prefetch |-> 0, amp |-> FALSE, scheduled |-> FALSE, smoke |-> FALSE], SmokeSetup}

MCGameSpans == {<<0, 4>>, <<9, 12>>, <<10, 13>>}

trainingVars == <<allVars, rgsc, ring, epochs, tg, sup, trainVars, part>>

TrainingInit ==
    /\ part \in {"game", "restarts", "epochs", "targets", "supervisor", "trainer"}
    /\ RgscInit /\ SupervisorInit
    /\ IF part = "trainer" THEN TrainInit ELSE TrainInit /\ setup = SmokeSetup
    /\ IF part = "targets" THEN TargetsInit ELSE tg = NewGame(0, 4, FALSE)
    /\ IF part = "game" THEN GameInit ELSE GameInit /\ cfg = [graph |-> FALSE, pairs |-> FALSE, reuse |-> FALSE]
    /\ EpochInit(IF part = "epochs" THEN {"cli", "tuner", "ablation"} ELSE {"cli"})

TrainingNext ==
    /\ \/ part = "game" /\ GameNext /\ UNCHANGED <<rgsc, ring, epochs, tg, sup, trainVars>>
       \/ part = "restarts" /\ RgscNext /\ UNCHANGED <<allVars, ring, epochs, tg, sup, trainVars>>
       \/ part = "epochs" /\ EpochNext /\ UNCHANGED <<allVars, rgsc, tg, sup, trainVars>>
       \/ part = "targets" /\ TargetsNext /\ UNCHANGED <<allVars, rgsc, ring, epochs, sup, trainVars>>
       \/ part = "supervisor" /\ SupervisorNext /\ UNCHANGED <<allVars, rgsc, ring, epochs, tg, trainVars>>
       \/ part = "trainer" /\ TrainNext /\ UNCHANGED <<allVars, rgsc, ring, epochs, tg, sup>>
       \/ part # "game" /\ UNCHANGED <<allVars, rgsc, ring, epochs, tg, sup, trainVars>>
    /\ UNCHANGED part

TrainingSpec == TrainingInit /\ [][TrainingNext]_trainingVars
=============================================================================
