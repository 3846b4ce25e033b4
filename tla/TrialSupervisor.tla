--------------------------- MODULE TrialSupervisor --------------------------
(* The 48-hour supervisor of scripts/run_phase3_48h_autotune.py: trials are  *)
(* calibrated (3A), halved by the rungs of tuning/asha.py (3B), copied from  *)
(* one another (3C), one of them is trained on (3D) and its last checkpoints *)
(* are compared (3E). Each stage has a deadline, which may pass between any  *)
(* two steps. A step is one call of _train_trial_epoch with what follows it. *)
EXTENDS Integers, Sequences, SequencesExt, FiniteSets

CONSTANTS
    Families,       \* the families of networks, a sequence of names
    AshaTrials,     \* max_active_trials
    Resources,      \* the epochs of the rungs, ascending
    PbtPopulation, Generations, Perturb,   \* of the schedule search
    MatureEpochs,   \* champion_min_epochs
    ChampionEpochs, \* epochs up to which the champion trains (bound)
    Alike,          \* recipes of a family that have the same heads
    Sweeps,         \* whether runtime_sweep_states is positive
    TrialScores,    \* scores of trials, as numbers
    Troubles        \* trials that fail on their own (bound)

ASSUME SupervisorOK ==
    /\ {AshaTrials, PbtPopulation, Generations, Perturb, MatureEpochs, ChampionEpochs, Troubles} \subseteq Nat
    /\ Alike \in Nat \ {0}
    /\ Families \in Seq(ToSet(Families)) /\ IsInjective(Families)
    /\ Families # <<>> /\ Resources \in Seq(Nat) \ {<<>>} /\ TrialScores \subseteq Nat /\ Sweeps \in BOOLEAN

VARIABLE sup

(* _create_trial. Weights are numbers, 0 is "no trainer"; recipe 0 is the    *)
(* recommended recipe of the family; the path of a checkpoint names the      *)
(* trial's directory and the epoch.                                          *)
NewTrial(kind, family, recipe) ==
    [kind |-> kind, family |-> family, recipe |-> recipe, epoch |-> 0, scored |-> FALSE, score |-> 0,
     pruned |-> FALSE, trainer |-> 0, replay |-> "full", path |-> <<>>, history |-> <<>>, swept |-> FALSE]

Live(s) == {i \in DOMAIN s.trials : ~s.trials[i].pruned}

(* _release_trial_runtime and the two assignments before every call of it.   *)
Prune(t) == [t EXCEPT !.pruned = TRUE, !.trainer = 0, !.replay = "one"]

PruneAll(s, who) == [s EXCEPT !.trials = [i \in DOMAIN @ |-> IF i \in who THEN Prune(@[i]) ELSE @[i]]]

(* _quarantine_family for a hard reason, with _prune_trials_for_family.      *)
Quarantine(s, f) == PruneAll([s EXCEPT !.blocked = @ \cup {f}], {i \in Live(s) : s.trials[i].family = f})

(* The members of a list that are in a set, in the order of the list. *)
Nth(places, n) == CHOOSE k \in places : Cardinality({j \in places : j < k}) = n - 1
Among(list, who) ==
    LET places == {k \in DOMAIN list : list[k] \in who}
    IN  [n \in 1..Cardinality(places) |-> list[Nth(places, n)]]

(* _eligible_families, in their order. *)
(* Mutant: quarantined families are not left out. *)
EligibleAll(s) == Families
Eligible(s) == Among(Families, ToSet(Families) \ s.blocked)

(* run_epoch: train_epoch counts from the trainer's own epoch, which is the  *)
(* trial's, and save_checkpoint writes epoch_%04d.pt of the trial's directory.*)
Trained(s, i) ==
    LET t == s.trials[i]
        e == IF t.trainer = 0 THEN 1 ELSE t.epoch + 1
        path == <<i, e>>
    IN  [s EXCEPT
          !.trials[i] = [t EXCEPT !.trainer = s.fresh, !.epoch = e, !.path = path,
                                  !.history = Append(@, path), !.swept = TRUE],
          !.disk = [p \in DOMAIN @ \cup {path} |-> IF p = path THEN s.fresh ELSE @[p]],
          !.cached = @ \cup {<<t.family, t.recipe>>}, !.fresh = @ + 1]

Swept(s, i) == ~Sweeps \/ s.trials[i].swept \/ <<s.trials[i].family, s.trials[i].recipe>> \in s.cached

(* A sweep that succeeds keeps what it selected, whatever the epoch comes to.*)
Selected(s, i) == [s EXCEPT !.cached = @ \cup {<<s.trials[i].family, s.trials[i].recipe>>}]

(* _train_trial_epoch with its runtime sweep: the results of one call for a  *)
(* trial that is not pruned. The sweep looks up the deadline of the stage it *)
(* is given, and the schedule search gives a name that has none (KeyError).  *)
(* It fails when every probe does, or at once when the deadline has passed;  *)
(* run_epoch may raise; and the metrics may give a reason to prune. hard     *)
(* marks the reasons for which calibration quarantines the family: a failed  *)
(* sweep, and some of the metrics.                                           *)
TrainTrial(s, i) ==
    LET result(t, h) == [s |-> t, hard |-> h]
        pruned(t) == PruneAll([t EXCEPT !.troubles = @ + 1], {i})
        reasons == IF s.troubles < Troubles THEN BOOLEAN ELSE {}
    IN  IF s.phase = "3C" /\ ~Swept(s, i)
        THEN {result([s EXCEPT !.phase = "failed"], FALSE)}
        ELSE {result(Trained(s, i), FALSE)}
             \cup {result(pruned(s), h) : h \in IF Swept(s, i) THEN {} ELSE reasons \ {FALSE}}
             \cup {result(pruned(Selected(s, i)), h) : h \in reasons \ {TRUE}}
             \cup {result(pruned(Trained(s, i)), h) : h \in reasons}

(* EvaluationServices.evaluate_trial gives a score of its own kind, and      *)
(* _hard_prune_reason may find a reason to prune in it.                      *)
Measured(s, i) == {[s EXCEPT !.trials[i].score = x, !.trials[i].scored = TRUE] : x \in TrialScores}
Rejected(s, i) == IF s.troubles < Troubles THEN {PruneAll([s EXCEPT !.troubles = @ + 1], {i})} ELSE {}

(* _evaluate_trial, forced: nothing without a checkpoint. What it finds now  *)
(* does not reach the quarantine of the family.                              *)
Evaluate(s, i) ==
    IF s.trials[i].pruned \/ s.trials[i].path = <<>> THEN {s} ELSE Measured(s, i) \cup Rejected(s, i)

(* _score_population gives the trials of a group scores relative to each     *)
(* other.                                                                    *)
Scored(s, group) ==
    LET who == {i \in ToSet(group) \cap Live(s) : s.trials[i].scored}
    IN  {[s EXCEPT !.trials = [i \in DOMAIN @ |-> IF i \in who THEN [@[i] EXCEPT !.score = z[i]] ELSE @[i]]] :
            z \in [who -> TrialScores]}

(* list.sort by falling score, which keeps equal trials in the order of the  *)
(* list: the n-th is the one that n - 1 of the others come before. A trial   *)
(* without a score counts as minus infinity.                                 *)
Ranked(s, who, list) ==
    LET value(i) == IF s.trials[i].scored THEN s.trials[i].score ELSE -1
        place(i) == CHOOSE k \in DOMAIN list : list[k] = i
        before(i, j) == value(i) > value(j) \/ (value(i) = value(j) /\ place(i) < place(j))
    IN  [n \in 1..Cardinality(who) |-> CHOOSE i \in who : Cardinality({j \in who : before(j, i)}) = n - 1]
AllTrials(s) == [i \in DOMAIN s.trials |-> i]

Enter(s, phase) == {[s EXCEPT !.phase = phase, !.open = o, !.group = <<>>, !.turn = <<>>, !.rung = 0] : o \in BOOLEAN}

SupervisorInit ==
    sup = [phase |-> "3A", open |-> TRUE, trials |-> <<>>, disk |-> <<>>, blocked |-> {}, cached |-> {},
           group |-> <<>>, turn |-> <<>>, rung |-> 0, left |-> 0, final |-> <<>>, fresh |-> 1, troubles |-> 0]

(* Time passes the deadline of the stage.                                    *)
Deadline == sup.phase \in {"3A", "3B", "3C", "3D", "3E"} /\ sup.open /\ sup' = [sup EXCEPT !.open = FALSE]

(* phase_3a_calibration: one epoch of each family. rung counts families.     *)
Calibrate ==
    /\ sup.phase = "3A" /\ sup.open /\ sup.rung < Len(Families)
    /\ LET f == Families[sup.rung + 1]
           s == [sup EXCEPT !.rung = @ + 1, !.trials = Append(@, NewTrial("cal", f, 0))]
           i == Len(s.trials)
       IN  \E r \in TrainTrial(s, i) :
              IF i \notin Live(r.s) THEN sup' = IF r.hard THEN Quarantine(r.s, f) ELSE r.s
              ELSE sup' \in Evaluate(r.s, i)

(* _generate_static_candidates: the recommended recipes of the eligible      *)
(* families, then sampled ones, family by family.                            *)
StaticCandidates(fs) ==
    [k \in 1..(IF fs = <<>> THEN 0 ELSE AshaTrials) |->
        NewTrial("asha", fs[1 + ((k - 1) % Len(fs))], (k - 1) \div Len(fs))]

(* phase_3b_static_asha, up to the first rung.                               *)
StartRungs ==
    /\ sup.phase = "3A" /\ (~sup.open \/ sup.rung = Len(Families))
    /\ LET new == StaticCandidates(Eligible(sup))
           group == [k \in DOMAIN new |-> Len(sup.trials) + k]
       IN  \E s \in Enter([sup EXCEPT !.trials = @ \o new], "3B") :
              sup' = [s EXCEPT !.group = group]

(* A rung or a generation begins, unless the stage is over.                  *)
StageOver == ~sup.open \/ sup.group = <<>> \/ sup.rung = (IF sup.phase = "3B" THEN Len(Resources) ELSE Generations)
StartRound ==
    /\ sup.phase \in {"3B", "3C"} /\ sup.turn = <<>> /\ ~StageOver
    /\ sup' = [sup EXCEPT !.turn = sup.group, !.rung = @ + 1, !.left = Perturb]

(* promoted_trials: the better half of the observations of a rung.           *)
Promoted(s, live) == ToSet(SubSeq(Ranked(s, live, s.group), 1, (Cardinality(live) + 1) \div 2))

(* _record_asha_rung and _apply_asha_decision: the table takes no observation*)
(* of a live trial that has not reached the rung (ValueError); who is not    *)
(* promoted is pruned.                                                       *)
RungEnd(s) ==
    LET live == ToSet(s.group) \cap Live(s)
        kept == Promoted(s, live)
    IN  IF \E i \in live : s.trials[i].epoch < Resources[s.rung]
        THEN [s EXCEPT !.phase = "failed"]
        ELSE [PruneAll(s, ToSet(s.group) \ kept) EXCEPT !.group = Among(@, kept)]

(* _clone_compatible_trial, for trials of one compatible_key: a new replay   *)
(* buffer and the donor's checkpoint.                                        *)
Compatible(t, u) == t.family = u.family /\ t.recipe \div Alike = u.recipe \div Alike
(* Mutant: the heir keeps its weights. *)
CloneUnloaded(s, donor, i) ==
    [s.trials[i] EXCEPT !.replay = "full", !.path = s.trials[donor].path, !.epoch = s.trials[donor].epoch]
Clone(s, donor, i) ==
    [s.trials[i] EXCEPT !.replay = "full", !.path = s.trials[donor].path, !.epoch = s.trials[donor].epoch,
                        !.trainer = IF @ = 0 THEN 0 ELSE s.disk[s.trials[donor].path]]

(* _compatible_donor: places in the leading quarter.                         *)
Donors(s, top, i) == {k \in DOMAIN top : Compatible(s.trials[top[k]], s.trials[i])}

(* _pb2_exploit_explore: the last quarter take over from the first of the    *)
(* leading quarter with the same networks and heads. (A donor of the family  *)
(* with other heads is found as well and then rejected.)                     *)
Exploit(s) ==
    LET ranked == Ranked(s, {i \in ToSet(s.group) \cap Live(s) : s.trials[i].scored}, s.group)
        n == Len(ranked)
        q == IF n < 8 THEN 1 ELSE n \div 4
        losers == {ranked[k] : k \in (n - q + 1)..n}
        donors(i) == Donors(s, SubSeq(ranked, 1, q), i)
        donor(i) == ranked[CHOOSE k \in donors(i) : \A j \in donors(i) : k <= j]
    IN  IF n < 2 THEN s
        ELSE [s EXCEPT !.trials = [i \in DOMAIN @ |->
                 IF i \in losers /\ donors(i) # {} THEN Clone(s, donor(i), i) ELSE @[i]]]

(* One epoch of the trial whose turn it is in phase_3b_static_asha or        *)
(* phase_3c_schedule_search, or its evaluation; the last trial of the round  *)
(* ends it.                                                                  *)
TrainTurn ==
    /\ sup.phase \in {"3B", "3C"} /\ sup.turn # <<>>
    /\ LET i == Head(sup.turn)
           t == sup.trials[i]
           more == IF sup.phase = "3B" THEN t.epoch < Resources[sup.rung] ELSE sup.left > 0
           next == [sup EXCEPT !.turn = Tail(@), !.left = Perturb]
       IN  IF more /\ ~t.pruned /\ sup.open
           THEN \E r \in TrainTrial([sup EXCEPT !.left = @ - 1], i) : sup' = r.s
           ELSE \E e \in Evaluate(next, i) :
                   IF e.turn # <<>> THEN sup' = e
                   ELSE \E s \in Scored(e, sup.group) :
                           sup' = IF sup.phase = "3B" THEN RungEnd(s) ELSE Exploit(s)

(* _seed_pbt_population: the best survivors of the rungs; without any, the   *)
(* calibrated trials and new ones of the families that follow.               *)
StartSearch ==
    /\ sup.phase = "3B" /\ sup.turn = <<>> /\ StageOver
    /\ LET fs == Eligible(sup)
           ready(t) == t.path # <<>> /\ t.family \notin sup.blocked
           who == {i \in Live(sup) : ready(sup.trials[i])}
           left == {i \in who : sup.trials[i].kind = "asha"}
           seen == Ranked(sup, IF left # {} THEN left ELSE who, AllTrials(sup))
           some == SubSeq(seen, 1, IF Len(seen) < PbtPopulation THEN Len(seen) ELSE PbtPopulation)
           want == IF left # {} THEN 0 ELSE IF Len(fs) < PbtPopulation THEN Len(fs) ELSE PbtPopulation
           new == [k \in 1..(want - Len(some)) |-> NewTrial("seed", fs[Len(some) + k], 0)]
       IN  \E s \in Enter([sup EXCEPT !.trials = @ \o new], "3C") :
              sup' = [s EXCEPT !.group = some \o [k \in DOMAIN new |-> Len(sup.trials) + k]]

(* phase_3d_champion: the best trial with enough epochs, or the best at all. *)
StartChampion ==
    /\ sup.phase = "3C" /\ sup.turn = <<>> /\ StageOver
    /\ LET some == {i \in Live(sup) : sup.trials[i].path # <<>>}
           mature == {i \in some : sup.trials[i].epoch >= MatureEpochs}
           from == Ranked(sup, IF mature # {} THEN mature ELSE some, AllTrials(sup))
       IN  \E s \in Enter(sup, "3D") : sup' = [s EXCEPT !.group = SubSeq(from, 1, IF from = <<>> THEN 0 ELSE 1)]

Champions == {i \in ToSet(sup.group) : i \in Live(sup)}
TrainChampion ==
    /\ sup.phase = "3D" /\ sup.open
    /\ \E i \in Champions :
          /\ sup.trials[i].epoch < ChampionEpochs
          /\ \E r \in TrainTrial(sup, i) :
                sup' \in IF r.s.trials[i].epoch % 2 = 0 THEN Evaluate(r.s, i) ELSE {r.s}

(* phase_3e_final: the last six checkpoints of the best live trial, as far   *)
(* as the time allows.                                                       *)
Final ==
    /\ sup.phase = "3D" /\ (~sup.open \/ Champions = {})
    /\ LET best == Ranked(sup, {i \in Live(sup) : sup.trials[i].history # <<>>}, AllTrials(sup))
           all == IF best = <<>> THEN <<>> ELSE sup.trials[best[1]].history
           last == SubSeq(all, IF Len(all) > 6 THEN Len(all) - 5 ELSE 1, Len(all))
       IN  \E n \in 0..Len(last) :
              sup' = [sup EXCEPT !.phase = "done", !.group = <<>>, !.final = SubSeq(last, 1, n)]

SupervisorNext ==
    \/ Deadline \/ Calibrate \/ StartRungs \/ StartRound \/ TrainTurn
    \/ StartSearch \/ StartChampion \/ TrainChampion \/ Final

SupervisorSpec == SupervisorInit /\ [][SupervisorNext]_sup

(* A family that calibration quarantined has no live trial in any stage.     *)
QuarantineHolds == \A i \in Live(sup) : sup.trials[i].family \notin sup.blocked

(* The weights a live trial trains on are those of the checkpoint that is    *)
(* evaluated in its name and given to its heirs: also after an exploit, and  *)
(* although names of checkpoints come round again when the epoch is set back.*)
TrainsWhatItShows ==
    \A i \in Live(sup) : sup.trials[i].trainer # 0 => sup.disk[sup.trials[i].path] = sup.trials[i].trainer

(* A trial only ever continues from weights of its own family and heads.     *)
HeirsFit ==
    \A i \in Live(sup) : sup.trials[i].path # <<>> => Compatible(sup.trials[sup.trials[i].path[1]], sup.trials[i])

(* A trial trains on the weights it shows, and they suit its network.        *)
WeightsAreItsOwn == TrainsWhatItShows /\ HeirsFit

(* "Protect Phase 3D and Phase 3E": a slow stage does not take the run down. *)
FinalStagesProtected == sup.phase # "failed"
=============================================================================
