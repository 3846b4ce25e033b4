---------------------------- MODULE ReplayEpochs ----------------------------
(* How epochs fill the replay buffer (epoch/pipeline.py run_epoch with the   *)
(* orchestrator's collector and the workers' game ids). The ring of          *)
(* RingBuffer is the replay buffer; staging is the buffer of the epoch's own *)
(* orchestrator. A run from the command line is one epoch without a buffer   *)
(* of its own and trains on the orchestrator's; the tuner and the ablations  *)
(* pass the same buffer to every epoch, and self-play games get new ids.     *)
EXTENDS RingBuffer

CONSTANTS
    PlayWorkers,   \* self-play worker processes, numbered
    Stride,        \* ids of a worker: 2^24
    Epochs,        \* epochs of a run (bound)
    GamesEach,     \* games a worker process completes in an epoch (bound)
    Crashes,       \* worker processes that die (bound)
    Bootstraps,    \* synthetic games a run starts with
    PliesMin,      \* positions of a synthetic game, at least: 6
    TrainBatch      \* positions the trainer needs

ASSUME StrideOK == Stride \in Nat /\ Stride > GamesEach
ASSUME PlayWorkersOK == PlayWorkers \subseteq Nat
ASSUME ReplayBoundsOK ==
    /\ {Epochs, GamesEach, Crashes, Bootstraps, TrainBatch} \subseteq Nat
    /\ PliesMin \in Nat \ {0}

(* The origin of a record stands for its targets. It tells games apart.      *)
Played(e, w, life, n) == [epoch |-> e, worker |-> w, life |-> life, number |-> n]
Synthetic(e, id) == [epoch |-> e, worker |-> -1, life |-> 0, number |-> id]

VARIABLE epochs

(* The two positions of a game: the second history extends the first.        *)
Certain == [parts |-> <<1>>, of |-> 1]
GameOf(id, origin) ==
    [k \in 1 .. 2 |-> [game |-> id, history |-> SubSeq(<<origin>>, 1, k - 1), policy |-> Certain,
                       policyV2 |-> Certain, missing |-> 0, outcome |-> 1, player |-> k - 1,
                       rest |-> origin]]

(* _game_id: the worker's number above the number of its game.               *)
RawId(w, n) == w * Stride + n

(* _make_bootstrap_positions. *)
BootstrapGames(e, first, n) ==
    FlattenSeq([k \in 1 .. n |-> GameOf(first + k - 1, Synthetic(e, first + k - 1))])

(* The games of the orchestrator's buffer get the ids after the newest one,  *)
(* in the order in which they first appear.                                  *)
FirstIds(recs) ==
    FoldLeft(LAMBDA ids, rec : IF \E k \in DOMAIN ids : ids[k] = rec.game
                               THEN ids ELSE Append(ids, rec.game), <<>>, recs)

(* Mutant: the first game gets the id of the newest one. *)
BaseIdReused == IF ring.size > 0 THEN ring.newest ELSE 0
BaseId == IF ring.size > 0 THEN ring.newest + 1 ELSE 0

Renumbered(recs) ==
    LET ids == FirstIds(recs)
    IN  [k \in DOMAIN recs |->
           [recs[k] EXCEPT !.game = BaseId + (CHOOSE j \in DOMAIN ids : ids[j] = @) - 1]]

------------------------------------------------------------------------------
EpochInit(modes) ==
    /\ ring = EmptyRing
    /\ \E mode \in modes :
          epochs = [mode |-> mode, epoch |-> 1, stage |-> "start", staging |-> EmptyRing,
                    count |-> [w \in PlayWorkers |-> 0], life |-> [w \in PlayWorkers |-> 1]]

(* The synthetic games of the first epoch; then the orchestrator is created, *)
(* with a buffer of its own and worker processes that count from 0.          *)
BeginEpoch ==
    /\ epochs.stage = "start"
    /\ ring' = IF epochs.epoch = 1 /\ epochs.mode # "tuner"
               THEN Extend(ring, BootstrapGames(1, 0, Bootstraps)) ELSE ring
    /\ epochs' = [epochs EXCEPT !.stage = "selfplay", !.staging = EmptyRing,
                                !.count = [w \in PlayWorkers |-> 0],
                                !.life = [w \in PlayWorkers |-> 1]]

NextGame(w) == GameOf(RawId(w, epochs.count[w]),
                      Played(epochs.epoch, w, epochs.life[w], epochs.count[w]))

(* A worker plays a game and the collector stores it.                        *)
StoreGame(w) ==
    /\ epochs.stage = "selfplay"
    /\ epochs.count[w] < GamesEach
    /\ epochs' = [epochs EXCEPT !.count[w] = @ + 1, !.staging = Extend(@, NextGame(w))]
    /\ UNCHANGED ring

(* A worker dies and the monitor starts it again: it counts from 0.          *)
WorkerRestarts(w) ==
    /\ epochs.stage = "selfplay"
    /\ epochs.count[w] > 0
    /\ epochs.life[w] <= Crashes
    /\ epochs' = [epochs EXCEPT !.count[w] = 0, !.life[w] = @ + 1]
    /\ UNCHANGED ring

(* The orchestrator has stopped. Without a buffer of its own the epoch goes  *)
(* on with the orchestrator's, else its games are appended under new ids.    *)
AdoptBuffer ==
    /\ epochs.stage = "selfplay"
    /\ epochs.mode = "cli"
    /\ ring' = epochs.staging
    /\ epochs' = [epochs EXCEPT !.stage = "fill"]

MergeGames ==
    /\ epochs.stage = "selfplay"
    /\ epochs.mode # "cli"
    /\ ring' = Extend(ring, Renumbered(StoredRecords(epochs.staging)))
    /\ epochs' = [epochs EXCEPT !.stage = "fill"]

(* A collector that outlived drain_timeout stores one more game: into the    *)
(* buffer that is trained on if that is the orchestrator's, else for nothing.*)
LateGame(w) ==
    /\ epochs.stage \in {"fill", "train"}
    /\ epochs.count[w] < GamesEach
    /\ ring' = IF epochs.mode = "cli" THEN Extend(ring, NextGame(w)) ELSE ring
    /\ epochs' = [epochs EXCEPT !.count[w] = @ + 1]

(* Too few positions for a batch: synthetic games make up for them.          *)
FillUp ==
    LET needed == TrainBatch - ring.size
    IN  /\ epochs.stage = "fill"
        /\ ring' = IF needed > 0
                   THEN Extend(ring, BootstrapGames(epochs.epoch, ring.newest + 1,
                                       Max({1, (needed + PliesMin - 1) \div PliesMin})))
                   ELSE ring
        /\ epochs' = [epochs EXCEPT !.stage = "train"]

(* train_epoch has read what it wants of the buffer; the next epoch, if any. *)
TrainEpoch ==
    /\ epochs.stage = "train"
    /\ epochs' = IF epochs.mode = "cli" \/ epochs.epoch = Epochs
                 THEN [epochs EXCEPT !.stage = "done"]
                 ELSE [epochs EXCEPT !.stage = "start", !.epoch = @ + 1]
    /\ UNCHANGED ring

EpochNext ==
    \/ BeginEpoch \/ AdoptBuffer \/ MergeGames \/ FillUp \/ TrainEpoch
    \/ \E w \in PlayWorkers : StoreGame(w) \/ WorkerRestarts(w) \/ LateGame(w)

EpochSpec(modes) == EpochInit(modes) /\ [][EpochNext]_<<ring, epochs>>

------------------------------------------------------------------------------
(* The life of a worker process is not in its ids: two of its games of equal *)
(* number are one game to the buffer. Otherwise, the games of all epochs,    *)
(* played or made up, have ids of their own in a buffer that outlives the    *)
(* epoch, however often games are renumbered and evicted.                    *)
SameGame(a, b) == [a EXCEPT !.life = 0] = [b EXCEPT !.life = 0]

GamesStayDistinct ==
    epochs.mode # "cli" =>
        LET recs == StoredRecords(ring)
        IN  \A i, j \in DOMAIN recs :
               recs[i].game = recs[j].game <=> SameGame(recs[i].rest, recs[j].rest)
=============================================================================
