# TLA+ specifications of Hexo-RL

Hexo-RL trains a neural network to play Hexo (six in a row on an infinite hex grid; the first player
places one stone, then both place two per turn) by self-play. This directory holds TLA+ models of the
parts of it that have state, concurrency or intricate data handling, TLC configurations that check them on
small instances, and TLAPS proofs of the properties that matter most. All paths below are relative to the
repository's root; `hexorl/` stands for `Python/src/hexorl/`.

## 1. Inventory

Who runs where: one **orchestrator** process (`hexorl/selfplay/orchestrator.py`) starts one **inference
server** process, a **collector** thread and N **worker** processes. A worker plays games with the Rust
**engine** (`crates/hexgame-core`, `crates/hexgame-py`), asks the server for evaluations through shared
memory, and sends finished games to the collector through a `multiprocessing.Queue`; the collector puts
them into the **replay buffer**, from which the **sampler** makes batches for the **trainer** when the epoch
is over. The **pipeline** runs epochs, a **supervisor** script runs many pipelines as trials and compares
them. All of them write to the **store** of the **dashboard**, where visitors also play and watch matches.

| Component | State | Operations | Hard behaviour | What makes it correct | Modules |
|---|---|---|---|---|---|
| Inference channel (`inference/client.py`, `server.py`, `shm_queue.py`) | per worker a slot: request and response arrays, count, mode, two one-byte events | submit in four kinds; drain, build, clear, forward, scatter, signal | shared memory without locks, timeouts, respawned clients, no request identity in the slot | a worker reads the evaluation of its own request; no request is lost; the server survives | `InferenceService`, `InferenceChannel` |
| Batch assembly (`server.py`) | slots' arrays, host batch | build, forward, scatter | calls of mixed kinds, optional outputs, left-overs of earlier calls | every row and column goes back to where it came from | `BatchLayout` |
| Server life, weight hot swap (`server.py`) | process, weight queue, model | start, stop, join, update_weights, poll | several updates queued, feeder thread, a process that is slow or fails | the newest weights win | `ServerLifecycle` |
| Search engine (`mcts.rs`, `engine.rs`) | arena, root, pending batch, generations of tokens | init_root, expand_root, select_leaves, expand_and_backprop, re_root | virtual loss and its roll back, a leaf twice in a batch, abandoned batches, stale tokens | statistics equal the simulations made; stale answers are refused; the budget holds | `MctsEngine`, `MctsCaller` |
| Self-play game (`worker.py`) | engine, move index, targets; pairs being scored | the stages of a move; fallbacks when a request fails; pair scoring in chunks | partial failure in every stage, subtree reuse, lists in two orders | targets count this search only; a game ends; every pair is scored once | `SelfPlayGame`, `GraphRows` |
| Worker loop, orchestrator, record queue | stop event, process table, queue, counters | spawn, monitor, respawn, put, collect, quota, stop | kills at any point, feeder threads, stop racing puts, torn pipes | records are neither lost nor doubled; the quota counts stored games; stop completes | `SelfPlayRun` |
| Board (`board.rs`, `core.rs`), threats (`threats.rs`), evaluation (`eval/*.rs`) | stones, turn, hash, candidate counts, undo records, window counts | place, unplace, load; winning turns, blocks | incremental state against recomputation | unplace restores everything; caches equal a recount; threats are exact | `HexCore`, `EvalState`, `HexBoard`, `Tactics` |
| Classical search (`search.rs`) | transposition table, killers, deadline | iterative deepening | narrow windows, entries of earlier iterations, aborts | finished iterations agree with minimax; table entries are bounds | `AlphaBeta` |
| Replay ring buffer (`buffer/ring.py`) | arrays, write position, game slots and their counts | append, extend, clear, records | wrap-around, histories shared by rows, slots used again | it holds the last records, each as it was stored | `ReplayWindow`, `RingBuffer` |
| Buffer process (`buffer/process.py`) | request queue, one pipe per call | append, sample, stop | timeouts, feeder threads, an exception ends the process | a caller samples from what it appended; samples are answered | `BufferProcess` |
| Regret buffer, RGSC (`regret_buffer.py`, `rgsc.py`) | ranked entries | admit, evict, restart, refresh | an index that is held across changes of the buffer | entries keep their places | `RegretRestarts` |
| Targets of a game (`buffer/targets.py`) | none | process_game_record | games that begin inside a turn or are cut short | lookahead and opponent targets belong to the right turn | `ReplayTargets` |
| Sampler, candidates (`buffer/sampler.py`, `action_contract/`) | two caches of encodings | a batch from records | twelve symmetries, tables of fixed width, caches that evict apart | every target comes home, or the row is not trained on | `ReplaySampler` |
| Graph batches (`graph/batch.py`) | none | build, pair rows, collate | padding, references by row | the same | `GraphRows` |
| Epoch pipeline (`epoch/pipeline.py`) | buffer, epoch | bootstrap, adopt or merge games, fill up, train | renumbering of game ids, late games, respawned workers | distinct games stay distinct | `ReplayEpochs` |
| Supervisor, rungs, schedules (`scripts/run_phase3_48h_autotune.py`, `tuning/asha.py`) | trials, stages, checkpoints, quarantined families | calibrate, halve, exploit, champion, final | deadlines between any two steps, checkpoint names that come round again | a trial trains on the weights it shows; quarantine holds; the last stages run | `TrialSupervisor` |
| Store and recorder (`dashboard/db.py`, `recorder.py`) | SQLite tables, `events.jsonl` | migrate, record | several processes open and migrate at once, die between statements | a version means all tables; what an event points to is there | `Telemetry` |
| Sessions, matches, model cache (`dashboard/play.py`, `arena_service.py`, `model_cache.py`, `app.py`) | rows, event lists, loaded models | HTTP handlers in threads, sockets, match threads | requests that overlap | what is stored is a game; a match is told in order; models are evicted | `PlayRoom` |
| Trainer, EMA (`train/trainer.py`, `ema.py`) | counters, optimiser, schedule, loss scale, averaged weights, prefetch thread | train_epoch, train_step, save, load | a thread that fetches ahead, loaders that end or fail, skipped steps, checkpoints of another moment | prefetching is invisible; the average is the mean of the steps made | `TrainingLoop` |
| Arena, league (`eval/arena.py`, `series.py`, `players.py`, `classical.py`, `checkpoint_league.py`) | one match, results | run_arena, players, hard prune | colours that alternate, players that keep a board of their own, players that fail | results name their winners; the opponent searches the position it was given | `ArenaMatch` |
| Tactical labels (`engine.rs`, `action_contract/tactical_oracle.py`, `eval/tactical_suite.py`) | none | two implementations of one oracle, marking a player | half turns, sets of windows | both call the same cells winning and forced | `TacticalOracle` |
| Networks, losses, Elo | tensors | sequential numerics | none a model checker reaches | | |
| Encoder, wire protocol | none | pure | only its centre and its legal moves matter to others | | in `ReplaySampler` |
| Configuration, command line, benchmarks | static | | | | |

`PROJECT.json` lists the same components with their files, their status and what is left out of each, and under
`hazards` every place in the code where something can go wrong that a test would hardly reach, with the properties
that would see it.

## 2. Plan

The order followed the damage a fault would do without anybody noticing it: first the inference channel with its
abstract service (the one protocol whose failure corrupts training data), then the engine, the game on top of
it, the run around it, the board with its evaluation and threat analysis; then everything between a finished
game and the trainer (ring, its process, targets, sampler, graph rows, epochs, restarts), the server's own life and
layout, the supervisor, the classical search, and what the dashboard writes and offers.

What the plan has left:

1. `AlphaBeta` with turns enough for late-move reductions; they are inexact by design, so that needs a weaker
   property than `SearchIsSound`.
2. The remaining token kinds of a graph batch, the axis policies, and the promotion loop of the league.

## 3. Modules

| Module | Models | Built on |
|---|---|---|
| `InferenceService` | what the channel promises: ask, be answered from the request asked, give up | |
| `InferenceChannel` | the shared-memory protocol, client and server | implements `InferenceService` |
| `InferenceChannelProofs` | theorems of the channel, of `ServerLifecycle` and of `BatchLayout` | |
| `BatchLayout` | rows and columns of a batch | |
| `ServerLifecycle` | the server as its owner sees it | |
| `MctsEngine` | `MCTSEngine` behind `PyMCTSEngine` | |
| `MctsCaller` | an arbitrary caller of the engine | `MctsEngine` |
| `SelfPlayGame` | `_play_one_game` | `MctsEngine` |
| `SelfPlayProofs` | theorems of the engine, the game, the restarts and the arena | |
| `SelfPlayRun` | orchestrator, worker loop, record queue, collector | |
| `ReplayWindow` | what a replay buffer promises: the last records, in order | |
| `RingBuffer` | `buffer/ring.py` | implements `ReplayWindow` |
| `ReplayEpochs` | `run_epoch` in the ways it is called | `RingBuffer` |
| `RingBufferProofs` | theorems of the replay buffer, of the epochs and of the sampler | |
| `BufferProcess` | `buffer/process.py` | |
| `RecordsProofs` | theorems of the run, of the buffer process and of a game's targets | |
| `ReplayTargets` | `process_game_record` | |
| `ReplaySampler` | `_sample_batch`, candidate and pair rows | `HexCore` |
| `GraphRows` | rows of graph batches, pair scoring of the worker | `ReplaySampler` |
| `RegretRestarts` | restarts from the regret buffer | |
| `TrainingLoop` | the trainer, its prefetch thread, average and checkpoints | |
| `TrialSupervisor` | the supervisor of the 48-hour run | |
| `TrainingLoopProofs` | theorems of the trainer and of the supervisor | |
| `ArenaMatch` | matches, players and what is concluded from them | |
| `Telemetry` | the store and the recorder | |
| `PlayRoom` | sessions, matches, the model cache | |
| `DashboardProofs` | theorems of both | |
| `HexCore`, `EvalState`, `HexBoard`, `Tactics`, `TacticalOracle` | the board, its threats, the tactical labels | each on the one before |
| `EvalStateProofs`, `HexBoardProofs` | theorems of the evaluation; of the board, its threats and labels | |
| `AlphaBeta` | `search.rs` | |
| `MCServices`, `MCAnswers`, `MCTraining`, `MCRecords`, `MCHexBoard` | instances that put parts side by side | |
| `MCMctsCaller`, `MCSelfPlayGame`, `MCReplaySampler`, `MCGraphRows`, `MCTrialSupervisor` | instances of one part, and the values of constants | |

A definition whose comment begins with "Mutant:" is no part of a model: it is the form a plausible bug would give
the definition after it, and shows that a property notices.

### InferenceChannel

A slot's fields are the variables `reqReady`, `resReady`, `payload`, `reqCount`, `reqMode`, `result`; the
tensors are replaced by the identity of the request they were written for, which the real slot does not
carry. `wpc` is the place of a worker in its call, `spc` that of the server in `_event_loop`. Every access to a
shared event and every read or write of an array is a step of its own, since nothing locks a slot. The order
matters and is the code's: a dense call writes tensor, then header, then rings; `submit_graph` writes the
header first; the server drains, builds *all* requests, clears *all* doorbells, runs the network, scatters,
and only then signals. `Impatient` workers may time out in `res_ready.wait`, `Mortal` ones may die anywhere
and be respawned onto the slot as it is (`connect` resets nothing). `gaveUp` remembers who ever did either.
`DrainSkip` clears a doorbell without positions and `DrainEnd` goes back to polling when nobody was taken;
both guards stand in the code, but no call rings with a count of zero, so the second never happens.

### BatchLayout, ServerLifecycle

`BatchLayout` takes the order of events from `InferenceChannel` and looks at the arrays: a call writes the first
`count` rows of its slot and leaves the others, sparse and pair calls set column counts that are taken back when the
call returns, and only then. A tensor row is `<<worker, call, row>>` and the model answers a row with itself, so a
row that lands elsewhere shows. A worker that times out leaves its counts in the slot. The model returns logits for
every row that has candidates; one that returns none would leave those of an earlier batch in the response
(`server.py:809`), of which the model says nothing.

`ServerLifecycle` is `start`, `stop`, `join` and `update_weights` with the spawned process around the event
loop; `start` returns when the child has told it that it serves, or gives up on it. The weight queue is what `multiprocessing.Queue` is, a buffer and a feeder thread in front of a pipe: `update_weights`
drops what it can get at, which may be less than there is. It has no caller in the repository.

### MctsEngine, MctsCaller

The arena is a sequence of nodes; a position is the sequence of its moves, and the rules are reduced to who
moves, what is legal, what wins and which root moves a threat leaves. PUCT is left out: a descent may take any
child at each step, so a batch is any sequence of leaves, the same leaf several times included, and what
holds here holds for every scoring rule, prior and noise. Tokens are modelled with both of their records, the
engine's and the wrapper's. History fields `real`, `rtotal`, `ends` keep the simulations a node really saw.
A refused call changes nothing and is not an action, with one exception: `re_root` with an unknown move rolls
the pending batch back before it fails (`ReRootMissing`).

### SelfPlayGame

`pc` is the stage of a move: `init` (head of the loop), `root` and `pairs` (root requests), `search`/`leaf` (one
batch), `pick` (targets are read and a move is taken). A request answers or raises. `cfg` is one of `Configs`:
global graph or dense model, pair priors, subtree reuse; a run takes all combinations as initial states.

### SelfPlayRun

A game is one step here. The queue is what `multiprocessing.Queue` is: a semaphore of places (`room`), a buffer
and feeder thread per process (`feeder`), a write lock (`writer`), a pipe. A killed process loses its feeder's
records, never returns their places, and leaves the lock and half a record behind if it was writing. `opc`,
`wpc` and `cpc` are the program counters of orchestrator, workers and collector. Faults (a game raises, a
process is killed, a record cannot be ingested) share the bound `MaxFaults`.

### HexBoard, EvalState, Tactics

`board` is a `HexGameState` as a record; its fields have the code's meaning, `zobrist` is the set of pieces
toggled in, a candidate map is a function whose domain are its keys, hot windows are sets. `set_position` and
`load_history` build a second board (`load.next`) entry by entry and replace the first one at the end or not
at all; `load` is their local state. `played` remembers that no `set_position` made the board: it lets a caller
choose the turn, so the turn order is only promised without it. `EvalState` and `Tactics` are functions of the
evaluation and of the board. The literals 5, 4 and 3 of lines of six are `WinLength` minus 1, 2 and 3 (a doc of
`ThreatCounts`, `state.rs:12`, calls the counts non-decreasing without undo; an opponent's stone in a window
lowers them). Orders of lists, and the cuts of the quiescence turns to 6, 8 and 16 entries, are left out.
The tactical properties do not reuse the threat windows: they try every turn and look for a line. A block with two
stones left and a single cell to put them on has no turn in the quiescence search, which `DefencesExact` excepts;
all other blocks have one.

### AlphaBeta

The functions of `search.rs` that search, as recursive operators over a game given as a constant: which turns the
generators offer where, what `tactical_status` says and the evaluation. `search` carries the table, the killers and
the node count; a step is one iteration of `iterative_deepening`, which the budget may abort at any node. The table
outlives an iteration, so what an aborted one stored is used by nobody but must still be true.

### RingBuffer, ReplayWindow, BufferProcess

`RingBuffer` keeps `_append_unlocked`'s order: the row that is overwritten lets go of its game slot first, which may
free the slot the new row then takes; a slot is shared by all rows of a game whose histories are prefixes of one
another and grows with the longest. A row is a record without its history. A policy is a list of parts of a whole: a
row keeps as many as fit, reading makes the dense policy a whole again, and the V2 policy where nothing of it is
missing and it sums to one within a hundredth. `ReplayWindow` is what the trainer may rely
on: the last `Capacity` records in order. `KeepsTheLast` is the refinement, with the window read the way `records()`
reads it. `BufferProcess` is the same buffer in a process of its own: each caller has a feeder thread, each sample a
pipe that its timeout closes; the loop has no exception handler, so a bad game and a closed pipe end the process.

### ReplayTargets, ReplaySampler, GraphRows

`ReplayTargets` plays games whose records begin at any ply, as restarts do, and computes the targets from the
records alone, as the code does; the properties count turns from the beginning of the game instead. Values are
whole numbers chosen so that the decay divides them.

`ReplaySampler` models `_sample_batch` for a dense model with sparse and pair heads: transform, look the encoding up in
the two caches, cut the policy to the square, build candidate rows, point pairs at them. A record whose policy has no
cells (the first file format) shows its policy of the square, turned about its centre. Probabilities are visit
counts; `whole` is what pair targets are divided by, which counts pairs that the batch has no row for (`sampler.py`
852-855). `GraphRows` models graph rows for both of their users, the worker that scores the pairs of a root or leaf
in chunks and hands priors to the engine (including the rows the engine refuses), and the sampler that trains on them;
the two lists of legal moves come in either order. A logit is the pair of cells the network was shown.

### ReplayEpochs, RegretRestarts, TrialSupervisor

`ReplayEpochs` is `run_epoch` called in the three ways the drivers call it: from the command line (one epoch on the
orchestrator's buffer), by the tuner and by the ablations (one buffer for all epochs, games renumbered). A record's
`rest` is its origin, which the code does not keep; the property compares it with the ids. `RegretRestarts` holds an
index across a game as `maybe_restart` does; a game without regret weight refreshes nothing. `TrialSupervisor` has one action for each call of `_train_trial_epoch`
with what follows it, and one for the passing of a stage's deadline; a runtime sweep that succeeds keeps its selection
even if the epoch then raises (`Selected`); a checkpoint path names the trial's directory and
the epoch, so two checkpoints may share one.

In `TrialSupervisor`, `Alike` is how many recipes of a family have the same heads, so that `Compatible` is an
equivalence of recipes as `compatible_key` makes it.

### TrainingLoop

One trainer and its callers: `pc` is the place in `train_epoch`, `fetcher` the iterator with its thread, queue and
place, `saved` the last checkpoint. Weights are a number that a step changes by a gradient; the average is an exact
fraction. The queue, the item being put, the batches used and the closing of the iterator are steps of their own. A
loader may end early, an item may raise, a step may be skipped because its gradients are not finite.

### ArenaMatch, TacticalOracle

`ArenaMatch` plays a series of one pairing; a step is one call of a side. The classical player's board is a state of
its own (`sides`) that is reset and replayed for every move; a model player makes a board for each call. Without the
extension a match is a mock that no rules govern. `matches` is what happened, by which the property judges the
statistics. `TacticalOracle` computes the labels of a position in both ways, from the hot windows the evaluation
keeps, and by scanning the stones, and compares both with every turn tried.

### Telemetry, PlayRoom

`Telemetry`: the statements of a migration commit one by one; a call of the recorder is the sequence of its
transactions (`Steps`), after each of which an error or a death may end it. `PlayRoom`: a session request reads in one
transaction and writes in another, so two of them overlap; a match's thread appends events that a socket sends in
rounds; in the model cache every statement is a step.

### MC modules that put parts side by side

`MCServices`, `MCAnswers`, `MCTraining`, `MCRecords` and `MCHexBoard` extend several components and add a
variable `part`: a behaviour is one of one part, the others stay as they begin. Nothing is gained or lost by this
against separate runs: the initial states choose the part, an invariant of one part is trivially true of the still
state of another, and the parts share no variable except where one module extends another (`ReplayEpochs` uses
`RingBuffer`, `SelfPlayGame` the engine).

## 4. Runs

| Run | Module | Properties |
|---|---|---|
| `services` | `MCServices` | `OwnAnswer`, `SlotsAreSafe`, `ServerSurvives`, `KeepsPromise`; `RowsComeBack`; `NewestWeightsWin`; `NodeStats`, `StaleAnswersFail`; `StoreIsWhole`; `ShowsGames`, `CacheAccounted`; `JudgedByItsGames` |
| `answers` | `MCAnswers` | liveness: `EveryRequestAnswered`, `SamplesAreAnswered`, `EpochEnds`, `StopCompletes` |
| `training` | `MCTraining` | `TargetsAreClean`, `NoVisitLost`, `GameProgress`; `PlacesAreStable`; `GamesStayDistinct`; `TargetsOfTheGame`; `QuarantineHolds`, `WeightsAreItsOwn`; `PrefetchIsIterator`, `AverageOfTheSteps` |
| `records` | `MCRecords` | `RecordsKept`, `NoWorkerOutlivesStop`; `ReadsItsAppends` |
| `board_rules` | `MCHexBoard` | `CandidatesExact`, `LegalMovesArePlayable`, `EvalMatchesStones`, `RulesHold`, `UndoRestores`, `ThreatsExact`; `SearchIsSound`; `SlotsCounted`, `KeepsTheLast`; `TargetsComeHome`; `GraphRowsExact` |
| `channel_stale` | `InferenceChannel` | **violated**: `NoStaleAnswer` |
| `engine_virtual_loss` | `MCMctsCaller` | **violated**: `VirtualLossDiscourages` |
| `game_targets` | `MCSelfPlayGame` | **violated**: `TargetsHoldNoVirtualLoss` |
| `game_survival` | `MCSelfPlayGame` | **violated**: `ReuseKeepsStatistics` |
| `run_drain` | `SelfPlayRun` | **violated**: `QueueDrainedAtClose` |
| `sampler_cache` | `MCReplaySampler` | **violated**: `SeesItsPosition` |
| `supervisor_stages` | `MCTrialSupervisor` | **violated**: `FinalStagesProtected` |

### Bounds, and why they are enough

* Channel (`services`): 2 workers, 1 or 2 positions, room for 3: batches that fit, overflow by one and leave a
  worker for the next round. One worker may time out and die, so stale doorbells and overwritten requests occur.
  Identities 0 and 1 suffice, the properties only compare with the latest; the proofs cover all other bounds.
  In `answers` 3 workers of a graph model and room for all three: with less room the code promises no answer.
* Layout: 2 workers, 2 rows, 2 columns, 3 calls: calls of all kinds in one batch, and a call after an abandoned one.
* Lifecycle: a queue of 2 and 4 updates, so that room is made and puts wait.
* Engine (`services`): 3 cells, batches of 2, budget 3 (the second batch is clamped), 3 tokens of each kind, at most 9
  nodes when an expansion starts. `training` plays games with budget 4: the second batch reaches below leaves of the
  first. 4 cells, 3 moves: games are won by either side, truncated, invalid or raised.
* Telemetry: 2 recorders, 2 tables, one call each, one loss, starting from a new store and from one whose first
  version had any part of the tables. Dashboard: 2 visitors, games of 3 stones, a match of at most 4, a cache for one
  model and 3 loads.
* Run (`records`): 2 workers, 2 games, a queue and pipes of 1, any 2 faults, a signal at any time; buffer process: 2 callers, 2
  calls each. `answers`: one worker and its successors, a queue and a pipe of 1 so that puts time out, one fault.
* Restarts: 2 entries, 3 games, 2 regrets: eviction, and a refresh of an entry that gave way. Epochs: 2 of them, 2 workers,
  one game and one crash each, 7 rows: eviction by synthetic games, ids that follow on. Targets: games from plies 0, 9 and 10
  (between two placements), won from ply 10 on. Supervisor: 2 families, 3 trials, one rung, 2 generations, one trouble; two recipes of a family
  have the same heads, so that an exploit finds a donor. Trainer: 2 batches an epoch from loaders with none, one and more than
  enough, with and without prefetching, mixed precision and schedule, 2 calls, one renewal, one error; the average
  warms up for 3 updates, and a loss scale that is halved once is zero.
* Arena: 3 games, so that each side has both colours and one of them twice, of at most 3 moves, in every pairing,
  with and without the extension. Tactical labels: the boards of the board instance.
* Board: lines of 4, radii 1 and 2, a grid of radius 1 that cuts off windows on every side, 7 stones on two
  crossing lines of four cells, loads of up to 4 stones: wins by play and by loading, undo of a win, threats that
  can be met by one stone, by two, or not at all, in both halves of a turn. A load starts from boards with one
  stone, as it reads nothing of the board it replaces.
* Classical search: a game of three turns with transpositions, 216 evaluations, five budgets from four nodes to
  no limit. Inner nodes have two turns, so late-move reductions and pruning never apply, and evaluations are
  closer than the futility margin: what is checked is exact by design, those cuts are not. Only quiet positions.
* Ring: 3 rows, 2 games, histories that agree, extend each other, and do not. Sampler: 6 records, all 12
  symmetries, from 2 to 4 candidate rows, so that tactical cells are cut off in one record and targets in another, and a
  third has five pairs for the four rows; batches of one and a cache of one entry, because what two caches do to each
  other is the subject of `sampler_cache`. Graph rows: chunks of 4 and 2, limits of 5, 7 and more than all, three
  symmetries, batches of two.

`CHECK_DEADLOCK FALSE` is set in `engine_virtual_loss`, `sampler_cache` and `supervisor_stages`: a library whose
arbitrary caller runs out of tokens, an iterator that has raised, a script that has ended. In the runs of several
parts a part that may stop has an explicit stuttering step, and the channel, the run and the game have none: they are
checked for deadlock.

### Fairness

`AnswersFairness` in `MCAnswers`. The channel: weak fairness of the server's next step (one loop, nothing in it waits
for a worker) and of every worker inside a call; a worker need not start a call. The buffer process: weak fairness of its loop, of
the feeder threads and of the timeouts. The run: weak fairness of the orchestrator, the collector, each worker and
each feeder thread (all are polling loops with timeouts or threads the operating system schedules), and strong
fairness of finishing a game, because a worker that plays on returns from `_play_one_game` with a record now and
then (`GameProgress` in `training` shows that every step brings a game nearer to its end, whatever fails).
Faults, kills and signals are never fair.

### What the violated runs say

* `channel_stale`: a slot has no request identity. After `TimeoutError` (`client.py:121`) the server still
  answers the old request; if that answer comes after the worker's next `res_ready.clear()` it is taken for the
  new one. The timeout is 30 s, and the game loop goes on after the error in dense mode.
* `engine_virtual_loss`: virtual loss lowers `total_value` from the node's own player. For a child of the
  other player the selector negates the value, so the pending visit makes the child look better.
* `game_targets`: a failed dense leaf request leaves the search with its batch pending, and the visit counts
  recorded as policy target include the virtual losses.
* `game_survival`: with `subtree_reuse` the loop still calls `init_root` and `expand_root` for every move, which
  replaces the children `re_root` kept. No statistics survive.
* `run_drain`: the collector leaves when it sees the stop event and an empty queue; a worker finishing at that
  moment still puts its record.
* `sampler_cache`: a hit in `_meta_cache` does not touch `_tensor_cache`, so the two evict different histories. A
  lookup that misses the first and hits the second returns offsets of the empty board and no legal moves with the
  tensor of a position centred elsewhere (`sampler.py:931`).
* `supervisor_stages`: when the deadline of stage 3B passes before a live trial has reached the rung, reporting it
  raises `ValueError`, and the champion and final stages, which the plan says to protect, never start.

### Met while modelling, without a run of their own

Self-play and search:
a respawned worker restarts `_game_counter`, so ids repeat within an epoch (`UniqueGameIds` excepts a respawn in
between; `records.py:158` calls the id unique); `re_root` is called with pending leaves after a failed dense
request, against its documented precondition; values change sign where the player changes, not "at every ply" as
`mcts.rs:19` says; a record put but not yet written is lost when its process is killed, although
`orchestrator.py:7` speaks of the game in progress only; `root_generation` of a batch is never compared; with two stones
to place `generate_threat_turns` never reaches its last branch, because a threat of either side makes the position not
quiet (`QuiescenceIsTactical`); with two stones left a block is played as a covering pair, or as a blocking
cell with another cell of the mask (`threats.rs:368-382`), and where all threats come down to one cell there is
neither: the stones lie `O X X X _ O` with lines of four, `O X X X X X _ O` with six, and `quiesce` returns the static
score of a position that is under attack, against "Quiescence resolves immediate threats" (`search.rs:638`; the proof of
`DefencesExact` came upon it, boards of the run's size are too small for it); `set_position` may set a turn its records contradict, so the history check of
`assert_consistent` would reject a stone placed after it; `quiesce` returns the stand-pat score
before it looks for a win or an unblockable loss, which the header of `search.rs` (10-15) says happens at every node;
`worker.py:1921` calls `self._encode_tensor_meta`, a method of the sampler that the worker does not have, so collecting
restart candidates from dense trees always fails (and is logged at debug level).

Pair scoring: with a graph model and the strategy `diagnostic_full_pair` the first move of a game raises
(`worker.py:1403`, `ValueError` at 147-148) and the game is given up, although
`SPEC_FIX_MATCH_GLOBAL_GRAPH_MODEL_20260428.md:901` says "opening positions have no pair loss and no pair prior;".

Replay and targets: `moves_left` (`targets.py:241`) subtracts a ply of the whole game from the number of rows, and
`game_length` (`records.py:160`) is that number, so both are wrong in games that were restarted
(`test_training_data_pipeline.py:421-422` only has games from the beginning); the regret of an entry is refreshed by its
index, which may be another entry's by then (`rgsc.py` docstring, lines 3-7); synthetic games that
`pipeline.py:127` adds are discarded when a run comes from the command line, because `replay` becomes the
orchestrator's buffer (149); graph pair training raises unless the search visited every legal pair (`sampler.py` 870-878);
`_pair_first_target_for_legal` credits only the first cell of an unordered pair; all callers build graphs with
`include_pair_rows=False`; the tokens of windows, lines, covers and components are not equivariant under the twelve
symmetries, against `SPEC_FIX_MATCH_GLOBAL_GRAPH_MODEL_20260428.md:721-728`.

Server and supervisor: `update_weights` has no caller, and its put may wait for ever once the process is gone
(`server.py:196`); `_promote_top_fraction`, with the floor of one trial per family that
`OVERNIGHT_PHASE3_AUTOTUNE_MONITOR_20260428.md:171` says ASHA promotions have, has no caller either; the final stage may list a checkpoint that was overwritten twice.

Trainer: `close` drains the queue once and then waits for the thread at most two seconds, and a thread that is putting
an item when the queue is full may stay blocked in a daemon thread, although `pipeline.py:5-7` promises to "avoid
daemon background state"; the comment that the average warms up in about 1000 steps is off, as the decay reaches
its limit after 9999; `get_ema_model` and `restore_training_weights` have no caller.

Evaluation: a failure of the *classical* player counts as a bad game of the checkpoint and prunes its trial; the
docstring of `run_arena` speaks of switching colours halfway, but they alternate; "-1 = draw (impossible in Hexo)" is
what a match of `max_moves` returns. The scanner of `tactical_oracle.py` calls a position unblockable where a
single cell is threatened and two stones are left, `scan_from_history` ignores how many are left, and the position
"two-placement cover" of the suite has no pair that covers, so any pair of a left and a right cell passes.

Dashboard: `play_sessions.current_player` is `len(history) % 2`, not the player of the 1-2-2 turns; of two overlapping
requests of a session one is lost; `unload` overlapping a load keeps a model for ever; the match socket skips events
that are appended while it sends; a match whose row cannot be written stays "running"; the second of two
processes that migrate a new store at once raises `IntegrityError`; `recorder.checkpoint` returns the id of an
event when indexing failed; `upsert_run` sets configuration, name and payload again on every event.

### What the properties leave out of their hazards

`RecordsKept` compares ids of one process (a respawned one starts over) and the quota of games, not of positions.
`GamesStayDistinct` is about buffers that outlive an epoch, not about the cli mode, where late games reach the buffer
that is trained on. `SamplesAreAnswered` is run without bad commands and timeouts. `PlacesAreStable` says how the
regret buffer may change during a game; that the remembered index names another entry by then it does not exclude.
`ShowsGames` is about what overlapping requests leave behind, of which one may be overwritten. `CacheAccounted` excepts
models lost to an unload that overlaps a load. `RowsComeBack` is about models with logits for every candidate.

## 5. Proofs

TLAPS checks them for every value of the constants under the assumptions named in the modules; TLC evaluates those
assumptions in the runs.

`InferenceChannelProofs`: any number of workers, every batch limit, all counts, both kinds of model and any set of
workers that time out or die.

* `TypeCorrect`: `Spec => []TypeOK`.
* `Invariant`: `Spec => []IInv`. `NoSlotRace`, `OwnAnswer` and `NoLostRequest` are not inductive: whether
  clearing w's doorbell is harmless depends on w still waiting with the very request that was built. `IInv` says,
  for each worker that never gave up, what its slot holds at each point of its call (`SlotOK`), how it and its
  doorbell stand to the server's batch at each point of the server's loop (`BatchOK`), and that it never
  waits for nothing (`WaitsForSomething`). It says nothing of a worker that gave up, which is why the others'
  faults cannot disturb it. There is one lemma per action, and under it one step per part.
* `OwnAnswerHolds`, `NoSlotRaceHolds`, `NoLostRequestHolds`, `SlotsAreSafeHolds`: corollaries.
* `Implements`: `Spec => Service!Spec` under the refinement mapping `PhaseOf`, `AnswerOf`; most steps stutter,
  `Signal` is the service's answer when its worker still waits. `KeepsPromise` is the same formula in the run.

Assumed: `ConstantsOK` only (counts fit in a batch, which `submit` checks; graph calls submit one position).

`ServerSurvivesHolds`: the server dies when the build counts more positions than the drain
allowed, and the two add the counts up separately, in shared memory, at different times. `Survival` says that there
are partial sums over the workers, in the order both loops visit them, which the drain has reached so far
(`Drained`) and which the build never exceeds (`Built`); `IInv` says that the counts do not change meanwhile. It
holds as long as nobody gave up a call, which is what the property says.

`NewestWeightsWinHolds`, of `ServerLifecycle`. `NewestWeightsWin` speaks of a serving process; the inductive
`LifecycleInvariant` says in every state that the newest of buffer, pipe and model, in this order, is the last update
sent, or the put is still waiting.

`RowsComeBackHolds`, of `BatchLayout`: any finite set of workers, any number of positions and columns, any calls before.
Two independent loops must agree: `_build_batch` appends the rows of the workers it drained, `_scatter_results` counts
an offset up. `OrderIs` says that every worker of a batch has one place in it, `FlattenIs` where the rows of sequences
laid one after the other begin, `RowsAreLaid` that this is the running offset. The property is not inductive, since it
speaks of answers; `LayoutInv` adds for a call that waits that its rows, candidate counts and pair counts are written,
over whatever an earlier call left in the slot. A recursive function is a `CHOOSE` for the prover; `RecursionExists`
shows by induction (`NatSetInduction`, over a set of numbers) that there is one to choose. Assumed: `LayoutOK`.

`HexBoardProofs`: every length of a line from 4 up, all radii, any offered cells, games of any length.

* `CandidatesExactHolds`: the maps are exact by themselves only if an undone stone is on the board, once; so the
  inductive `CacheInv` says that the records of the history name the stones, each once (`HistoryOK`), for the
  board and for the one being loaded. The work is in two lemmas about the reference counts: adding what one stone
  changes to an exact map gives an exact map (`CandidatesAfterPlace`), and so does taking it back
  (`CandidatesAfterUnplace`); both rest on `NearOneMore`.
* `TurnOrderHolds`, by `TurnInv`: every record holds the turn of its index, so an undo lands on it.
* `RulesHoldAlways`: that a game is won exactly when there is a line is not inductive, because an undo must know
  that the line goes with the stone it takes away. `RulesInv` adds that a board has no line without its last stone,
  and that every record was made while nobody had won. Lines and runs are joined by `RunsAround`: the runs to both sides of a stone are
  as long as the stones that lie there without a gap (a gap exists by a pigeonhole argument), so a run is long
  enough exactly when a line goes through the stone; `SegmentInRun` places the reported one in it.
* `LegalMovesArePlayableHolds`: from the exact maps and the rules.
* `EvalMatchesStonesHolds`, `UndoRestoresHolds`, by `EvalInv`: the evaluation is the recount of the stones, and the stack
  of differences holds what each stone of the history changed, in order. What one stone changes to indices, score,
  counts and hot windows is in `EvalStateProofs`, together with the sums over windows it needs
  (`EvalAfterPlace`, `EvalAfterUnplace`, `IndexIsPattern`).

* `WinningTurnsExactHolds`, `DefencesExactHolds`, `ThreatsExactHolds`, from `RulesInv` and `EvalInv`. A threat is a window of the plane with stones
  of one player only that lacks one or two cells (`ThreatWindowsAre`), and a turn makes a line exactly when it fills one
  (`WinsAreExact`). A turn leaves the opponent a win exactly when it misses one of his threats (`TurnLeavesWin`), since
  it adds no stone of his; so the blocking cells and pairs are the turns that meet all threats (`MeetsAll`). What a threat
  lacks is near a stone of it, hence legal (`MissingIsNear`, which needs `ReachOK`: a placement radius of at least two,
  8 in the code). For the labels: the base-three index of a window can be read digit by digit
  (`DigitOfTotal`, in `EvalStateProofs`), so the hot windows that the evaluation keeps are threats (`HotIs`), and a
  window through a cell is full but for it exactly when the runs on its two sides are long enough (`RunsMakeWindow`).

Assumed: `WinLengthOK`, `RadiiOK`, `GridOK`, and `ReachOK` for the threats.

`SelfPlayProofs`:

* `StaleAnswersFailHolds`, for an arbitrary caller, and `GameAnswersFit`, for the self-play loop. `TokenInv`: batches
  are numbered, each number stands for the leaves it was given out for, and the one that is pending is the newest.
* `GameProgressHolds`, the measure that makes a game finite: `Rank` is a number and every step lowers it, whatever
  fails. It needs `BudgetInv`, that simulations done and pending are within the budget of the stage.
* `NodeStatsHolds` and `GameStatsHold`, for an arbitrary caller and for the self-play loop, by `TreeInv`: every node's line
  is the way from the first node to it and every child's line is one longer (`TreeOK`), what is pending lies below the
  root (`Batch`), and visits and values are those of the simulations plus one virtual loss per pending leaf below
  the node (`Stats`). Because a node keeps its line, the tree is reasoned about without recursion: to be below a node is to
  have it on the line. The batch's walk up the tree is a fold; `WalkCounts` says what it leaves in every node, and
  `BatchAddsUp` that the virtual losses cancel over a whole batch.
* `NoVisitLostHolds` and `GameVisitsKept`, by `VisitInv`, which adds to `TreeInv`: visits are those that ended in a node
  and those of its children (`VisitsOK`), and what is pending has no children and hangs on a chain of children,
  except below the root, whose children `expand_root` may have replaced meanwhile (`PendingOK`).
* `TargetsAreCleanHolds`, by `CleanInv`. Within a game the root is expanded once per search, so its children hold exactly the
  simulations of this search (`SearchOK`); a search is cut short, or leaves something pending, only by what failed.
* `PlacesAreStableHolds`, by `RgscInvariant`. It needs that `Weakest` is well defined, that is that a non-empty list
  has a least entry in its order, which rests on the well-foundedness of the numbers (`LeastOf`).
* `JudgedByItsGamesHolds`, of `ArenaMatch`, by `ArenaInv`: a match in play is a legal game without a line, every result was
  right for its colours when it was appended, and the statistics count the results (`OneMoreResult`). The opponent
  sees the game because a legal game replayed on an empty board is itself and replayed once more changes nothing
  (`ReplayedOnce`, `ReplayedTwice`); the rating adds up because the colours part the results (`ColorsAddUp`).

Assumed of the engine: the constants' types and that a game's cells are finitely many (coordinates are 32 bits).
Of the game, for `TargetsAreClean` alone: `MovesRemain`, so a root that is opened gets children: the board, which has no edge, has
more cells than a game has moves, and where threats constrain the moves one is left (`tactical_mask_cells`, threats.rs:312,
sets no constraint when nothing helps, and otherwise names empty cells of a line that holds stones, which are legal).

`RecordsProofs`: any number of workers, games, kills, respawns and sizes of queue and pipe.

* `RecordsAreKept` and `NoWorkerIsLeft`, by `RunInvariant`. A record is in one of the places it can be in, and ids
  are taken in order; a worker that has been stopped is gone or the monitor has it. That the quota counts what is
  stored (`QuotaCountsStored`) is an invariant by itself (`QuotaHolds`).
* `ReadsItsAppendsHolds`, by `BufferInvariant`: what a caller appended is stored or on its way, counted per
  caller, and its live request comes last in what is on its way.
* `TargetsOfTheGameHolds`, any length and first ply of a game, horizon and decay. `TargetsInv`: the rows of a record are
  those of consecutive plies. The changes of the player up to a row are then counted by the turns since the first ply
  (`RankIs`, a bijection), so the start found by counting is the first ply of the turn that is meant
  (`StartAfterIs`). That the code's lookahead and the expected one agree (`LookaheadIs`) needs no induction: both are
  defined by recursion, and their two bodies are equal whatever function they are applied to. `NotFoundOK`: the code's
  `None` is no number.

`RingBufferProofs`: any capacity, records and games.

* `SlotsCountedHolds`. `RingInv` gives every slot one of two forms: rows refer to it, as many as it counts, and its
  game's list has it once; or none does and the free list has it. `DropFirst`, `Append` and the shortening of the free
  list keep that. That slots never outnumber rows is a pigeonhole argument (`RoomForOne`): while a row is free, so is a
  slot or the place for a new one.
* `KeepsTheLastHolds`, the refinement of `ReplayWindow`. `WindowInv`: the write position follows from the number of rows, the
  rows of the window are those between, and each reads back the record it was appended with. A release and a taking
  of a slot leave what all other rows read unchanged, since a shared slot only grows; so an append slides the window by
  one.
* `GamesStayDistinctHolds`, any workers, epochs, crashes and games. `EpochsInv` says what a game id of the buffer comes
  from: a synthetic game has the id it was made with, and played games are of earlier epochs until the merge, so those
  that join are none of them. Within an epoch `RawId` tells workers and games apart because a worker plays fewer games
  than its stride (`RawIdsDiffer`); new ids are places in the list of first appearances, all from `BaseId` on
  (`RenumberedApart`). It needs only what an append adds (`ExtendAdds`), not what the slots do.

* `TargetsComeHomeHolds`, any records of the worker, symmetries, caches, budgets and widths. The inductive part is small
  (`HasRows`: every row of a batch is `SampledRow` of a record, a symmetry, a width and an encoding that is either whole
  or only a cached tensor; `SamplerKeepsRows`); the rest says what such a row shows, whichever encoding it got. Policy: a
  symmetry permutes the cells (`TransformMoves`), the candidates begin with the cells that have visits, each once
  (`RowCandidates`), and those that the width cuts off are critical, so the row says so. Pairs: a pair is looked up in the
  record under both orders, and a symmetry neither merges nor splits pairs (`PairsComeBack`). Axis: a symmetry turns each
  axis into one axis in one of its senses (`AxesTurn`) and keeps the longest run along it (`RunsKeepLength`), so the
  label is the dominant axis of the moved line where only one axis has the longest run.

Assumed: `CapacityOK`, `WidthOK`, `OfferedOK`; of the sampler `SymmetriesOK`, `SizesOK` and `RecordsOK`, which says what the
worker records: a policy has a move once (it is a dict), an ordered pair is there once and its second cell was empty, and
the axis is that of the line. `RecordsOK` is used: were a policy to list a move twice, its row would show the sum of both,
and the record neither. TLC evaluates it on the records of `board_rules`. Of the epochs, `StrideOK` (2^24 games of a worker in an epoch),
`PlayWorkersOK` and `ReplayBoundsOK` (types).

`TrainingLoopProofs`:

* `PrefetchIsIteratorHolds`, by `LoopInvariant`: batches used, queue, item being put and the place of the thread are one
  run of the loader's iterator, so a trainer that waits gets an item, in order, without a gap.
* `AverageOfTheStepsHolds`: while the decay warms up, the average is the mean of the weights after every update, and the counters
  of optimiser, schedule and average move together, also in a checkpoint.
* `QuarantineHoldsAlways`. That no live trial is of a quarantined family is kept only because quarantine ends with
  calibration and prunes what it finds, new trials come from families that are not quarantined, and a trial
  neither changes its family nor comes back once it is pruned. The last part is `Later`, a relation of two states of
  the supervisor that is reflexive and transitive; every helper, from an epoch to an exploit, is shown to
  lead to a later state, so the actions need no proof of their own beyond the composition. `NthIsThere` says that the
  list of eligible families, by which new trials are made, has an entry in every place.

* `WeightsAreItsOwnHolds`, by `WeightsInv`. An heir goes on counting from its donor's epoch in its own directory, so
  names come round again and a checkpoint that somebody shows may be overwritten. `OwnInv` adds to the property that
  no trial is behind those who show a checkpoint of its directory, so what it saves next has a later name. Whether
  that lasts depends on who copies whom: before the search nobody does (`NoHeirsYet`), the candidates leave a rung
  with equally many epochs (`RungsInv`), and at the end of a generation trials that could copy each other have equally
  many epochs, or are two without heirs, and no heir is ahead of its kind (`GensInv`). Who is a donor is read off a
  ranking; `PlacesAre` (a finite ordered set has an n-th member for every n) says what a ranking is without
  recursion, and `Calm` and `LaterOne` what the helpers leave alone.

`DashboardProofs`:

* `StoreIsWholeHolds`, any processes, tables, calls and losses. The inductive invariant adds to the property, for each
  recorder, which transactions of its call are written and which are left (`Progress`), and that a store which is open
  has all tables (`Opened`).
* `CacheAccountedHolds` and `ShowsGamesHolds`, any board, games, visitors and models. Sessions: every row that is stored
  or about to be is a game with its status. Matches: what was told is the start, the moves and the verdict in that
  order (`Told`), and a spectator's events are in order because what is left of his round comes after what he has
  (`Behind`). Models: the property is inductive together with the types.

Only model-checked, and why:

* Liveness: `EveryRequestAnswered`, `SamplesAreAnswered`, `EpochEnds`, `StopCompletes` (fairness is out of the prover's reach).
* `SearchIsSound`: the search is recursive by nature, and so are `RECURSIVE` operators of the model.
* `GraphRowsExact`: a graph batch is put together by folds over states, moves and pairs and then padded and cut, and the
  property quantifies over whole batches. What a single fold computes was proved elsewhere one element at a time
  (`BatchFolds`, `SumOfOne`); for graph rows this has not been done.

## 6. Not modelled

Tensor contents, network numerics, losses: sequential numerics whose faults are not those of states and orders. PUCT
scores, priors, noise, temperatures and resignation: any choice is allowed instead. Elo arithmetic, confidence
bounds and the scorecard: statistics over match results. The sampling of recipes and schedules, host guards, timing
probes and reports of the supervisor. Axis policies and recall statistics: pure functions of a position. The tokens
of hot cells, windows, lines, covers and components of a graph, and its relations: no row refers to them. Byte formats
of records and of the wire. Telemetry's read side, pages and rendering of the dashboard. Configuration, command
line, benchmarks: static or drivers.

Where a component is `partly` modelled, `PROJECT.json` names what is left out of it.

## 7. Running

    tlc -workers 2 -config services.cfg MCServices
    tlc -workers 2 -config board_rules.cfg MCHexBoard
    tlapm TrainingLoopProofs.tla

Every `.cfg` belongs to the module section 4 names for it. The five passing runs take one to three minutes each.
