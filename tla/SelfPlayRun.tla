---------------------------- MODULE SelfPlayRun ----------------------------
(***************************************************************************)
(* One self-play epoch: run_orchestrator and SelfPlayOrchestrator          *)
(* (hexorl/selfplay/orchestrator.py), the main loop of the workers         *)
(* (SelfPlayWorker.run in hexorl/selfplay/worker.py) and the               *)
(* multiprocessing.Queue that carries their game records to the collector. *)
(*                                                                         *)
(* Abstractions.  A game is one step that yields a record, nothing or an   *)
(* exception (SelfPlayGame models its inside).  A record is its worker,    *)
(* its game counter, and a serial number that is history.  The masks of    *)
(* _game_id, 8 bits of worker and 24 of counter, are out of the bounds.    *)
(* The quota on positions, RGSC and the telemetry are left out, and the    *)
(* inference server is InferenceChannel's.  The queue is modelled from     *)
(* how the library works: put takes a place and hands the record to a      *)
(* feeder thread of the putting process, which writes it to a pipe under   *)
(* a lock; get takes the record from the pipe and frees the place.         *)
(***************************************************************************)
EXTENDS Integers, Sequences, FiniteSets, SequencesExt

CONSTANTS
    PlayerCount,     \* cfg.selfplay.num_workers
    GamesPerEpoch,  \* cfg.selfplay.games_per_epoch
    QueueSize,      \* maxsize of the record queue
    PipeSize,       \* records the operating system's pipe can hold
    CrashLimit,     \* exceptions a worker survives
    MaxGames,       \* bound on the games finished
    MaxFaults,      \* bound on games that raise, processes killed, bad records
    Signals         \* TRUE when SIGINT or SIGTERM may arrive

ASSUME RunConstants ==
    /\ PlayerCount \in Nat \ {0}
    /\ GamesPerEpoch \in Nat
    /\ QueueSize \in Nat \ {0} /\ PipeSize \in Nat \ {0}
    /\ CrashLimit \in Nat
    /\ MaxGames \in Nat /\ MaxFaults \in Nat
    /\ Signals \in BOOLEAN

Players == 0 .. PlayerCount - 1
None == -1
Dead == -2

VARIABLES
    stopEvent,  \* _stop_event
    opc,        \* where the orchestrator is
    turn,        \* the worker its current loop is at
    ppc,        \* where each worker process is
    counter,    \* _game_counter
    crashes,    \* _crash_count
    hold,       \* the record a worker wants to put
    feeder,     \* records its feeder thread has not written yet
    writer,     \* the worker whose feeder holds the write lock, None, or Dead
    pipe,       \* records written
    room,       \* free places of the queue
    cpc,        \* where the collector thread is
    hand,       \* the record the collector is at
    stored,     \* the games in the replay buffer
    gamesDone,  \* _games_done
    made,       \* history: games finished
    life,       \* history: how often each worker was started
    accepted,   \* history: the records put
    raised,     \* history: games that raised
    killed,     \* history: the records of each kill that were lost with it
    bad         \* history: records whose ingestion raised

workerVars == <<ppc, counter, crashes, hold, made, raised, life>>
queueVars == <<feeder, writer, pipe, room, accepted>>
collectorVars == <<cpc, hand, stored, gamesDone, bad>>
orchVars == <<stopEvent, opc, turn>>
runVars == <<workerVars, queueVars, collectorVars, orchVars, killed>>

NoRecord == [by |-> None, id |-> 0, life |-> 0, no |-> 0]

InitAt(pc) ==
    /\ stopEvent = FALSE
    /\ opc = pc
    /\ turn = 0
    /\ ppc = [w \in Players |-> "absent"]
    /\ counter = [w \in Players |-> 0]
    /\ crashes = [w \in Players |-> 0]
    /\ hold = [w \in Players |-> NoRecord]
    /\ feeder = [w \in Players |-> <<>>]
    /\ writer = None
    /\ pipe = <<>>
    /\ room = QueueSize
    /\ cpc = "check"
    /\ hand = NoRecord
    /\ stored = <<>>
    /\ gamesDone = 0
    /\ made = 0
    /\ life = [w \in Players |-> 0]
    /\ accepted = {}
    /\ raised = 0
    /\ killed = <<>>
    /\ bad = {}

RunInit == InitAt("start")

MayFail == raised + Len(killed) + Cardinality(bad) < MaxFaults

Alive(w) == ppc[w] \notin {"absent", "gone"}

-----------------------------------------------------------------------------
(* A worker process: SelfPlayWorker.run.                                     *)

WorkerAt(w, pc) == ppc' = [ppc EXCEPT ![w] = pc]

BeginGame(w) ==
    /\ ppc[w] = "head"
    /\ ~stopEvent
    /\ WorkerAt(w, "playing")
    /\ UNCHANGED <<counter, crashes, hold, made, raised, life, queueVars, collectorVars, orchVars, killed>>

LeaveLoop(w) ==
    /\ ppc[w] = "head"
    /\ stopEvent
    /\ WorkerAt(w, "leaving")
    /\ UNCHANGED <<counter, crashes, hold, made, raised, life, queueVars, collectorVars, orchVars, killed>>

(* _play_one_game returns a record, which carries the id it began with. *)
FinishGame(w) ==
    /\ ppc[w] = "playing"
    /\ made < MaxGames
    /\ WorkerAt(w, "offer")
    /\ hold' = [hold EXCEPT ![w] = [by |-> w, id |-> counter[w], life |-> life[w], no |-> made + 1]]
    /\ made' = made + 1
    /\ UNCHANGED <<counter, crashes, raised, life, queueVars, collectorVars, orchVars, killed>>

(* It returns None, or no positions. *)
GameInvalid(w) ==
    /\ ppc[w] = "playing"
    /\ WorkerAt(w, "head")
    /\ UNCHANGED <<counter, crashes, hold, made, raised, life, queueVars, collectorVars, orchVars, killed>>

(* It raises, for instance because the inference server does not answer.     *)
GameRaises(w) ==
    /\ ppc[w] = "playing"
    /\ MayFail
    /\ raised' = raised + 1
    /\ crashes' = [crashes EXCEPT ![w] = @ + 1]
    /\ WorkerAt(w, IF crashes[w] + 1 > CrashLimit THEN "leaving" ELSE "head")
    /\ UNCHANGED <<counter, hold, made, life, queueVars, collectorVars, orchVars, killed>>

(* The loop around put: after a stop the record is dropped.                  *)
Offer(w) ==
    /\ ppc[w] = "offer"
    /\ ~stopEvent
    /\ WorkerAt(w, "put")
    /\ UNCHANGED <<counter, crashes, hold, made, raised, life, queueVars, collectorVars, orchVars, killed>>

DropRecord(w) ==
    /\ ppc[w] = "offer"
    /\ stopEvent
    /\ WorkerAt(w, "head")
    /\ counter' = [counter EXCEPT ![w] = @ + 1]
    /\ hold' = [hold EXCEPT ![w] = NoRecord]
    /\ UNCHANGED <<crashes, made, raised, life, queueVars, collectorVars, orchVars, killed>>

Put(w) ==
    /\ ppc[w] = "put"
    /\ room > 0
    /\ room' = room - 1
    /\ feeder' = [feeder EXCEPT ![w] = Append(@, hold[w])]
    /\ accepted' = accepted \cup {hold[w]}
    /\ WorkerAt(w, "head")
    /\ counter' = [counter EXCEPT ![w] = @ + 1]
    /\ hold' = [hold EXCEPT ![w] = NoRecord]
    /\ UNCHANGED <<crashes, made, raised, life, writer, pipe, collectorVars, orchVars, killed>>

(* put times out with queue.Full. *)
PutFull(w) ==
    /\ ppc[w] = "put"
    /\ room = 0
    /\ WorkerAt(w, "offer")
    /\ UNCHANGED <<counter, crashes, hold, made, raised, life, queueVars, collectorVars, orchVars, killed>>

(* The process ends once its feeder thread has written everything.           *)
Exit(w) ==
    /\ ppc[w] = "leaving"
    /\ feeder[w] = <<>>
    /\ WorkerAt(w, "gone")
    /\ UNCHANGED <<counter, crashes, hold, made, raised, life, queueVars, collectorVars, orchVars, killed>>

BeginWrite(w) ==
    /\ Alive(w)
    /\ writer = None
    /\ feeder[w] # <<>>
    /\ writer' = w
    /\ UNCHANGED <<feeder, pipe, room, accepted, workerVars, collectorVars, orchVars, killed>>

EndWrite(w) ==
    /\ Alive(w)
    /\ writer = w
    /\ Len(pipe) < PipeSize
    /\ pipe' = Append(pipe, Head(feeder[w]))
    /\ feeder' = [feeder EXCEPT ![w] = Tail(@)]
    /\ writer' = None
    /\ UNCHANGED <<room, accepted, workerVars, collectorVars, orchVars, killed>>

(* A killed process takes its feeder's records with it; their places stay    *)
(* taken, and so does the write lock if it held it, with part of a record in *)
(* the pipe.                                                                 *)
Vanish(w) ==
    /\ Alive(w)
    /\ WorkerAt(w, "gone")
    /\ feeder' = [feeder EXCEPT ![w] = <<>>]
    /\ writer' = IF writer = w THEN Dead ELSE writer
    /\ killed' = Append(killed, feeder[w])
    /\ UNCHANGED <<counter, crashes, hold, made, raised, life, pipe, room, accepted, collectorVars>>

(* Out of memory, a fault in native code, kill -9. *)
Killed(w) ==
    /\ MayFail
    /\ Vanish(w)
    /\ UNCHANGED orchVars

-----------------------------------------------------------------------------
(* The collector thread: _collect_records and _ingest_game.                  *)

(* empty() looks for bytes in the pipe; those of a record that is being      *)
(* written may or may not be there.                                          *)
CollectorLeaves ==
    /\ cpc = "check"
    /\ stopEvent
    /\ pipe = <<>>
    /\ cpc' = "exited"
    /\ UNCHANGED <<hand, stored, gamesDone, bad, workerVars, queueVars, orchVars, killed>>

CollectorGoesOn ==
    /\ cpc = "check"
    /\ ~stopEvent \/ pipe # <<>> \/ writer # None
    /\ cpc' = "get"
    /\ UNCHANGED <<hand, stored, gamesDone, bad, workerVars, queueVars, orchVars, killed>>

GetTimesOut ==
    /\ cpc = "get"
    /\ pipe = <<>>
    /\ cpc' = "check"
    /\ UNCHANGED <<hand, stored, gamesDone, bad, workerVars, queueVars, orchVars, killed>>

(* The first bytes of a record are there: get reads on until it is whole.    *)
GetPartial ==
    /\ cpc = "get"
    /\ pipe = <<>>
    /\ writer # None
    /\ cpc' = "reading"
    /\ UNCHANGED <<hand, stored, gamesDone, bad, workerVars, queueVars, orchVars, killed>>

Get ==
    /\ cpc \in {"get", "reading"}
    /\ pipe # <<>>
    /\ hand' = Head(pipe)
    /\ pipe' = Tail(pipe)
    /\ room' = room + 1
    /\ cpc' = "ingest"
    /\ UNCHANGED <<stored, gamesDone, bad, feeder, writer, accepted, workerVars, orchVars, killed>>

(* buffer.extend, then the count; an exception skips the rest of the record. *)
StoreGame ==
    /\ cpc = "ingest"
    /\ stored' = Append(stored, hand)
    /\ cpc' = "count"
    /\ UNCHANGED <<hand, gamesDone, bad, workerVars, queueVars, orchVars, killed>>

IngestRaises ==
    /\ cpc = "ingest"
    /\ MayFail
    /\ bad' = bad \cup {hand}
    /\ hand' = NoRecord
    /\ cpc' = "check"
    /\ UNCHANGED <<stored, gamesDone, workerVars, queueVars, orchVars, killed>>

(* Mutant: a record that waits behind the ingested one is lost. *)
CountGameAndFlush ==
    /\ cpc = "count"
    /\ gamesDone' = gamesDone + 1
    /\ hand' = NoRecord
    /\ pipe' = <<>>
    /\ cpc' = "check"
    /\ UNCHANGED <<stored, bad, feeder, writer, room, accepted, workerVars, orchVars, killed>>

CountGame ==
    /\ cpc = "count"
    /\ gamesDone' = gamesDone + 1
    /\ hand' = NoRecord
    /\ cpc' = "check"
    /\ UNCHANGED <<stored, bad, workerVars, queueVars, orchVars, killed>>

-----------------------------------------------------------------------------
(* The orchestrator: run_orchestrator, start, _monitor_workers and stop.     *)

(* A new SelfPlayWorker starts counting its games and its crashes anew.      *)
Fresh(w) ==
    /\ WorkerAt(w, "head")
    /\ counter' = [counter EXCEPT ![w] = 0]
    /\ crashes' = [crashes EXCEPT ![w] = 0]
    /\ hold' = [hold EXCEPT ![w] = NoRecord]
    /\ life' = [life EXCEPT ![w] = @ + 1]
    /\ UNCHANGED <<made, raised>>

SpawnWorker ==
    /\ opc = "start"
    /\ turn < PlayerCount
    /\ Fresh(turn)
    /\ turn' = turn + 1
    /\ UNCHANGED <<stopEvent, opc, queueVars, collectorVars, killed>>

(* The head of the monitoring loop; the first time, start() has returned.    *)
Watch ==
    /\ \/ opc = "start" /\ turn = PlayerCount
       \/ opc = "watch"
    /\ opc' = IF stopEvent THEN "stop" ELSE "monitor"
    /\ turn' = 0
    /\ UNCHANGED <<stopEvent, workerVars, queueVars, collectorVars, killed>>

(* Mutant: the monitor leaves a dead worker dead. *)
MonitorWithoutRespawn ==
    /\ opc = "monitor"
    /\ turn < PlayerCount
    /\ UNCHANGED workerVars
    /\ turn' = turn + 1
    /\ UNCHANGED <<stopEvent, opc, queueVars, collectorVars, killed>>

(* One round of _monitor_workers: a dead worker is replaced, also when a     *)
(* stop was requested meanwhile.                                             *)
Monitor ==
    /\ opc = "monitor"
    /\ turn < PlayerCount
    /\ IF Alive(turn) THEN UNCHANGED workerVars ELSE Fresh(turn)
    /\ turn' = turn + 1
    /\ UNCHANGED <<stopEvent, opc, queueVars, collectorVars, killed>>

EpochComplete == GamesPerEpoch <= 0 \/ gamesDone >= GamesPerEpoch

CheckEpoch ==
    /\ opc = "monitor"
    /\ turn = PlayerCount
    /\ opc' = IF EpochComplete THEN "stop" ELSE "watch"
    /\ UNCHANGED <<stopEvent, turn, workerVars, queueVars, collectorVars, killed>>

BeginStop ==
    /\ opc = "stop"
    /\ stopEvent' = TRUE
    /\ opc' = "join"
    /\ turn' = 0
    /\ UNCHANGED <<workerVars, queueVars, collectorVars, killed>>

WorkerJoined ==
    /\ opc = "join"
    /\ turn < PlayerCount
    /\ ~Alive(turn)
    /\ turn' = turn + 1
    /\ UNCHANGED <<stopEvent, opc, workerVars, queueVars, collectorVars, killed>>

(* Mutant: a worker that does not leave in time is left behind. *)
WorkerLeftBehind ==
    /\ opc = "join"
    /\ turn < PlayerCount
    /\ Alive(turn)
    /\ turn' = turn + 1
    /\ UNCHANGED <<stopEvent, opc, workerVars, queueVars, collectorVars, killed>>

(* join(2 s) times out: terminate. *)
WorkerTerminated ==
    /\ opc = "join"
    /\ turn < PlayerCount
    /\ Vanish(turn)
    /\ turn' = turn + 1
    /\ UNCHANGED <<stopEvent, opc>>

(* Every worker is gone: wait for the collector, up to drain_timeout, and    *)
(* stop the inference server.                                                *)
WorkersGone ==
    /\ opc = "join"
    /\ turn = PlayerCount
    /\ opc' = "drain"
    /\ UNCHANGED <<stopEvent, turn, workerVars, queueVars, collectorVars, killed>>

CollectorJoined ==
    /\ opc = "drain"
    /\ cpc = "exited"
    /\ opc' = "closed"
    /\ UNCHANGED <<stopEvent, turn, workerVars, queueVars, collectorVars, killed>>

(* Mutant: the wait has no limit. *)
DrainHasNoTimeout ==
    /\ opc = "drain"
    /\ cpc = "exited"
    /\ opc' = "closed"
    /\ UNCHANGED <<stopEvent, turn, workerVars, queueVars, collectorVars, killed>>

DrainTimesOut ==
    /\ opc = "drain"
    /\ cpc # "exited"
    /\ opc' = "closed"
    /\ UNCHANGED <<stopEvent, turn, workerVars, queueVars, collectorVars, killed>>

(* The SIGINT and SIGTERM handler of run_orchestrator. *)
StopSignal ==
    /\ Signals
    /\ ~stopEvent
    /\ stopEvent' = TRUE
    /\ UNCHANGED <<opc, turn, workerVars, queueVars, collectorVars, killed>>

Closed == opc = "closed" /\ UNCHANGED runVars

ProcessStep(w) ==
    \/ BeginGame(w) \/ LeaveLoop(w) \/ Offer(w) \/ DropRecord(w)
    \/ Put(w) \/ PutFull(w) \/ Exit(w)

FeederStep(w) == BeginWrite(w) \/ EndWrite(w)

CollectorStep ==
    \/ CollectorLeaves \/ CollectorGoesOn \/ GetTimesOut \/ GetPartial
    \/ Get \/ StoreGame \/ CountGame

OrchestratorStep ==
    \/ SpawnWorker \/ Watch \/ Monitor \/ CheckEpoch \/ BeginStop
    \/ WorkerJoined \/ WorkerTerminated \/ WorkersGone \/ CollectorJoined \/ DrainTimesOut

RunNext ==
    \/ \E w \in Players :
          \/ ProcessStep(w) \/ FeederStep(w)
          \/ FinishGame(w) \/ GameInvalid(w) \/ GameRaises(w) \/ Killed(w)
    \/ CollectorStep \/ IngestRaises
    \/ OrchestratorStep \/ StopSignal \/ Closed

RunSpec == RunInit /\ [][RunNext]_runVars

(* Threads and processes keep running, and a worker that keeps playing       *)
(* finishes a game now and then.                                             *)
RunFairness ==
    /\ WF_runVars(OrchestratorStep)
    /\ WF_runVars(CollectorStep)
    /\ \A w \in Players :
          /\ WF_runVars(ProcessStep(w)) /\ WF_runVars(FeederStep(w))
          /\ SF_runVars(FinishGame(w))

FairRunSpec == RunSpec /\ RunFairness

-----------------------------------------------------------------------------
(* Properties.                                                               *)

Records == [by : Players, id : 0 .. MaxGames, life : Nat, no : 1 .. MaxGames]

InFeeders == UNION {ToSet(feeder[w]) : w \in Players}
InQueue == InFeeders \cup ToSet(pipe)
LostInKills == UNION {ToSet(killed[k]) : k \in DOMAIN killed}

(* A record the queue accepted is at any moment in exactly one place: in the *)
(* queue, in the collector's hand, in the replay buffer, or in the logged    *)
(* loss of a failed ingestion or a killed process.  No interleaving of puts, *)
(* feeders, kills, respawns and the collector loses or doubles one, and the  *)
(* queue's free places account for the rest.                                 *)
RecordsAccounted ==
    LET inHand == IF cpc = "ingest" THEN {hand} ELSE {}
        places == <<InQueue, inHand, ToSet(stored), bad, LostInKills>>
    IN  /\ accepted = UNION ToSet(places)
        /\ \A i, j \in DOMAIN places : i # j => places[i] \cap places[j] = {}
        /\ IsInjective(stored)
        /\ room + Cardinality(InQueue) + Cardinality(LostInKills) = QueueSize

(* "Unique game ID": two games in the replay buffer have different ids,      *)
(* unless a respawn lies between them: a new process counts from 0 again.    *)
UniqueGameIds ==
    \A i, j \in DOMAIN stored :
        i # j => <<stored[i].by, stored[i].life, stored[i].id>>
                   # <<stored[j].by, stored[j].life, stored[j].id>>

(* The quota counts the records in the replay buffer, a record whose         *)
(* ingestion raised or that a kill took not among them.                      *)
QuotaCountsStored == Len(stored) = gamesDone + (IF cpc = "count" THEN 1 ELSE 0)

(* Every game's record is kept, once, under an id of its own, and it counts  *)
(* for the epoch when it is kept.                                            *)
RecordsKept == RecordsAccounted /\ UniqueGameIds /\ QuotaCountsStored

(* Once the orchestrator is closed no worker process is left, not even one   *)
(* that the monitor respawned while a stop was being requested.              *)
NoWorkerOutlivesStop == opc = "closed" => \A w \in Players : ~Alive(w)

(* "Wait for collector to drain records queued during worker shutdown": a    *)
(* collector that has left in time has left nothing of a worker that ended   *)
(* on its own in the queue.                                                  *)
QueueDrainedAtClose == opc = "closed" /\ cpc = "exited" => InQueue = {}

(* The epoch comes to an end although games raise, records are bad and       *)
(* workers give up: dead workers are replaced, full queues are retried.  A   *)
(* killed process may take the queue with it, so nothing is promised then.   *)
EpochEnds == (opc = "start") ~> (opc = "closed" \/ (killed # <<>> /\ ~stopEvent))

(* A stop always completes, also when the pipe is torn, the queue is full or *)
(* a worker is in the middle of a game.                                      *)
StopCompletes == stopEvent ~> (opc = "closed")
=============================================================================
