--------------------------- MODULE ServerLifecycle ---------------------------
(* The inference server as the process that owns it sees it (start, stop,    *)
(* join and update_weights of inference/server.py) and the life of the       *)
(* spawned process around its event loop: load the initial weights, connect, *)
(* report ready, then apply the newest queued weights between batches.       *)
(* Weights are numbered in the order of update_weights; 0 are the initial    *)
(* ones. The weight queue is a multiprocessing queue: put appends to a       *)
(* buffer from which a feeder thread fills the pipe; full counts both.       *)
EXTENDS Integers, Sequences, SequencesExt

CONSTANTS
    WeightRoom,     \* maxsize of the weight queue
    Updates,        \* calls of update_weights (bound)
    SlowStart       \* whether start may time out, and join too

ASSUME LifecycleOK == WeightRoom \in Nat \ {0} /\ Updates \in Nat /\ SlowStart \in BOOLEAN

VARIABLE server

LifecycleInit ==
    server = [owner |-> "new", shared |-> FALSE, child |-> "none", ready |-> FALSE, stopEvent |-> FALSE,
              buffer |-> <<>>, pipe |-> <<>>, sent |-> 0, putting |-> FALSE, weights |-> 0]

(* start: the shared memory, the process, and the wait for its ready event.  *)
StartServer ==
    /\ server.owner = "new"
    /\ server' = [server EXCEPT !.owner = "starting", !.shared = TRUE, !.child = "loading"]

(* The event stays set, also when the process has ended since.               *)
StartReturns ==
    /\ server.owner = "starting" /\ server.ready
    /\ server' = [server EXCEPT !.owner = "running"]

(* A process that is not ready in time is terminated, the shared memory is   *)
(* released and RuntimeError is raised.                                      *)
StartTimesOut ==
    /\ SlowStart
    /\ server.owner = "starting" /\ ~server.ready
    /\ server' = [server EXCEPT !.owner = "failed", !.shared = FALSE, !.child = "none"]

(* update_weights makes room by dropping what is in the pipe, oldest first,  *)
(* as far as it can get at it (the weights may still be in the buffer, and   *)
(* the process may hold the pipe), and puts; the put waits for room.         *)
Queued(s) == Len(s.buffer) + Len(s.pipe)

Dropped(q, k) == SubSeq(q, k + 1, Len(q))

(* Mutant: an update for which there is no room is forgotten. *)
PutOrForget(s) == IF Queued(s) < WeightRoom THEN [s EXCEPT !.buffer = Append(@, s.sent), !.putting = FALSE] ELSE s
PutIfRoom(s) ==
    IF Queued(s) < WeightRoom THEN [s EXCEPT !.buffer = Append(@, s.sent), !.putting = FALSE]
    ELSE [s EXCEPT !.putting = TRUE]

UpdateWeights ==
    /\ server.owner = "running" /\ ~server.putting /\ server.sent < Updates
    /\ \E k \in 0 .. Len(server.pipe) :
          /\ k > 0 => Queued(server) - k >= WeightRoom - 1
          /\ server' = PutIfRoom([server EXCEPT !.pipe = Dropped(@, k), !.sent = @ + 1])

PutWakes ==
    /\ server.putting /\ Queued(server) < WeightRoom
    /\ server' = PutIfRoom(server)

FeedWeights ==
    /\ server.buffer # <<>>
    /\ server' = [server EXCEPT !.buffer = Tail(@), !.pipe = Append(@, Head(server.buffer))]

(* stop sets the event; join waits, terminates a process that is still       *)
(* there, and releases the shared memory.                                    *)
StopServer ==
    /\ server.owner = "running" /\ ~server.putting
    /\ server' = [server EXCEPT !.owner = "stopping", !.stopEvent = TRUE]

JoinServer ==
    /\ server.owner = "stopping"
    /\ server.child = "exited" \/ SlowStart
    /\ server' = [server EXCEPT !.owner = "joined", !.shared = FALSE, !.child = "none"]

------------------------------------------------------------------------------
(* The process: _run, and what _event_loop does for it.                      *)
ChildReady ==
    /\ server.child = "loading"
    /\ server' = [server EXCEPT !.child = "serving", !.ready = TRUE]

(* _poll_weight_updates: everything the pipe holds is taken, the last counts.*)
PollWeights ==
    /\ server.child = "serving" /\ ~server.stopEvent
    /\ server.pipe # <<>>
    /\ server' = [server EXCEPT !.pipe = <<>>, !.weights = Last(server.pipe)]

ChildStops ==
    /\ server.child = "serving" /\ server.stopEvent
    /\ server' = [server EXCEPT !.child = "exited"]

(* A fatal error: raised out of the process, which unmaps its queue.         *)
ChildFails ==
    /\ SlowStart
    /\ server.child \in {"loading", "serving"}
    /\ server' = [server EXCEPT !.child = "exited"]

LifecycleNext ==
    \/ StartServer \/ StartReturns \/ StartTimesOut \/ UpdateWeights \/ PutWakes \/ FeedWeights
    \/ StopServer \/ JoinServer \/ ChildReady \/ PollWeights \/ ChildStops \/ ChildFails

LifecycleSpec == LifecycleInit /\ [][LifecycleNext]_server

------------------------------------------------------------------------------
(* "Apply the newest queued model weights, dropping stale updates": whatever *)
(* was dropped on the way, the last update that was put is loaded or will be *)
(* the last one to be.                                                       *)
NewestWeightsWin ==
    server.child = "serving" /\ ~server.putting =>
        server.sent = Last(<<server.weights>> \o server.pipe \o server.buffer)
=============================================================================
