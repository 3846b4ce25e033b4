------------------------- MODULE InferenceChannel -------------------------
(***************************************************************************)
(* The shared-memory protocol between the self-play workers                *)
(* (hexorl/inference/client.py) and the inference server                   *)
(* (hexorl/inference/server.py).  Every worker owns one slot               *)
(* (shm_queue.py, WorkerSlots): a request area, a response area and two    *)
(* one-byte events, req_ready and res_ready.  The slot carries no request  *)
(* identity; the identities below are history values that let the          *)
(* properties say which request an evaluation belongs to.                  *)
(*                                                                         *)
(* Abstractions.  A tensor is the identity of the request it was written   *)
(* for; the response arrays are the identity of the request whose tensor   *)
(* was evaluated.  Every access to a shared event and every write or read  *)
(* of a request or response area is a step of its own.  The sparse and     *)
(* pair side inputs travel with the tensor.  Weights and telemetry are     *)
(* left out.                                                               *)
(***************************************************************************)
EXTENDS Integers, FiniteSets

CONSTANTS
    NumWorkers,  \* slots 0 .. NumWorkers - 1
    MaxBatch,    \* cfg.inference.max_batch_size, of the client and the server
    Counts,      \* the batch sizes workers submit
    Graph,       \* TRUE when the architecture is a global graph: submit_graph
    MaxId,       \* history identities are 0 .. MaxId and wrap around
    Impatient,   \* workers whose answer may take longer than timeout_ms
    Mortal       \* workers whose process may die and be respawned

ASSUME ConstantsOK ==
    /\ NumWorkers \in Nat \ {0}
    /\ MaxBatch \in Nat \ {0}
    /\ Counts \subseteq 1 .. MaxBatch
    /\ Graph \in BOOLEAN
    /\ Graph => Counts = {1}
    /\ MaxId \in Nat
    /\ Impatient \subseteq 0 .. NumWorkers - 1
    /\ Mortal \subseteq 0 .. NumWorkers - 1

Workers == 0 .. NumWorkers - 1
Ids == 0 .. MaxId
Modes == {"dense", "graph"}
Mode == IF Graph THEN "graph" ELSE "dense"

VARIABLES
    wpc,        \* where each worker is in its call
    wreq,       \* identity of the worker's latest request (history)
    wcount,     \* number of positions it submits
    gaveUp,     \* TRUE once the worker abandoned a call (history)
    reqReady,   \* slot.req_ready
    resReady,   \* slot.res_ready
    payload,    \* slot.req_tensor or slot.req_graph_*
    reqCount,   \* slot.req_count
    reqMode,    \* slot.req_mode
    result,     \* slot.res_policy, slot.res_value, slot.res_graph_*
    spc,        \* where the server is in its loop
    cur,        \* _drain_ready_workers' loop variable
    ready,      \* ready_workers
    todo,       \* the ready workers the current loop has not reached
    total,      \* positions counted by the drain, then by the build
    got,        \* the tensors the build copied, per worker
    kind        \* req_mode of the first ready worker: which build and forward run

callVars == <<wreq, wcount, gaveUp>>
slotVars == <<payload, reqCount, reqMode, result>>
serverVars == <<spc, cur, ready, todo, total, got, kind>>
vars == <<wpc, callVars, reqReady, resReady, slotVars, serverVars>>

WorkerPCs == {"idle", "payload", "header", "ring", "waiting", "woken", "reading"}
ServerPCs == {"poll", "drain", "build", "clear", "forward", "scatter", "signal", "dead"}

Init ==
    /\ wpc = [w \in Workers |-> "idle"]
    /\ wreq = [w \in Workers |-> 0]
    /\ wcount = [w \in Workers |-> 0]
    /\ gaveUp = [w \in Workers |-> FALSE]
    /\ reqReady = [w \in Workers |-> FALSE]
    /\ resReady = [w \in Workers |-> FALSE]
    /\ payload = [w \in Workers |-> 0]
    /\ reqCount = [w \in Workers |-> 0]
    /\ reqMode = [w \in Workers |-> "dense"]
    /\ result = [w \in Workers |-> 0]
    /\ spc = "poll"
    /\ cur = 0
    /\ ready = {}
    /\ todo = {}
    /\ total = 0
    /\ got = [w \in Workers |-> 0]
    /\ kind = "dense"

-----------------------------------------------------------------------------
(* The worker: one call of submit, submit_sparse, submit_sparse_pair or      *)
(* submit_graph.                                                             *)

Goto(w, pc) == wpc' = [wpc EXCEPT ![w] = pc]

NextId(id) == IF id = MaxId THEN 0 ELSE id + 1

(* res_ready.clear(): the call starts by dropping whatever answer is there.  *)
BeginCall(w) ==
    /\ wpc[w] = "idle"
    /\ Goto(w, IF Graph THEN "header" ELSE "payload")
    /\ wreq' = [wreq EXCEPT ![w] = NextId(@)]
    /\ \E n \in Counts : wcount' = [wcount EXCEPT ![w] = n]
    /\ resReady' = [resReady EXCEPT ![w] = FALSE]
    /\ UNCHANGED <<gaveUp, reqReady, slotVars, serverVars>>

(* The tensor, or the graph arrays and their meta row. *)
WritePayload(w) ==
    /\ wpc[w] = "payload"
    /\ Goto(w, IF Graph THEN "ring" ELSE "header")
    /\ payload' = [payload EXCEPT ![w] = wreq[w]]
    /\ UNCHANGED <<callVars, reqReady, resReady, reqCount, reqMode, result, serverVars>>

(* req_mode and req_count: before the payload in submit_graph, after it in   *)
(* the dense calls.                                                          *)
WriteHeader(w) ==
    /\ wpc[w] = "header"
    /\ Goto(w, IF Graph THEN "payload" ELSE "ring")
    /\ reqMode' = [reqMode EXCEPT ![w] = Mode]
    /\ reqCount' = [reqCount EXCEPT ![w] = wcount[w]]
    /\ UNCHANGED <<callVars, reqReady, resReady, payload, result, serverVars>>

RingDoorbell(w) ==
    /\ wpc[w] = "ring"
    /\ Goto(w, "waiting")
    /\ reqReady' = [reqReady EXCEPT ![w] = TRUE]
    /\ UNCHANGED <<callVars, resReady, slotVars, serverVars>>

(* res_ready.wait() returns True. *)
WakeUp(w) ==
    /\ wpc[w] = "waiting"
    /\ resReady[w]
    /\ Goto(w, "woken")
    /\ UNCHANGED <<callVars, reqReady, resReady, slotVars, serverVars>>

(* res_ready.wait() returns False after timeout_ms: TimeoutError.  The       *)
(* request stays in the slot, with its doorbell if the server has not        *)
(* cleared it.                                                               *)
GiveUp(w) ==
    /\ w \in Impatient
    /\ wpc[w] = "waiting"
    /\ ~resReady[w]
    /\ Goto(w, "idle")
    /\ gaveUp' = [gaveUp EXCEPT ![w] = TRUE]
    /\ UNCHANGED <<wreq, wcount, reqReady, resReady, slotVars, serverVars>>

(* The second res_ready.clear(), and submit_graph's reset of req_mode. *)
AcknowledgeAnswer(w) ==
    /\ wpc[w] = "woken"
    /\ Goto(w, "reading")
    /\ resReady' = [resReady EXCEPT ![w] = FALSE]
    /\ reqMode' = [reqMode EXCEPT ![w] = "dense"]
    /\ UNCHANGED <<callVars, reqReady, payload, reqCount, result, serverVars>>

(* The caller is done with the response arrays.  The dense calls return      *)
(* views of the slot, so the arrays are read up to this step.                *)
FinishRead(w) ==
    /\ wpc[w] = "reading"
    /\ Goto(w, "idle")
    /\ UNCHANGED <<callVars, reqReady, resReady, slotVars, serverVars>>

(* The process dies anywhere in the call and the orchestrator respawns it;   *)
(* connect() attaches to the existing slot and resets nothing.               *)
Respawn(w) ==
    /\ w \in Mortal
    /\ Goto(w, "idle")
    /\ gaveUp' = [gaveUp EXCEPT ![w] = TRUE]
    /\ UNCHANGED <<wreq, wcount, reqReady, resReady, slotVars, serverVars>>

WorkerStep(w) ==
    \/ WritePayload(w) \/ WriteHeader(w) \/ RingDoorbell(w)
    \/ WakeUp(w) \/ AcknowledgeAnswer(w) \/ FinishRead(w)

-----------------------------------------------------------------------------
(* The server: _event_loop.                                                  *)

(* w is the worker the loop over ready_workers, in index order, is at.       *)
IsNext(w) == w \in todo /\ \A v \in todo : w <= v

(* The last worker of a loop moves the server on and restarts todo.          *)
Advance(w, here, there) ==
    IF todo = {w} THEN spc' = there /\ todo' = ready
                  ELSE spc' = here /\ todo' = todo \ {w}

(* _any_worker_ready: otherwise the loop sleeps and looks again. *)
Poll ==
    /\ spc = "poll"
    /\ \E w \in Workers : reqReady[w]
    /\ spc' = "drain"
    /\ cur' = 0
    /\ ready' = {}
    /\ total' = 0
    /\ UNCHANGED <<todo, got, kind, wpc, callVars, reqReady, resReady, slotVars>>

(* Mutant: the drain takes every worker with a doorbell. *)
FitsAlways(w) == TRUE

(* A later worker is passed over when its positions no longer fit. *)
Fits(w) == total + reqCount[w] <= MaxBatch \/ ready = {}

DrainTake ==
    /\ spc = "drain"
    /\ cur < NumWorkers
    /\ total < MaxBatch
    /\ reqReady[cur]
    /\ reqCount[cur] > 0
    /\ Fits(cur)
    /\ ready' = ready \cup {cur}
    /\ total' = total + reqCount[cur]
    /\ cur' = cur + 1
    /\ UNCHANGED <<spc, todo, got, kind, wpc, callVars, reqReady, resReady, slotVars>>

(* A doorbell without positions is cleared, every other worker is left. *)
DrainSkip ==
    /\ spc = "drain"
    /\ cur < NumWorkers
    /\ total < MaxBatch
    /\ ~(reqReady[cur] /\ reqCount[cur] > 0 /\ Fits(cur))
    /\ reqReady' = [reqReady EXCEPT ![cur] = @ /\ reqCount[cur] > 0]
    /\ cur' = cur + 1
    /\ UNCHANGED <<spc, ready, todo, total, got, kind, wpc, callVars, resReady, slotVars>>

IsFirst(w) == w \in ready /\ \A v \in ready : w <= v

(* The mode of the first ready worker decides which workers stay. *)
SameModeAs(first) == {w \in ready : reqMode[w] = reqMode[first]}

(* A drain that took nobody goes back to polling. *)
DrainEnd ==
    /\ spc = "drain"
    /\ cur = NumWorkers \/ total >= MaxBatch
    /\ IF ready = {} THEN spc' = "poll" /\ UNCHANGED <<ready, todo, total, kind>>
       ELSE /\ \E first \in Workers :
                  /\ IsFirst(first)
                  /\ ready' = SameModeAs(first)
                  /\ todo' = SameModeAs(first)
                  /\ kind' = reqMode[first]
            /\ spc' = "build"
            /\ total' = 0
    /\ UNCHANGED <<cur, got, wpc, callVars, reqReady, resReady, slotVars>>

(* _build_batch or _build_graph_inputs copies the worker's request; the      *)
(* count is read again, and a batch beyond the host buffer kills the loop.   *)
Build(w) ==
    /\ spc = "build"
    /\ IsNext(w)
    /\ total + reqCount[w] <= MaxBatch
    /\ got' = [got EXCEPT ![w] = payload[w]]
    /\ total' = total + reqCount[w]
    /\ Advance(w, "build", "clear")
    /\ UNCHANGED <<cur, ready, kind, wpc, callVars, reqReady, resReady, slotVars>>

(* Mutant: every doorbell is cleared. *)
ClearAllDoorbells(w) ==
    /\ spc = "clear"
    /\ IsNext(w)
    /\ reqReady' = [v \in Workers |-> FALSE]
    /\ Advance(w, "clear", "forward")
    /\ UNCHANGED <<cur, ready, total, got, kind, wpc, callVars, resReady, slotVars>>

ClearDoorbell(w) ==
    /\ spc = "clear"
    /\ IsNext(w)
    /\ reqReady' = [reqReady EXCEPT ![w] = FALSE]
    /\ Advance(w, "clear", "forward")
    /\ UNCHANGED <<cur, ready, total, got, kind, wpc, callVars, resReady, slotVars>>

(* A global graph model takes no dense batch. *)
ModelTakes(k) == Graph => k = "graph"

Forward ==
    /\ spc = "forward"
    /\ ModelTakes(kind)
    /\ spc' = "scatter"
    /\ UNCHANGED <<cur, ready, todo, total, got, kind, wpc, callVars, reqReady, resReady, slotVars>>

(* Mutant: the offset into the batch is never advanced. *)
ScatterFirstRow(w) ==
    /\ spc = "scatter"
    /\ IsNext(w)
    /\ \E first \in Workers :
          IsFirst(first) /\ result' = [result EXCEPT ![w] = got[first]]
    /\ reqMode' = [reqMode EXCEPT ![w] = "dense"]
    /\ Advance(w, "scatter", "signal")
    /\ UNCHANGED <<cur, ready, total, got, kind, wpc, callVars, reqReady, resReady, payload, reqCount>>

(* _scatter_results, or _scatter_graph_results, which also resets req_mode. *)
Scatter(w) ==
    /\ spc = "scatter"
    /\ IsNext(w)
    /\ result' = [result EXCEPT ![w] = got[w]]
    /\ reqMode' = [reqMode EXCEPT ![w] = "dense"]
    /\ Advance(w, "scatter", "signal")
    /\ UNCHANGED <<cur, ready, total, got, kind, wpc, callVars, reqReady, resReady, payload, reqCount>>

Signal(w) ==
    /\ spc = "signal"
    /\ IsNext(w)
    /\ resReady' = [resReady EXCEPT ![w] = TRUE]
    /\ IF todo = {w} THEN spc' = "poll" ELSE spc' = "signal"
    /\ todo' = todo \ {w}
    /\ UNCHANGED <<cur, ready, total, got, kind, wpc, callVars, reqReady, slotVars>>

(* An exception leaves _event_loop and ends the process: the host buffer is  *)
(* exceeded in the build, or the model rejects the batch.                    *)
Die ==
    /\ \/ spc = "build" /\ \E w \in todo : IsNext(w) /\ total + reqCount[w] > MaxBatch
       \/ spc = "forward" /\ ~ModelTakes(kind)
    /\ spc' = "dead"
    /\ UNCHANGED <<cur, ready, todo, total, got, kind, wpc, callVars, reqReady, resReady, slotVars>>

ServerStep ==
    \/ Poll \/ DrainTake \/ DrainSkip \/ DrainEnd \/ Forward \/ Die
    \/ \E w \in Workers : Build(w) \/ ClearDoorbell(w) \/ Scatter(w) \/ Signal(w)

Next ==
    \/ ServerStep
    \/ \E w \in Workers : BeginCall(w) \/ WorkerStep(w) \/ GiveUp(w) \/ Respawn(w)

Spec == Init /\ [][Next]_vars

(* The server process and every worker inside a call keep running; a worker  *)
(* is not obliged to start a call, to give one up or to crash.               *)
Fairness ==
    /\ WF_vars(ServerStep)
    /\ \A w \in Workers : WF_vars(WorkerStep(w))

FairSpec == Spec /\ Fairness

-----------------------------------------------------------------------------
(* Properties.                                                               *)

TypeOK ==
    /\ wpc \in [Workers -> WorkerPCs]
    /\ wreq \in [Workers -> Ids]
    /\ wcount \in [Workers -> Counts \cup {0}]
    /\ gaveUp \in [Workers -> BOOLEAN]
    /\ reqReady \in [Workers -> BOOLEAN]
    /\ resReady \in [Workers -> BOOLEAN]
    /\ payload \in [Workers -> Ids]
    /\ reqCount \in [Workers -> Counts \cup {0}]
    /\ reqMode \in [Workers -> Modes]
    /\ result \in [Workers -> Ids]
    /\ spc \in ServerPCs
    /\ cur \in 0 .. NumWorkers
    /\ ready \in SUBSET Workers
    /\ todo \in SUBSET Workers
    /\ total \in Nat
    /\ got \in [Workers -> Ids]
    /\ kind \in Modes

(* A worker that never abandoned a call reads, for as long as it holds the   *)
(* response arrays, the evaluation of its own latest request: other workers' *)
(* timeouts and crashes, and later batches, cannot put another one there.    *)
OwnAnswer ==
    \A w \in Workers : wpc[w] = "reading" /\ ~gaveUp[w] => result[w] = wreq[w]

(* The same for every worker: no evaluation of an earlier request is ever    *)
(* taken for the answer to the current one.                                  *)
NoStaleAnswer ==
    \A w \in Workers : wpc[w] = "reading" => result[w] = wreq[w]

(* The copies in and out of a slot never overlap: the server does not read   *)
(* a request area its worker is writing, nor write a response area its       *)
(* worker is reading (the dense calls return views, not copies).             *)
NoSlotRace ==
    \A w \in Workers : ~gaveUp[w] =>
        /\ wpc[w] \in {"payload", "header"} => ~(w \in todo /\ spc = "build")
        /\ wpc[w] = "reading" => ~(w \in todo /\ spc = "scatter")

(* The server has taken w into its batch and has not answered it. *)
InFlight(w) ==
    \/ spc \in {"build", "clear", "forward", "scatter"} /\ w \in ready
    \/ spc = "signal" /\ w \in todo

(* While the server lives, the request of a waiting worker is always either  *)
(* behind its doorbell, in the server's batch or answered: clearing the      *)
(* doorbells of a batch never erases a request that is not in the batch.     *)
NoLostRequest ==
    \A w \in Workers :
        wpc[w] = "waiting" /\ ~gaveUp[w] /\ spc # "dead"
            => reqReady[w] \/ InFlight(w) \/ resReady[w]

(* What the doorbells and flags of a slot are for.                           *)
SlotsAreSafe == NoSlotRace /\ NoLostRequest

-----------------------------------------------------------------------------
(* Why the promise is kept: the strengthening the proofs use.                *)

LoopOK ==
    /\ todo \subseteq ready
    /\ spc \in {"poll", "drain"} => todo = {}
    /\ spc = "forward" => todo = ready

(* What the fields of w's slot hold at each point of w's call. *)
SlotOK(w) ==
    /\ wpc[w] # "idle" => wcount[w] \in Counts
    /\ wpc[w] \in {"ring", "waiting"} \/ (Graph /\ wpc[w] = "payload")
          => reqCount[w] = wcount[w]
    /\ wpc[w] \in {"ring", "waiting"} \/ (~Graph /\ wpc[w] = "header")
          => payload[w] = wreq[w]
    /\ reqReady[w] => wpc[w] = "waiting" /\ ~resReady[w]
    /\ resReady[w] => wpc[w] \in {"waiting", "woken"} /\ result[w] = wreq[w]
    /\ wpc[w] \in {"woken", "reading"} => result[w] = wreq[w]

(* A worker in the server's batch waits, unanswered, and its row of the      *)
(* batch carries its latest request from the build on.                       *)
BatchOK(w) ==
    /\ spc \in {"drain", "build", "clear", "forward", "scatter"} /\ w \in ready
          => wpc[w] = "waiting" /\ ~resReady[w]
    /\ spc = "signal" /\ w \in todo
          => wpc[w] = "waiting" /\ ~resReady[w] /\ ~reqReady[w] /\ result[w] = wreq[w]
    /\ (spc \in {"drain", "build"} /\ w \in ready) \/ (spc = "clear" /\ w \in todo)
          => reqReady[w]
    /\ (spc = "clear" /\ w \in ready \ todo) \/ (spc \in {"forward", "scatter"} /\ w \in ready)
          => ~reqReady[w]
    /\ (spc = "build" /\ w \in ready \ todo) \/ (spc \in {"clear", "forward", "scatter"} /\ w \in ready)
          => got[w] = wreq[w]
    /\ spc = "scatter" /\ w \in ready \ todo => result[w] = wreq[w]

WaitsForSomething(w) ==
    wpc[w] = "waiting" /\ spc # "dead" => reqReady[w] \/ InFlight(w) \/ resReady[w]

(* The inductive invariant: whoever else times out or dies, a worker that    *)
(* never gave up goes through its call and the batch in step.                *)
IInv ==
    /\ TypeOK
    /\ LoopOK
    /\ \A w \in Workers : ~gaveUp[w] => SlotOK(w) /\ BatchOK(w) /\ WaitsForSomething(w)

-----------------------------------------------------------------------------
(* Only a request that was overwritten after its worker gave up can take the *)
(* server down: otherwise the build never exceeds the host buffer the drain  *)
(* counted for, and the model is handed the kind of batch it takes.          *)
ServerSurvives == (\A w \in Workers : ~gaveUp[w]) => spc # "dead"

(* Every call is answered, when the positions of all workers fit in a batch. *)
EveryRequestAnswered ==
    \A w \in Workers : wpc[w] = "waiting" ~> wpc[w] = "woken"

(* The channel keeps the promise of InferenceService. *)
PhaseOf(w) ==
    CASE wpc[w] = "idle" -> "idle"
      [] wpc[w] \in {"woken", "reading"} -> "answered"
      [] wpc[w] = "waiting" /\ resReady[w] -> "answered"
      [] OTHER -> "asked"

AnswerOf(w) == IF PhaseOf(w) = "answered" THEN result[w] ELSE 0

Service == INSTANCE InferenceService WITH
    phase <- [w \in Workers |-> PhaseOf(w)],
    asked <- wreq,
    answer <- [w \in Workers |-> AnswerOf(w)],
    abandoned <- gaveUp

KeepsPromise == Service!Spec
=============================================================================
