---------------------------- MODULE BufferProcess ----------------------------
(* The process that owns a replay buffer (buffer/process.py). Callers put    *)
(* requests on a multiprocessing queue, which a feeder thread of each caller *)
(* fills, and wait for an answer on a pipe of their own until a timeout. The *)
(* loop has no exception handler: a game that cannot be processed and a pipe *)
(* whose reader has gone end the process.                                    *)
EXTENDS Integers, Sequences, SequencesExt

CONSTANTS
    Callers,     \* processes that use the buffer; Owner started it
    Owner,
    Requests,    \* calls of a caller (bound)
    BufferTrouble      \* whether games can be bad and callers can time out

ASSUME BufferOK == Owner \in Callers /\ Requests \in Nat /\ BufferTrouble \in BOOLEAN

(* owned: the process and what it stores of each caller. unsent: what a      *)
(* caller's feeder thread has still to write. pipe: the state of its answer. *)
VARIABLE owned

Idle == [state |-> "idle", seen |-> 0]

BufferInit ==
    owned = [running |-> TRUE, stopping |-> FALSE, queue |-> <<>>, stored |-> [c \in Callers |-> 0],
             unsent |-> [c \in Callers |-> <<>>], put |-> [c \in Callers |-> 0],
             calls |-> [c \in Callers |-> 0], pipe |-> [c \in Callers |-> Idle],
             serial |-> [c \in Callers |-> 0]]

CanCall(c) == /\ owned.pipe[c].state = "idle" /\ owned.calls[c] < Requests
              /\ c = Owner => ~owned.stopping

(* append_game and append_positions return at once.                          *)
AppendCall(c, good) ==
    /\ CanCall(c)
    /\ owned' = [owned EXCEPT !.calls[c] = @ + 1, !.put[c] = IF good THEN @ + 1 ELSE @,
                    !.unsent[c] = Append(@, [op |-> IF good THEN "append" ELSE "bad", by |-> c])]

(* sample_records and stats open a pipe, and poll it.                        *)
SampleCall(c) ==
    /\ CanCall(c)
    /\ owned' = [owned EXCEPT !.calls[c] = @ + 1, !.pipe[c] = [state |-> "waits", seen |-> 0],
                    !.serial[c] = @ + 1,
                    !.unsent[c] = Append(@, [op |-> "sample", by |-> c, pipe |-> owned.serial[c] + 1])]

SampleReturns(c) ==
    /\ owned.pipe[c].state = "answered"
    /\ owned' = [owned EXCEPT !.pipe[c] = Idle]

(* The timeout closes the pipe: nobody reads a later answer.                 *)
SampleTimesOut(c) ==
    /\ BufferTrouble \/ ~owned.running
    /\ owned.pipe[c].state = "waits"
    /\ owned' = [owned EXCEPT !.pipe[c] = Idle]

(* Mutant: the feeder takes the requests in any order. *)
FeedAny(c) ==
    \E k \in DOMAIN owned.unsent[c] :
        owned' = [owned EXCEPT !.unsent[c] = RemoveAt(@, k), !.queue = Append(@, owned.unsent[c][k])]

(* A caller's feeder thread writes one request to the queue's pipe.          *)
Feed(c) ==
    /\ owned.unsent[c] # <<>>
    /\ owned' = [owned EXCEPT !.unsent[c] = Tail(@), !.queue = Append(@, Head(owned.unsent[c]))]

(* _run: one turn of the loop.                                               *)
Reads(req) == owned.pipe[req.by].state = "waits" /\ owned.serial[req.by] = req.pipe

(* Mutant: nothing is sent when there is nothing to sample. *)
AnswerUnlessEmpty(req) ==
    IF owned.stored[req.by] = 0 THEN owned.pipe[req.by]
    ELSE [state |-> "answered", seen |-> owned.stored[req.by]]
SampleAnswer(req) == [state |-> "answered", seen |-> owned.stored[req.by]]

Serve ==
    LET req == Head(owned.queue)
        next == [owned EXCEPT !.queue = Tail(@)]
    IN  /\ owned.running
        /\ owned.queue # <<>>
        /\ owned' = CASE req.op = "append" -> [next EXCEPT !.stored[req.by] = @ + 1]
                      [] req.op = "sample" /\ Reads(req) ->
                            [next EXCEPT !.pipe[req.by] = SampleAnswer(req)]
                      [] OTHER -> [next EXCEPT !.running = FALSE]

(* stop: asks, waits, and terminates a process that does not end in time.    *)
StopCall ==
    /\ CanCall(Owner)
    /\ owned' = [owned EXCEPT !.stopping = TRUE, !.unsent[Owner] = Append(@, [op |-> "stop", by |-> Owner])]

Terminate ==
    /\ BufferTrouble
    /\ owned.stopping /\ owned.running
    /\ owned' = [owned EXCEPT !.running = FALSE]

BufferNext ==
    \/ Serve \/ StopCall \/ Terminate
    \/ \E c \in Callers :
          \/ SampleCall(c) \/ SampleReturns(c) \/ SampleTimesOut(c) \/ Feed(c)
          \/ \E good \in BOOLEAN : (BufferTrouble \/ good) /\ AppendCall(c, good)

BufferSpec == BufferInit /\ [][BufferNext]_owned

BufferFairness ==
    /\ WF_owned(Serve)
    /\ \A c \in Callers : WF_owned(Feed(c)) /\ WF_owned(SampleTimesOut(c))

------------------------------------------------------------------------------
(* A caller samples from a buffer that holds everything it appended before:  *)
(* its own calls are not reordered on their way.                             *)
ReadsItsAppends ==
    \A c \in Callers : owned.pipe[c].state = "answered" => owned.pipe[c].seen = owned.put[c]

(* As long as no game is bad, nobody times out and nobody stops the process, *)
(* every sample is answered.                                                 *)
SamplesAreAnswered ==
    \A c \in Callers : owned.pipe[c].state = "waits" ~> (owned.pipe[c].state = "answered" \/ owned.stopping)
=============================================================================
