---------------------------- MODULE TrainingLoop ----------------------------
(* One trainer and the calls that keep it busy (train/trainer.py, ema.py,    *)
(* and their callers in epoch/pipeline.py): train_epoch with the thread that *)
(* fetches batches ahead, a training step with its optimiser, schedule, loss *)
(* scale and moving average, and the checkpoints between epochs.             *)
(* Weights are one number that a step changes by a gradient; the average is  *)
(* an exact fraction. Batches of an iterator are numbered from 1.            *)
EXTENDS Integers, Sequences

CONSTANTS
    BatchesPerEpoch,
    LoaderEnds,       \* batches of an iterator before it ends
    Setups,           \* records [prefetch, amp, scheduled, smoke]: batches fetched ahead (0
                      \* for no thread), mixed precision, cosine schedule, the smoke run
    Gradients,        \* what a step adds to the weights
    WarmUp,           \* updates before the decay is constant: 9999
    FirstScale,       \* halvings after which the loss scale is zero
    Calls,            \* train_epoch calls (bound)
    Renewals,         \* trainers made after the first one, or reset by a checkpoint (bound)
    LoaderErrors      \* batches that cannot be made (bound)

ASSUME BatchesOK == BatchesPerEpoch \in Nat \ {0}
ASSUME EndsOK == LoaderEnds \subseteq Nat
ASSUME SetupsOK == Setups \subseteq [prefetch : Nat, amp : BOOLEAN, scheduled : BOOLEAN, smoke : BOOLEAN]
ASSUME GradientsOK == Gradients \subseteq Int
ASSUME WarmUpOK == WarmUp \in Nat \ {0}
ASSUME ScaleOK == FirstScale \in Nat \ {0}
ASSUME CallsOK == Calls \in Nat
ASSUME RenewalsOK == Renewals \in Nat
ASSUME ErrorsOK == LoaderErrors \in Nat

Stop == 0
Failure == -1

VARIABLES
    setup,      \* the configuration of the trainers
    trainer,    \* [pc, failed, again, epoch, step, batch, opt, schedule, scale]
    model,      \* the weights
    ema,        \* [num, den, updates, total]: num / den; total is the sum of what was averaged
    fetcher,    \* the prefetch iterator made last; nothing waits for the thread of an earlier one
    used,       \* batches the trainer took from it
    saved,      \* the checkpoint written last, or none
    trouble     \* [calls, renewals, errors]: what may still happen

trainVars == <<setup, trainer, model, ema, fetcher, used, saved, trouble>>

(* Trainer.__init__: counters at zero; the average starts at the weights.    *)
NewTrainer ==
    [pc |-> "idle", failed |-> FALSE, again |-> FALSE, epoch |-> 0, step |-> 0, batch |-> 0,
     opt |-> 0, schedule |-> 0, scale |-> FirstScale]

(* run_tiny_training_smoke: one trainer for all epochs, on the processor,    *)
(* without mixed precision and with a constant learning rate.                *)
SmokeSetup == [prefetch |-> 2, amp |-> FALSE, scheduled |-> FALSE, smoke |-> TRUE]

NewEma(w) == [num |-> w, den |-> 1, updates |-> 0, total |-> w]

(* _PrefetchIterator.__init__ *)
NewFetcher(ends) ==
    [queue |-> <<>>, closed |-> FALSE, pc |-> IF setup.prefetch > 0 THEN "check" ELSE "done",
     item |-> Stop, taken |-> 0, ends |-> ends]

TrainInit ==
    /\ setup \in Setups
    /\ trainer = NewTrainer
    /\ model = 0
    /\ ema = NewEma(0)
    /\ fetcher = [NewFetcher(0) EXCEPT !.pc = "done", !.closed = TRUE]
    /\ used = 0
    /\ saved = <<>>
    /\ trouble = [calls |-> Calls, renewals |-> IF setup.smoke THEN 0 ELSE Renewals, errors |-> LoaderErrors]

------------------------------------------------------------------------------
(* The thread of a prefetch iterator (_run): it looks at the event, makes a  *)
(* batch, and waits for room in the queue. The end of the loader and an      *)
(* exception go the same way, and are the last thing it does.                *)
ThreadChecks ==
    /\ fetcher.pc = "check"
    /\ fetcher' = [fetcher EXCEPT !.pc = IF fetcher.closed THEN "done" ELSE "next"]
    /\ UNCHANGED <<setup, trainer, model, ema, used, saved, trouble>>

(* Mutant: at the end of the loader the thread just ends. *)
EndOfLoaderSilent == [fetcher EXCEPT !.pc = "done"]
EndOfLoader == [fetcher EXCEPT !.pc = "put", !.item = Stop]

ThreadTakes ==
    /\ fetcher.pc = "next"
    /\ fetcher' = IF fetcher.taken < fetcher.ends
                  THEN [fetcher EXCEPT !.pc = "put", !.taken = @ + 1, !.item = fetcher.taken + 1]
                  ELSE EndOfLoader
    /\ UNCHANGED <<setup, trainer, model, ema, used, saved, trouble>>

ThreadFails ==
    /\ fetcher.pc = "next"
    /\ trouble.errors > 0
    /\ trouble' = [trouble EXCEPT !.errors = @ - 1]
    /\ fetcher' = [fetcher EXCEPT !.pc = "put", !.item = Failure]
    /\ UNCHANGED <<setup, trainer, model, ema, used, saved>>

ThreadPuts ==
    /\ fetcher.pc = "put"
    /\ Len(fetcher.queue) < setup.prefetch
    /\ fetcher' = [fetcher EXCEPT !.queue = Append(@, fetcher.item),
                                  !.pc = IF fetcher.item > 0 THEN "check" ELSE "done"]
    /\ UNCHANGED <<setup, trainer, model, ema, used, saved, trouble>>

------------------------------------------------------------------------------
MakesFetcher ==
    /\ \E n \in LoaderEnds : fetcher' = NewFetcher(n)
    /\ used' = 0

(* train_epoch: the epoch counts from its beginning, whether it succeeds.    *)
EpochBegins ==
    /\ trainer.pc = "idle"
    /\ trouble.calls > 0
    /\ trouble' = [trouble EXCEPT !.calls = @ - 1]
    /\ trainer' = [trainer EXCEPT !.pc = "get", !.failed = FALSE, !.again = FALSE, !.epoch = @ + 1, !.batch = 0]
    /\ MakesFetcher
    /\ UNCHANGED <<setup, model, ema, saved>>

(* What the trainer does with the next item. The end of an iterator is met   *)
(* by a new one, whose own end leaves the epoch, as every exception does.    *)
TakesBatch == trainer' = [trainer EXCEPT !.pc = "step", !.again = FALSE] /\ used' = used + 1
LeavesEpoch == trainer' = [trainer EXCEPT !.pc = "close", !.failed = TRUE] /\ UNCHANGED used
StartsAgain == trainer' = [trainer EXCEPT !.again = TRUE] /\ MakesFetcher

(* __next__ of the prefetcher: the queue's get. *)
GetsFromQueue ==
    LET item == Head(fetcher.queue)
    IN  /\ trainer.pc = "get"
        /\ setup.prefetch > 0
        /\ fetcher.queue # <<>>
        /\ IF item = Stop /\ ~trainer.again
           THEN StartsAgain
           ELSE /\ fetcher' = [fetcher EXCEPT !.queue = Tail(@)]
                /\ IF item > 0 THEN TakesBatch ELSE LeavesEpoch
        /\ UNCHANGED <<setup, model, ema, saved, trouble>>

(* __next__ without a thread: the loader's own. *)
GetsFromLoader ==
    /\ trainer.pc = "get"
    /\ setup.prefetch = 0
    /\ \/ /\ fetcher.taken < fetcher.ends
          /\ fetcher' = [fetcher EXCEPT !.taken = @ + 1]
          /\ TakesBatch /\ UNCHANGED trouble
       \/ /\ fetcher.taken = fetcher.ends
          /\ IF trainer.again THEN LeavesEpoch /\ UNCHANGED fetcher ELSE StartsAgain
          /\ UNCHANGED trouble
       \/ /\ trouble.errors > 0
          /\ trouble' = [trouble EXCEPT !.errors = @ - 1]
          /\ LeavesEpoch /\ UNCHANGED fetcher
    /\ UNCHANGED <<setup, model, ema, saved>>

------------------------------------------------------------------------------
(* ModelEMA.update: the decay is n / (n + 1) for the n-th update, and at     *)
(* most WarmUp / (WarmUp + 1).                                               *)
(* Mutant: the count is raised after the decay was chosen. *)
UpdateLate(e, w) ==
    LET d == IF e.updates < WarmUp THEN e.updates ELSE WarmUp
    IN  [num |-> d * e.num + w * e.den, den |-> (d + 1) * e.den, updates |-> e.updates + 1, total |-> e.total + w]
Update(e, w) ==
    LET n == e.updates + 1
        d == IF n < WarmUp THEN n ELSE WarmUp
    IN  [num |-> d * e.num + w * e.den, den |-> (d + 1) * e.den, updates |-> n, total |-> e.total + w]

NextBatch(t) == [t EXCEPT !.pc = IF t.batch + 1 = BatchesPerEpoch THEN "close" ELSE "get",
                          !.batch = @ + 1, !.step = @ + 1]

(* _train_step: a loss that is not finite ends the epoch before anything     *)
(* changes. With mixed precision a gradient that overflows skips the         *)
(* optimiser's step and halves the scale, and a scale that did not shrink    *)
(* counts as a step: at scale zero every step overflows and counts.          *)
LossNotFinite ==
    /\ trainer.pc = "step"
    /\ trainer' = [trainer EXCEPT !.pc = "close", !.failed = TRUE]
    /\ UNCHANGED <<setup, model, ema, fetcher, used, saved, trouble>>

Advance(t) == [t EXCEPT !.schedule = IF setup.scheduled THEN @ + 1 ELSE @]

ScaleDown(t) == [t EXCEPT !.scale = IF @ = 0 THEN 0 ELSE @ - 1]

(* Now and then a step doubles the scale, here not above the first one.      *)
ScalesAfterStep ==
    IF setup.amp /\ trainer.scale < FirstScale THEN {trainer.scale, trainer.scale + 1} ELSE {trainer.scale}

(* Mutant: the schedule and the average follow the batches. *)
CountsAlways(scale) == TRUE
CountsAsStep(scale) == scale = 0

OptimizerSteps ==
    /\ trainer.pc = "step"
    /\ trainer.scale > 0
    /\ \E g \in Gradients : model' = model + g
    /\ ema' = Update(ema, model')
    /\ \E scale \in ScalesAfterStep :
          trainer' = NextBatch(Advance([trainer EXCEPT !.opt = @ + 1, !.scale = scale]))
    /\ UNCHANGED <<setup, fetcher, used, saved, trouble>>

SkippedStep ==
    /\ trainer.pc = "step"
    /\ setup.amp
    /\ IF CountsAsStep(trainer.scale)
       THEN ema' = Update(ema, model) /\ trainer' = NextBatch(Advance(ScaleDown(trainer)))
       ELSE UNCHANGED ema /\ trainer' = NextBatch(ScaleDown(trainer))
    /\ UNCHANGED <<setup, model, fetcher, used, saved, trouble>>

------------------------------------------------------------------------------
(* The finally of train_epoch: the event is set and the thread is given a    *)
(* second to end. It does not if it waits for room, or makes a batch. The    *)
(* exception of an epoch that failed ends the smoke run; a trial goes on.    *)
ClosesFetcher ==
    /\ trainer.pc = "close"
    /\ fetcher' = [fetcher EXCEPT !.closed = TRUE]
    /\ trainer' = [trainer EXCEPT !.pc = IF trainer.failed THEN "idle" ELSE "save"]
    /\ trouble' = IF trainer.failed /\ setup.smoke THEN [trouble EXCEPT !.calls = 0] ELSE trouble
    /\ UNCHANGED <<setup, model, ema, used, saved>>

(* save_checkpoint, after an epoch that succeeded. *)
SavesCheckpoint ==
    /\ trainer.pc = "save"
    /\ saved' = <<[epoch |-> trainer.epoch, step |-> trainer.step, opt |-> trainer.opt, scale |-> trainer.scale,
                   schedule |-> trainer.schedule, model |-> model, ema |-> ema]>>
    /\ trainer' = [trainer EXCEPT !.pc = "idle"]
    /\ UNCHANGED <<setup, model, ema, fetcher, used, trouble>>

(* load_checkpoint, into this trainer or one made for the purpose, with the  *)
(* state of the average (load_state_dict).                                   *)
(* Mutant: the number of updates is not part of it. *)
LoadEmaUncounted(state) == [state EXCEPT !.updates = 0]
LoadEma(state) == state
LoadsCheckpoint ==
    /\ trainer.pc = "idle"
    /\ saved # <<>>
    /\ trouble.renewals > 0
    /\ trouble' = [trouble EXCEPT !.renewals = @ - 1]
    /\ LET c == saved[1] IN
         /\ model' = c.model
         /\ ema' = LoadEma(c.ema)
         /\ trainer' = [trainer EXCEPT !.epoch = c.epoch, !.step = c.step, !.opt = c.opt,
                                       !.schedule = c.schedule, !.scale = c.scale]
    /\ UNCHANGED <<setup, fetcher, used, saved>>

(* run_epoch without a trainer makes one around the model it is given.       *)
RenewsTrainer ==
    /\ trainer.pc = "idle"
    /\ trouble.renewals > 0
    /\ trouble' = [trouble EXCEPT !.renewals = @ - 1]
    /\ trainer' = NewTrainer
    /\ ema' = NewEma(model)
    /\ UNCHANGED <<setup, model, fetcher, used, saved>>

TrainerStep ==
    \/ EpochBegins \/ GetsFromQueue \/ GetsFromLoader
    \/ LossNotFinite \/ OptimizerSteps \/ SkippedStep
    \/ ClosesFetcher \/ SavesCheckpoint \/ LoadsCheckpoint \/ RenewsTrainer

ThreadStep == ThreadChecks \/ ThreadTakes \/ ThreadFails \/ ThreadPuts

TrainNext == TrainerStep \/ ThreadStep

TrainSpec == TrainInit /\ [][TrainNext]_trainVars

------------------------------------------------------------------------------
(* The fetching ahead is invisible: a trainer that waits for a batch has one *)
(* coming, an item in the queue or a thread that will put one there, and the *)
(* batches it takes are those of the iterator, in order and without a gap.   *)
Pending(f) == f.queue \o (IF f.pc = "put" THEN <<f.item>> ELSE <<>>)

PrefetchIsIterator ==
    setup.prefetch > 0 =>
        /\ trainer.pc = "get" => fetcher.queue # <<>> \/ (fetcher.pc # "done" /\ ~fetcher.closed)
        /\ \A k \in DOMAIN Pending(fetcher) : Pending(fetcher)[k] > 0 => Pending(fetcher)[k] = used + k

(* While the decay warms up, the average is the mean of the weights after    *)
(* every update since it began, the first ones included: also after a step   *)
(* was skipped, an epoch failed, or a checkpoint took trainer and average    *)
(* back (ModelEMA.update, load_state_dict).                                  *)
EmaIsMean ==
    ema.updates <= WarmUp => ema.num * (ema.updates + 1) = ema.total * ema.den

(* Optimiser, schedule and average have made the same steps, as long as the  *)
(* loss scale is not zero, and as many as batches were not skipped; the      *)
(* checkpoint as well.                                                       *)
InStep(state, updates) ==
    /\ state.opt <= state.step
    /\ state.scale > 0 => updates = state.opt /\ (setup.scheduled => state.schedule = state.opt)

StepsAgree ==
    /\ InStep(trainer, ema.updates)
    /\ saved # <<>> => InStep(saved[1], saved[1].ema.updates)

(* The averaged weights are those of the training that was done: every step   *)
(* of the optimiser is in the mean, with its weight, and none twice           *)
(* (Trainer._train_step, ModelEMA.update, save_checkpoint, load_checkpoint).  *)
AverageOfTheSteps == EmaIsMean /\ StepsAgree

=============================================================================
