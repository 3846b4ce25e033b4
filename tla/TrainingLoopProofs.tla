------------------------- MODULE TrainingLoopProofs -------------------------
(* What training keeps. The loop of one trainer, for any number of calls and *)
(* batches, any depth of prefetching, any gradients, errors and renewals: the*)
(* prefetch thread is invisible, and the averaged weights are the mean of the*)
(* steps. The supervisor of many trials, for any families, rungs, population,*)
(* scores and troubles: a quarantined family stays out.                      *)
EXTENDS TrainingLoop, TrialSupervisor, FiniteSetTheorems, SequenceTheorems, TLAPS

------------------------------------------------------------------------------
(* Types.                                                                    *)

Counters == [pc : {"idle", "get", "step", "close", "save"}, failed : BOOLEAN, again : BOOLEAN,
             epoch : Nat, step : Nat, batch : Nat, opt : Nat, schedule : Nat, scale : Nat]

Averages == [num : Int, den : Int, updates : Nat, total : Int]

Checkpoints == [epoch : Nat, step : Nat, opt : Nat, scale : Nat, schedule : Nat, model : Int, ema : Averages]

TroubleRecords == [calls : Nat, renewals : Nat, errors : Nat]

LoopTypeOK ==
    /\ setup \in Setups
    /\ trainer \in Counters
    /\ model \in Int
    /\ ema \in Averages
    /\ saved # <<>> => saved[1] \in Checkpoints
    /\ trouble \in TroubleRecords

LEMMA Setting == ASSUME setup \in Setups
                 PROVE  setup.prefetch \in Nat /\ setup.scheduled \in BOOLEAN /\ setup.smoke \in BOOLEAN
  BY SetupsOK

LEMMA UpdateTypes ==
    ASSUME NEW e \in Averages, NEW w \in Int
    PROVE  Update(e, w) \in Averages /\ Update(e, w).updates = e.updates + 1
<1> DEFINE n == e.updates + 1
           d == IF n < WarmUp THEN n ELSE WarmUp
<1>1. e.num \in Int /\ e.den \in Int /\ e.updates \in Nat /\ e.total \in Int
  BY DEF Averages
<1>2. n \in Nat /\ d \in Nat
  BY <1>1, WarmUpOK
<1> HIDE DEF d
<1>3. d * e.num + w * e.den \in Int /\ (d + 1) * e.den \in Int /\ e.total + w \in Int
  BY <1>1, <1>2
<1>4. Update(e, w) = [num |-> d * e.num + w * e.den, den |-> (d + 1) * e.den, updates |-> n, total |-> e.total + w]
  BY DEF Update, d
<1> QED
  BY <1>2, <1>3, <1>4 DEF Averages

(* What a batch counts, after its step. *)
LEMMA Counted ==
    ASSUME setup \in Setups, NEW t \in Counters
    PROVE  /\ NextBatch(t) \in Counters /\ Advance(t) \in Counters /\ ScaleDown(t) \in Counters
           /\ NextBatch(t).opt = t.opt /\ NextBatch(t).schedule = t.schedule /\ NextBatch(t).scale = t.scale
           /\ NextBatch(t).step = t.step + 1 /\ NextBatch(t).pc \in {"get", "close"}
           /\ Advance(t).opt = t.opt /\ Advance(t).scale = t.scale /\ Advance(t).step = t.step
           /\ Advance(t).schedule = IF setup.scheduled THEN t.schedule + 1 ELSE t.schedule
           /\ ScaleDown(t).opt = t.opt /\ ScaleDown(t).schedule = t.schedule /\ ScaleDown(t).step = t.step
           /\ ScaleDown(t).scale <= t.scale
<1>1. /\ t.batch + 1 \in Nat /\ t.step + 1 \in Nat /\ t.schedule + 1 \in Nat
      /\ t.scale \in Nat
  BY DEF Counters
<1>2. /\ NextBatch(t) \in Counters
      /\ NextBatch(t).opt = t.opt /\ NextBatch(t).schedule = t.schedule /\ NextBatch(t).scale = t.scale
      /\ NextBatch(t).step = t.step + 1 /\ NextBatch(t).pc \in {"get", "close"}
  BY <1>1 DEF NextBatch, Counters
<1>3. /\ Advance(t) \in Counters
      /\ Advance(t).opt = t.opt /\ Advance(t).scale = t.scale /\ Advance(t).step = t.step
      /\ Advance(t).schedule = IF setup.scheduled THEN t.schedule + 1 ELSE t.schedule
  BY <1>1, Setting DEF Advance, Counters
<1>4. /\ ScaleDown(t) \in Counters
      /\ ScaleDown(t).opt = t.opt /\ ScaleDown(t).schedule = t.schedule /\ ScaleDown(t).step = t.step
      /\ ScaleDown(t).scale <= t.scale
  BY <1>1 DEF ScaleDown, Counters
<1> QED
  BY <1>2, <1>3, <1>4

Stepped(scale) == NextBatch(Advance([trainer EXCEPT !.opt = @ + 1, !.scale = scale]))

LEMMA SteppedTypes ==
    ASSUME setup \in Setups, trainer \in Counters, NEW scale \in Nat
    PROVE  /\ Stepped(scale) \in Counters /\ Stepped(scale).pc \in {"get", "close"}
           /\ Stepped(scale).opt = trainer.opt + 1 /\ Stepped(scale).step = trainer.step + 1
           /\ Stepped(scale).schedule = IF setup.scheduled THEN trainer.schedule + 1 ELSE trainer.schedule
           /\ Stepped(scale).scale = scale
<1> DEFINE t == [trainer EXCEPT !.opt = @ + 1, !.scale = scale]
<1>1. trainer.opt + 1 \in Nat
  BY DEF Counters
<1>2. /\ t \in Counters /\ t.opt = trainer.opt + 1 /\ t.step = trainer.step /\ t.schedule = trainer.schedule
      /\ t.scale = scale
  BY <1>1 DEF Counters
<1> HIDE DEF t
<1>3. /\ Advance(t) \in Counters /\ Advance(t).opt = t.opt /\ Advance(t).scale = t.scale /\ Advance(t).step = t.step
      /\ Advance(t).schedule = IF setup.scheduled THEN t.schedule + 1 ELSE t.schedule
  BY <1>2, Counted
<1>4. Stepped(scale) = NextBatch(Advance(t))
  BY DEF Stepped, t
<1> DEFINE u == Advance(t)
<1> HIDE DEF u
<1>5. /\ NextBatch(u) \in Counters /\ NextBatch(u).opt = u.opt /\ NextBatch(u).schedule = u.schedule
      /\ NextBatch(u).scale = u.scale /\ NextBatch(u).step = u.step + 1 /\ NextBatch(u).pc \in {"get", "close"}
  BY <1>3, Counted DEF u
<1> QED
  BY <1>2, <1>3, <1>4, <1>5 DEF u

LEMMA TypesKept == LoopTypeOK /\ [TrainNext]_trainVars => LoopTypeOK'
<1> SUFFICES ASSUME LoopTypeOK, [TrainNext]_trainVars PROVE LoopTypeOK'
  OBVIOUS
<1> USE DEF LoopTypeOK
<1>1. CASE UNCHANGED trainVars
  BY <1>1 DEF trainVars
<1>2. CASE ThreadStep
  <2>1. UNCHANGED <<setup, trainer, model, ema, saved>>
    BY <1>2 DEF ThreadStep, ThreadChecks, ThreadTakes, ThreadFails, ThreadPuts
  <2>2. trouble' \in TroubleRecords
    BY <1>2 DEF ThreadStep, ThreadChecks, ThreadTakes, ThreadFails, ThreadPuts, TroubleRecords
  <2> QED
    BY <2>1, <2>2
<1>3. CASE EpochBegins
  <2>1. trainer.epoch + 1 \in Nat
    BY DEF Counters
  <2>2. trainer' = [trainer EXCEPT !.pc = "get", !.failed = FALSE, !.again = FALSE, !.epoch = trainer.epoch + 1,
                                   !.batch = 0]
    BY <1>3 DEF EpochBegins
  <2>3. trainer' \in Counters
    BY <2>1, <2>2 DEF Counters
  <2> QED
    BY <1>3, <2>3 DEF EpochBegins, TroubleRecords
<1>4. CASE GetsFromQueue
  <2>1. trainer' \in Counters
    BY <1>4 DEF GetsFromQueue, StartsAgain, TakesBatch, LeavesEpoch, Counters
  <2> QED
    BY <1>4, <2>1 DEF GetsFromQueue
<1>5. CASE GetsFromLoader
  <2>1. trainer' \in Counters
    BY <1>5 DEF GetsFromLoader, StartsAgain, TakesBatch, LeavesEpoch, Counters
  <2>2. trouble' \in TroubleRecords
    BY <1>5 DEF GetsFromLoader, TroubleRecords
  <2> QED
    BY <1>5, <2>1, <2>2 DEF GetsFromLoader
<1>6. CASE LossNotFinite
  BY <1>6 DEF LossNotFinite, Counters
<1>7. CASE OptimizerSteps
  <2>1. model' \in Int /\ ema' = Update(ema, model') /\ UNCHANGED <<setup, saved, trouble>>
    <3>1. PICK g \in Gradients : model' = model + g
      BY <1>7 DEF OptimizerSteps
    <3> QED
      BY <1>7, <3>1, GradientsOK DEF OptimizerSteps
  <2>2. PICK scale \in ScalesAfterStep : trainer' = Stepped(scale)
    BY <1>7 DEF OptimizerSteps, Stepped
  <2>3. scale \in Nat
    BY DEF ScalesAfterStep, Counters
  <2>4. trainer' \in Counters
    BY <2>2, <2>3, SteppedTypes
  <2>5. ema' \in Averages
    BY <2>1, UpdateTypes
  <2> QED
    BY <2>1, <2>4, <2>5
<1>8. CASE SkippedStep
  <2>1. trainer' = NextBatch(Advance(ScaleDown(trainer))) \/ trainer' = NextBatch(ScaleDown(trainer))
    BY <1>8 DEF SkippedStep
  <2>2. trainer' \in Counters
    BY <2>1, Counted
  <2>3. ema' \in Averages
    BY <1>8, UpdateTypes DEF SkippedStep
  <2> QED
    BY <1>8, <2>2, <2>3 DEF SkippedStep
<1>9. CASE ClosesFetcher
  <2>1. trainer' \in Counters
    BY <1>9 DEF ClosesFetcher, Counters
  <2>2. trouble' \in TroubleRecords
    BY <1>9 DEF ClosesFetcher, TroubleRecords
  <2> QED
    BY <1>9, <2>1, <2>2 DEF ClosesFetcher
<1>10. CASE SavesCheckpoint
  <2>1. trainer' \in Counters
    BY <1>10 DEF SavesCheckpoint, Counters
  <2>2. saved'[1] \in Checkpoints
    BY <1>10 DEF SavesCheckpoint, Counters, Checkpoints
  <2> QED
    BY <1>10, <2>1, <2>2 DEF SavesCheckpoint
<1>11. CASE LoadsCheckpoint
  <2>1. saved[1] \in Checkpoints
    BY <1>11 DEF LoadsCheckpoint
  <2>2. trainer' \in Counters
    BY <1>11, <2>1 DEF LoadsCheckpoint, Counters, Checkpoints
  <2>3. model' \in Int /\ ema' \in Averages
    BY <1>11, <2>1 DEF LoadsCheckpoint, LoadEma, Checkpoints
  <2>4. trouble' \in TroubleRecords
    BY <1>11 DEF LoadsCheckpoint, TroubleRecords
  <2> QED
    BY <1>11, <2>2, <2>3, <2>4 DEF LoadsCheckpoint
<1>12. CASE RenewsTrainer
  <2>1. trainer' \in Counters
    BY <1>12, ScaleOK DEF RenewsTrainer, NewTrainer, Counters
  <2>2. ema' \in Averages /\ trouble' \in TroubleRecords
    BY <1>12 DEF RenewsTrainer, NewEma, Averages, TroubleRecords
  <2> QED
    BY <1>12, <2>1, <2>2 DEF RenewsTrainer
<1> QED
  BY <1>1, <1>2, <1>3, <1>4, <1>5, <1>6, <1>7, <1>8, <1>9, <1>10, <1>11, <1>12 DEF TrainNext, TrainerStep

------------------------------------------------------------------------------
(* The iterator.                                                             *)

Items == Nat \cup {Failure}

Fetchers == [queue : Seq(Items), closed : BOOLEAN, pc : {"check", "next", "put", "done"},
             item : Items, taken : Nat, ends : Nat]

FetcherOK == setup \in Setups /\ fetcher \in Fetchers /\ used \in Nat

(* Only what is put last may be the end, or a failure; the thread has taken  *)
(* as many batches as were used or wait; and when the trainer depends on it, *)
(* it is not told to stop and does not end without saying so.                *)
InOrder(f, n) ==
    /\ \A k \in 1 .. Len(f.queue) : f.queue[k] > 0 => f.queue[k] = n + k
    /\ \A k \in 1 .. Len(f.queue) : k < Len(f.queue) \/ f.pc # "done" => f.queue[k] > 0
    /\ f.pc \in {"check", "next"} => f.taken = n + Len(f.queue)
    /\ f.pc = "put" /\ f.item > 0 => f.item = n + Len(f.queue) + 1 /\ f.taken = f.item

EndsAloud(f) == f.pc = "done" => f.queue # <<>> /\ f.queue[Len(f.queue)] <= 0

FetchInv ==
    /\ FetcherOK
    /\ setup.prefetch > 0 =>
          /\ InOrder(fetcher, used)
          /\ trainer.pc \in {"get", "step"} => ~fetcher.closed /\ EndsAloud(fetcher)

LEMMA Queues ==
    ASSUME NEW q \in Seq(Items)
    PROVE  /\ Len(q) \in Nat
           /\ (q = <<>>) <=> (Len(q) = 0)
           /\ \A k \in 1 .. Len(q) : q[k] \in Items
           /\ DOMAIN q = 1 .. Len(q)
  BY EmptySeq, LenProperties, ElementOfSeq

LEMMA Appended ==
    ASSUME NEW q \in Seq(Items), NEW i \in Items
    PROVE  /\ Append(q, i) \in Seq(Items) /\ Len(Append(q, i)) = Len(q) + 1
           /\ \A k \in 1 .. Len(q) : Append(q, i)[k] = q[k]
           /\ Append(q, i)[Len(q) + 1] = i
  BY AppendProperties

LEMMA Taken ==
    ASSUME NEW q \in Seq(Items), q # <<>>
    PROVE  /\ Head(q) = q[1] /\ Tail(q) \in Seq(Items) /\ Len(Tail(q)) = Len(q) - 1
           /\ \A k \in 1 .. Len(q) - 1 : Tail(q)[k] = q[k + 1]
<1>1. /\ Tail(q) \in Seq(Items) /\ Len(Tail(q)) = Len(q) - 1
      /\ \A k \in 1 .. Len(Tail(q)) : Tail(q)[k] = q[k + 1]
  BY HeadTailProperties, Zenon
<1> QED
  BY <1>1

LEMMA NewFetcherStarts ==
    ASSUME setup \in Setups, NEW n \in LoaderEnds
    PROVE  /\ NewFetcher(n) \in Fetchers
           /\ setup.prefetch > 0 =>
                 InOrder(NewFetcher(n), 0) /\ ~NewFetcher(n).closed /\ EndsAloud(NewFetcher(n))
<1>1. <<>> \in Seq(Items) /\ Len(<<>>) = 0
  BY EmptySeq
<1>2. n \in Nat
  BY EndsOK
<1> QED
  BY <1>1, <1>2 DEF NewFetcher, Fetchers, InOrder, EndsAloud, Items, Stop

(* The thread's own steps.                                                   *)
LEMMA ThreadMakes ==
    ASSUME FetchInv, NEW f \in Fetchers, NEW pc \in {"next", "put", "done"},
           fetcher.pc \in {"check", "next"},
           f.queue = fetcher.queue, f.closed = fetcher.closed, f.pc = pc,
           pc = "next" => f.taken = fetcher.taken,
           pc = "done" => fetcher.closed,
           pc = "put" /\ f.item > 0 => f.item = fetcher.taken + 1 /\ f.taken = f.item,
           setup.prefetch > 0
    PROVE  InOrder(f, used) /\ (trainer.pc \in {"get", "step"} => ~f.closed /\ EndsAloud(f))
<1>1. /\ fetcher.queue \in Seq(Items) /\ fetcher.taken \in Nat /\ used \in Nat
      /\ f.item \in Items /\ f.taken \in Nat
  BY DEF FetchInv, FetcherOK, Fetchers
<1>2. Len(fetcher.queue) \in Nat /\ \A k \in 1 .. Len(fetcher.queue) : fetcher.queue[k] \in Items
  BY <1>1, Queues
<1> QED
  BY <1>1, <1>2 DEF FetchInv, InOrder, EndsAloud, Items, Failure

LEMMA ThreadKeepsOrder == FetchInv /\ ThreadStep => FetchInv'
<1> SUFFICES ASSUME FetchInv, ThreadStep PROVE FetchInv'
  OBVIOUS
<1> DEFINE q == fetcher.queue
<1>1. /\ q \in Seq(Items) /\ Len(q) \in Nat /\ \A k \in 1 .. Len(q) : q[k] \in Items
      /\ fetcher.taken \in Nat /\ fetcher.ends \in Nat /\ fetcher.item \in Items /\ used \in Nat
      /\ fetcher \in Fetchers
  BY Queues DEF FetchInv, FetcherOK, Fetchers
<1>2. UNCHANGED <<setup, trainer, used>>
  BY DEF ThreadStep, ThreadChecks, ThreadTakes, ThreadFails, ThreadPuts
<1>3. ASSUME ThreadChecks \/ ThreadTakes \/ ThreadFails PROVE FetchInv'
  <2>1. fetcher.pc \in {"check", "next"}
    BY <1>3 DEF ThreadChecks, ThreadTakes, ThreadFails
  <2>2. /\ fetcher' \in Fetchers /\ fetcher'.queue = q /\ fetcher'.closed = fetcher.closed
        /\ fetcher'.pc \in {"next", "put", "done"}
        /\ fetcher'.pc = "next" => fetcher'.taken = fetcher.taken
        /\ fetcher'.pc = "done" => fetcher.closed
        /\ fetcher'.pc = "put" /\ fetcher'.item > 0 => fetcher'.item = fetcher.taken + 1 /\ fetcher'.taken = fetcher'.item
    <3>1. CASE ThreadChecks
      <4>1. fetcher' = [fetcher EXCEPT !.pc = IF fetcher.closed THEN "done" ELSE "next"]
        BY <3>1 DEF ThreadChecks
      <4> QED
        BY <4>1, <1>1 DEF Fetchers
    <3>2. CASE ThreadTakes
      <4>1. CASE fetcher.taken < fetcher.ends
        <5>1. fetcher' = [fetcher EXCEPT !.pc = "put", !.taken = fetcher.taken + 1, !.item = fetcher.taken + 1]
          BY <3>2, <4>1 DEF ThreadTakes
        <5> DEFINE t == fetcher.taken + 1
        <5>2. t \in Nat /\ t \in Items
          BY <1>1 DEF Items
        <5> HIDE DEF t
        <5>3. fetcher' = [fetcher EXCEPT !.pc = "put", !.taken = t, !.item = t]
          BY <5>1 DEF t
        <5>4. fetcher' \in Fetchers
          BY <5>3, <5>2, <1>1 DEF Fetchers
        <5>5. /\ fetcher'.queue = q /\ fetcher'.closed = fetcher.closed /\ fetcher'.pc = "put"
              /\ fetcher'.item = t /\ fetcher'.taken = t
          BY <5>3, <1>1 DEF Fetchers
        <5>6. fetcher'.item = fetcher.taken + 1 /\ fetcher'.taken = fetcher'.item /\ fetcher'.pc = "put"
          BY <5>5 DEF t
        <5> QED
          BY <5>4, <5>5, <5>6, Zenon
      <4>2. CASE ~(fetcher.taken < fetcher.ends)
        <5>1. fetcher' = [fetcher EXCEPT !.pc = "put", !.item = 0]
          BY <3>2, <4>2 DEF ThreadTakes, EndOfLoader, Stop
        <5>2. 0 \in Items
          BY DEF Items
        <5>3. fetcher' \in Fetchers
          BY <5>1, <5>2, <1>1 DEF Fetchers
        <5> QED
          BY <5>1, <5>3, <1>1 DEF Fetchers
      <4> QED
        BY <4>1, <4>2
    <3>3. CASE ThreadFails
      <4>1. fetcher' = [fetcher EXCEPT !.pc = "put", !.item = -1]
        BY <3>3 DEF ThreadFails, Failure
      <4>2. -1 \in Items /\ ~(-1 > 0)
        BY DEF Items, Failure
      <4> HIDE DEF q
      <4>3. fetcher' \in Fetchers
        BY <4>1, <4>2, <1>1 DEF Fetchers
      <4>4. fetcher'.queue = q /\ fetcher'.closed = fetcher.closed /\ fetcher'.pc = "put" /\ fetcher'.item = -1
        BY <4>1, <1>1 DEF Fetchers, q
      <4> QED
        BY <4>2, <4>3, <4>4, Zenon
    <3> QED
      BY <1>3, <3>1, <3>2, <3>3
  <2>3. FetcherOK'
    BY <2>2, <1>2 DEF FetchInv, FetcherOK
  <2>4. ASSUME setup.prefetch > 0
        PROVE  InOrder(fetcher', used) /\ (trainer.pc \in {"get", "step"} => ~fetcher'.closed /\ EndsAloud(fetcher'))
    BY <2>1, <2>2, <2>4, ThreadMakes
  <2> QED
    BY <2>3, <2>4, <1>2 DEF FetchInv
<1>4. ASSUME ThreadPuts PROVE FetchInv'
  <2>1. fetcher.pc = "put" /\ Len(q) < setup.prefetch
    BY <1>4 DEF ThreadPuts
  <2>2. /\ fetcher'.queue = Append(q, fetcher.item) /\ fetcher'.closed = fetcher.closed
        /\ fetcher'.pc = IF fetcher.item > 0 THEN "check" ELSE "done"
        /\ fetcher'.item = fetcher.item /\ fetcher'.taken = fetcher.taken
    BY <1>4, <1>1 DEF ThreadPuts, Fetchers
  <2>3. PICK r \in Seq(Items) : /\ r = Append(q, fetcher.item) /\ Len(r) = Len(q) + 1
                               /\ \A k \in 1 .. Len(q) : r[k] = q[k]
                               /\ r[Len(q) + 1] = fetcher.item
    BY <1>1, Appended
  <2>4. r # <<>> /\ fetcher'.queue = r
    BY <2>2, <2>3, <1>1, Queues
  <2>5. FetcherOK'
    BY <1>4, <1>1, <1>2, <2>3 DEF ThreadPuts, FetchInv, FetcherOK, Fetchers
  <2>6. ASSUME setup.prefetch > 0 PROVE InOrder(fetcher', used)
    <3>1. InOrder(fetcher, used) /\ fetcher.queue = q
      BY <2>6 DEF FetchInv
    <3>2. /\ \A k \in 1 .. Len(q) : q[k] = used + k
          /\ fetcher.item > 0 => fetcher.item = used + Len(q) + 1 /\ fetcher.taken = fetcher.item
      BY <3>1, <2>1 DEF InOrder
    <3>3. fetcher'.pc \in {"check", "done"} /\ (fetcher'.pc = "check" <=> fetcher.item > 0)
      BY <2>2
    <3>4. fetcher'.pc = "check" => fetcher'.taken = used + Len(r)
      BY <3>2, <3>3, <2>2, <2>3, <1>1 DEF Items, Failure
    <3>5. \A k \in 1 .. Len(r) : /\ r[k] > 0 => r[k] = used + k
                                 /\ k < Len(r) \/ fetcher.item > 0 => r[k] > 0
      <4> SUFFICES ASSUME NEW k \in 1 .. Len(q) + 1
                   PROVE  (r[k] > 0 => r[k] = used + k) /\ (k < Len(r) \/ fetcher.item > 0 => r[k] > 0)
        BY <2>3
      <4>1. CASE k \in 1 .. Len(q)
        BY <4>1, <3>2, <2>3, <1>1
      <4>2. CASE k = Len(q) + 1
        BY <4>2, <3>2, <2>3, <1>1
      <4> QED
        BY <4>1, <4>2, <1>1
    <3>6. \A k \in 1 .. Len(r) : /\ r[k] > 0 => r[k] = used + k
                                 /\ k < Len(r) \/ fetcher'.pc # "done" => r[k] > 0
      BY <3>3, <3>5, Zenon
    <3> QED
      BY <3>3, <3>4, <3>6, <2>4 DEF InOrder
  <2>7. EndsAloud(fetcher')
    BY <2>2, <2>3, <2>4, <1>1 DEF EndsAloud, Items, Failure
  <2>8. setup.prefetch > 0 /\ trainer.pc \in {"get", "step"} => ~fetcher.closed
    BY DEF FetchInv
  <2> QED
    BY <2>2, <2>5, <2>6, <2>7, <2>8, <1>2 DEF FetchInv
<1> QED
  BY <1>3, <1>4 DEF ThreadStep

(* The trainer's steps. Most leave the iterator alone, or begin a new one.   *)
LEMMA IteratorRests ==
    ASSUME FetchInv, UNCHANGED <<setup, fetcher, used>>,
           trainer'.pc \in {"get", "step"} => trainer.pc \in {"get", "step"}
    PROVE  FetchInv'
  BY DEF FetchInv, FetcherOK

LEMMA IteratorBegins ==
    ASSUME FetchInv, MakesFetcher, UNCHANGED setup
    PROVE  FetchInv'
<1>1. PICK n \in LoaderEnds : fetcher' = NewFetcher(n)
  BY DEF MakesFetcher
<1>2. used' = 0
  BY DEF MakesFetcher
<1>3. setup \in Setups
  BY DEF FetchInv, FetcherOK
<1>4. FetcherOK'
  BY <1>1, <1>2, <1>3, NewFetcherStarts DEF FetcherOK
<1> QED
  BY <1>1, <1>2, <1>3, <1>4, NewFetcherStarts DEF FetchInv

(* The trainer takes what is at the head. *)
LEMMA QueueGives == LoopTypeOK /\ FetchInv /\ GetsFromQueue => FetchInv'
<1> SUFFICES ASSUME LoopTypeOK, FetchInv, GetsFromQueue PROVE FetchInv'
  OBVIOUS
<1>1. PICK q \in Seq(Items) : q = fetcher.queue
  BY DEF FetchInv, FetcherOK, Fetchers
<1>2. /\ trainer.pc = "get" /\ setup.prefetch > 0 /\ q # <<>> /\ setup' = setup
      /\ fetcher \in Fetchers /\ used \in Nat
  BY <1>1 DEF GetsFromQueue, FetchInv, FetcherOK
<1>3. q \in Seq(Items) /\ Len(q) \in Nat \ {0} /\ \A k \in 1 .. Len(q) : q[k] \in Items
  BY <1>2, Queues DEF Fetchers
<1>4. Len(q) \in Int /\ Len(q) >= 1 /\ used \in Int /\ fetcher.item \in Int /\ fetcher.taken \in Int
  BY <1>2, <1>3 DEF Fetchers, Items, Failure
<1>5. CASE MakesFetcher
  BY <1>2, <1>5, IteratorBegins
<1>6. CASE /\ fetcher' = [fetcher EXCEPT !.queue = Tail(@)]
           /\ IF Head(q) > 0 THEN TakesBatch ELSE LeavesEpoch
  <2>1. PICK t \in Seq(Items) : /\ t = Tail(q) /\ Len(t) = Len(q) - 1
                               /\ \A k \in 1 .. Len(q) - 1 : t[k] = q[k + 1]
    BY <1>2, <1>3, Taken
  <2>2. Len(t) = Len(q) - 1
    BY <2>1, Zenon
  <2>3. Len(t) \in Int /\ Len(q) = Len(t) + 1
    BY <2>2, <1>4
  <2>4. Head(q) = q[1]
    BY <1>2, <1>3, Taken
  <2>5. /\ fetcher' \in Fetchers /\ fetcher'.queue = t /\ fetcher'.closed = fetcher.closed
        /\ fetcher'.pc = fetcher.pc /\ fetcher'.item = fetcher.item /\ fetcher'.taken = fetcher.taken
    BY <1>2, <1>6, <1>1, <2>1 DEF Fetchers
  <2>6. /\ ~fetcher.closed
        /\ fetcher.pc = "done" => q[Len(q)] <= 0
        /\ \A k \in 1 .. Len(q) : q[k] > 0 => q[k] = used + k
        /\ \A k \in 1 .. Len(q) : k < Len(q) \/ fetcher.pc # "done" => q[k] > 0
        /\ fetcher.pc \in {"check", "next"} => fetcher.taken = used + Len(q)
        /\ fetcher.pc = "put" /\ fetcher.item > 0 => fetcher.item = used + Len(q) + 1 /\ fetcher.taken = fetcher.item
    BY <1>2, <1>1, Zenon DEF FetchInv, InOrder, EndsAloud
  <2>7. CASE q[1] > 0
    <3>1. used' = used + 1
      BY <1>6, <2>4, <2>7 DEF TakesBatch
    <3>2. \A k \in 1 .. Len(t) : /\ t[k] > 0 => t[k] = used + 1 + k
                                 /\ k < Len(t) \/ fetcher.pc # "done" => t[k] > 0
      <4> SUFFICES ASSUME NEW k \in 1 .. Len(q) - 1
                   PROVE  (t[k] > 0 => t[k] = used + 1 + k) /\ (k < Len(t) \/ fetcher.pc # "done" => t[k] > 0)
        BY <2>1
      <4>1. k + 1 \in 1 .. Len(q) /\ t[k] = q[k + 1]
        BY <1>3, <2>1
      <4>2. q[k + 1] > 0 => q[k + 1] = used + (k + 1)
        BY <4>1, <2>6
      <4>3. k + 1 < Len(q) \/ fetcher.pc # "done" => q[k + 1] > 0
        BY <4>1, <2>6
      <4> QED
        BY <4>1, <4>2, <4>3, <1>2, <1>3, <2>1
    <3>3. fetcher.pc \in {"check", "next"} => fetcher.taken = used + 1 + Len(t)
      BY <2>3, <2>6, <1>4 
    <3>4. fetcher.pc = "put" /\ fetcher.item > 0 => fetcher.item = used + 1 + Len(t) + 1 /\ fetcher.taken = fetcher.item
      BY <2>3, <2>6, <1>4
    <3>5. InOrder(fetcher', used')
      BY <2>5, <3>1, <3>2, <3>3, <3>4 DEF InOrder
    <3>6. EndsAloud(fetcher')
      <4>1. SUFFICES ASSUME fetcher.pc = "done" PROVE t # <<>> /\ t[Len(t)] <= 0
        BY <2>5 DEF EndsAloud
      <4>2. q[Len(q)] <= 0
        BY <4>1, <2>6
      <4>3. Len(q) # 1
        BY <4>2, <2>7, <1>3 DEF Items, Failure
      <4>4. Len(t) \in 1 .. Len(q) - 1
        BY <4>3, <2>3, <1>4
      <4>5. t # <<>>
        BY <4>4, Queues
      <4> QED
        BY <4>2, <4>4, <4>5, <2>1, <1>3
    <3>7. FetcherOK'
      BY <1>2, <2>5, <3>1 DEF FetchInv, FetcherOK
    <3> QED
      BY <3>5, <3>6, <3>7, <2>5, <2>6 DEF FetchInv
  <2>8. CASE ~(q[1] > 0)
    <3>1. used' = used /\ trainer'.pc = "close"
      BY <1>6, <2>4, <2>8 DEF LeavesEpoch, LoopTypeOK, Counters
    <3>2. ~(1 < Len(q)) /\ fetcher.pc = "done"
      BY <2>6, <2>8, <1>3
    <3>3. Len(t) = 0
      BY <3>2, <2>3, <1>4
    <3>4. InOrder(fetcher', used')
      BY <2>5, <3>1, <3>2, <3>3 DEF InOrder
    <3>5. FetcherOK'
      BY <1>2, <2>5, <3>1 DEF FetchInv, FetcherOK
    <3> QED
      BY <3>1, <3>4, <3>5 DEF FetchInv
  <2> QED
    BY <2>7, <2>8
<1> QED
  BY <1>5, <1>6, <1>1 DEF GetsFromQueue, StartsAgain

LEMMA IteratorKept == LoopTypeOK /\ FetchInv /\ [TrainNext]_trainVars => FetchInv'
<1> SUFFICES ASSUME LoopTypeOK, FetchInv, [TrainNext]_trainVars PROVE FetchInv'
  OBVIOUS
<1>1. CASE UNCHANGED trainVars
  BY <1>1, IteratorRests DEF trainVars
<1>2. CASE ThreadStep
  BY <1>2, ThreadKeepsOrder
<1>3. CASE EpochBegins
  BY <1>3, IteratorBegins DEF EpochBegins
<1>4. CASE GetsFromQueue
  BY <1>4, QueueGives
<1>5. CASE GetsFromLoader
  <2>1. setup' = setup /\ setup \in Setups /\ setup.prefetch = 0 /\ fetcher \in Fetchers /\ used \in Nat
    BY <1>5 DEF GetsFromLoader, FetchInv, FetcherOK
  <2>2. CASE MakesFetcher
    BY <2>1, <2>2, IteratorBegins
  <2>3. CASE ~MakesFetcher
    <3>1. fetcher' = [fetcher EXCEPT !.taken = fetcher.taken + 1] \/ fetcher' = fetcher
      BY <1>5, <2>3 DEF GetsFromLoader, StartsAgain
    <3>2. fetcher.taken + 1 \in Nat
      BY <2>1 DEF Fetchers
    <3>3. fetcher' \in Fetchers
      BY <2>1, <3>1, <3>2 DEF Fetchers
    <3>4. used' \in Nat
      BY <1>5, <2>1, <2>3 DEF GetsFromLoader, StartsAgain, TakesBatch, LeavesEpoch
    <3> QED
      BY <2>1, <3>3, <3>4 DEF FetchInv, FetcherOK
  <2> QED
    BY <2>2, <2>3
<1>6. CASE LossNotFinite \/ OptimizerSteps \/ SkippedStep
  BY <1>6, IteratorRests DEF LossNotFinite, OptimizerSteps, SkippedStep
<1>7. CASE ClosesFetcher
  <2>1. /\ fetcher' = [fetcher EXCEPT !.closed = TRUE] /\ UNCHANGED <<setup, used>>
        /\ trainer'.pc \in {"idle", "save"}
    BY <1>7 DEF ClosesFetcher, LoopTypeOK, Counters
  <2>2. fetcher \in Fetchers
    BY DEF FetchInv, FetcherOK
  <2>3. /\ fetcher' \in Fetchers /\ fetcher'.queue = fetcher.queue /\ fetcher'.pc = fetcher.pc
        /\ fetcher'.item = fetcher.item /\ fetcher'.taken = fetcher.taken
    BY <2>1, <2>2 DEF Fetchers
  <2>4. setup.prefetch > 0 => InOrder(fetcher', used)
    BY <2>3 DEF FetchInv, InOrder
  <2> QED
    BY <2>1, <2>3, <2>4 DEF FetchInv, FetcherOK
<1>8. CASE SavesCheckpoint \/ LoadsCheckpoint \/ RenewsTrainer
  <2>1. trainer'.pc = "idle" /\ UNCHANGED <<setup, fetcher, used>>
    <3>1. CASE SavesCheckpoint
      BY <3>1 DEF SavesCheckpoint, LoopTypeOK, Counters
    <3>2. CASE LoadsCheckpoint
      BY <3>2 DEF LoadsCheckpoint, LoopTypeOK, Counters
    <3>3. CASE RenewsTrainer
      BY <3>3 DEF RenewsTrainer, NewTrainer
    <3> QED
      BY <1>8, <3>1, <3>2, <3>3
  <2> QED
    BY <2>1, IteratorRests
<1> QED
  BY <1>1, <1>2, <1>3, <1>4, <1>5, <1>6, <1>7, <1>8 DEF TrainNext, TrainerStep

LEMMA LoopBegins == TrainInit => LoopTypeOK /\ FetchInv
<1> SUFFICES ASSUME TrainInit PROVE LoopTypeOK /\ FetchInv
  OBVIOUS
<1>1. LoopTypeOK
  BY ScaleOK, CallsOK, RenewalsOK, ErrorsOK
     DEF TrainInit, LoopTypeOK, NewTrainer, NewEma, Counters, Averages, TroubleRecords
<1>2. fetcher = [queue |-> <<>>, closed |-> TRUE, pc |-> "done", item |-> 0, taken |-> 0, ends |-> 0]
  BY DEF TrainInit, NewFetcher, Stop
<1>3. <<>> \in Seq(Items) /\ Len(<<>>) = 0
  BY EmptySeq
<1>4. fetcher \in Fetchers
  BY <1>2, <1>3 DEF Fetchers, Items
<1>5. InOrder(fetcher, used)
  BY <1>2, <1>3 DEF InOrder
<1>6. setup \in Setups /\ used \in Nat /\ trainer.pc = "idle"
  BY DEF TrainInit, NewTrainer
<1> QED
  BY <1>1, <1>4, <1>5, <1>6 DEF FetchInv, FetcherOK

(* Counters, weights and average keep their types, and the iterator its      *)
(* order, through any interleaving of trainer and thread.                    *)
THEOREM LoopInvariant == TrainSpec => [](LoopTypeOK /\ FetchInv)
<1>1. (LoopTypeOK /\ FetchInv) /\ [TrainNext]_trainVars => (LoopTypeOK /\ FetchInv)'
  BY TypesKept, IteratorKept
<1> QED
  BY LoopBegins, <1>1, PTL DEF TrainSpec

LEMMA WaitsForSomething == LoopTypeOK /\ FetchInv => PrefetchIsIterator
<1> SUFFICES ASSUME LoopTypeOK, FetchInv, setup.prefetch > 0
             PROVE  /\ trainer.pc = "get" => fetcher.queue # <<>> \/ (fetcher.pc # "done" /\ ~fetcher.closed)
                    /\ \A k \in DOMAIN Pending(fetcher) :
                          Pending(fetcher)[k] > 0 => Pending(fetcher)[k] = used + k
  BY DEF PrefetchIsIterator
<1> DEFINE q == fetcher.queue
<1>1. q \in Seq(Items) /\ fetcher.item \in Items /\ Len(q) \in Nat /\ InOrder(fetcher, used) /\ used \in Nat
  BY Queues DEF FetchInv, FetcherOK, Fetchers
<1>2. trainer.pc = "get" => q # <<>> \/ (fetcher.pc # "done" /\ ~fetcher.closed)
  BY DEF FetchInv, EndsAloud
<1>3. CASE fetcher.pc = "put"
  <2>1. <<fetcher.item>> \in Seq(Items) /\ Len(<<fetcher.item>>) = 1 /\ <<fetcher.item>>[1] = fetcher.item
    BY <1>1
  <2> DEFINE one == <<fetcher.item>>
  <2> HIDE DEF one
  <2>2. one \in Seq(Items) /\ Len(one) = 1 /\ one[1] = fetcher.item
    BY <2>1 DEF one
  <2>3. PICK p \in Seq(Items) : /\ p = q \o one /\ Len(p) = Len(q) + 1
                               /\ \A k \in 1 .. Len(q) + 1 : p[k] = IF k <= Len(q) THEN q[k] ELSE one[k - Len(q)]
    <3>1. /\ q \o one \in Seq(Items) /\ Len(q \o one) = Len(q) + Len(one)
          /\ \A k \in 1 .. Len(q) + Len(one) : (q \o one)[k] = IF k <= Len(q) THEN q[k] ELSE one[k - Len(q)]
      BY <2>2, <1>1, ConcatProperties, Zenon
    <3> QED
      BY <3>1, <2>2
  <2>4. Pending(fetcher) = p /\ DOMAIN p = 1 .. Len(q) + 1
    BY <1>3, <2>3, Queues DEF Pending, one
  <2>5. ASSUME NEW k \in 1 .. Len(q) + 1 PROVE p[k] > 0 => p[k] = used + k
    <3>1. CASE k <= Len(q)
      BY <3>1, <2>3, <1>1 DEF InOrder
    <3>2. CASE k = Len(q) + 1
      <4>1. p[k] = fetcher.item
        BY <3>2, <2>2, <2>3, <1>1
      <4> QED
        BY <4>1, <3>2, <1>3, <1>1 DEF InOrder
    <3> QED
      BY <3>1, <3>2, <1>1
  <2> QED
    BY <1>2, <2>4, <2>5
<1>4. CASE fetcher.pc # "put"
  <2>1. Pending(fetcher) = q \o <<>>
    BY <1>4 DEF Pending
  <2>2. q \o <<>> = q
    BY <1>1, ConcatEmptySeq
  <2>3. DOMAIN q = 1 .. Len(q)
    BY <1>1, Queues
  <2> QED
    BY <1>1, <1>2, <2>1, <2>2, <2>3 DEF InOrder
<1> QED
  BY <1>3, <1>4

(* However far ahead batches are fetched and whenever the thread is slow or  *)
(* fails: a trainer that waits gets an item, and the batches it takes are    *)
(* those of the iterator in order (_PrefetchIterator, train_epoch).          *)
THEOREM PrefetchIsIteratorHolds == TrainSpec => []PrefetchIsIterator
  BY LoopInvariant, WaitsForSomething, PTL

------------------------------------------------------------------------------
(* The average.                                                              *)

MeanOf(e) == e.updates <= WarmUp => e.num * (e.updates + 1) = e.total * e.den

AverageInv ==
    /\ MeanOf(ema) /\ InStep(trainer, ema.updates)
    /\ saved # <<>> => MeanOf(saved[1].ema) /\ InStep(saved[1], saved[1].ema.updates)

LEMMA Weighed ==
    ASSUME NEW num \in Int, NEW den \in Int, NEW total \in Int, NEW w \in Int, NEW n \in Int,
           num * n = total * den
    PROVE  (n * num + w * den) * (n + 1) = (total + w) * ((n + 1) * den)
<1>1. n * num + w * den = (total + w) * den
  <2>1. n * num = total * den
    OBVIOUS
  <2>2. (total + w) * den = total * den + w * den
    OBVIOUS
  <2> QED
    BY <2>1, <2>2
<1>2. ((total + w) * den) * (n + 1) = (total + w) * ((n + 1) * den)
  OBVIOUS
<1> QED
  BY <1>1, <1>2

(* An update within the warm-up gives the new weights their equal share.     *)
LEMMA UpdateKeepsMean ==
    ASSUME NEW e \in Averages, NEW w \in Int, MeanOf(e)
    PROVE  MeanOf(Update(e, w))
<1> DEFINE n == e.updates + 1
           d == IF n < WarmUp THEN n ELSE WarmUp
<1>1. e.num \in Int /\ e.den \in Int /\ e.updates \in Nat /\ e.total \in Int
  BY DEF Averages
<1>2. /\ Update(e, w).num = d * e.num + w * e.den /\ Update(e, w).den = (d + 1) * e.den
      /\ Update(e, w).updates = n /\ Update(e, w).total = e.total + w
  BY DEF Update
<1>3. SUFFICES ASSUME n <= WarmUp
               PROVE  (d * e.num + w * e.den) * (n + 1) = (e.total + w) * ((d + 1) * e.den)
  BY <1>2 DEF MeanOf
<1>4. d = n /\ e.num * n = e.total * e.den
  BY <1>1, <1>3, WarmUpOK DEF MeanOf
<1> HIDE DEF n, d
<1>5. n \in Int
  BY <1>1 DEF n
<1> QED
  BY <1>1, <1>4, <1>5, Weighed

LEMMA AverageKept == LoopTypeOK /\ AverageInv /\ [TrainNext]_trainVars => AverageInv'
<1> SUFFICES ASSUME LoopTypeOK, AverageInv, [TrainNext]_trainVars PROVE AverageInv'
  OBVIOUS
<1>1. /\ setup \in Setups /\ trainer \in Counters /\ ema \in Averages /\ model \in Int
      /\ trainer.opt \in Nat /\ trainer.step \in Nat /\ trainer.schedule \in Nat /\ trainer.scale \in Nat
      /\ ema.updates \in Nat
  BY DEF LoopTypeOK, Counters, Averages
<1>2. ASSUME UNCHANGED <<setup, ema, saved>>, trainer'.opt = trainer.opt, trainer'.step = trainer.step,
             trainer'.schedule = trainer.schedule, trainer'.scale = trainer.scale
      PROVE  AverageInv'
  BY <1>2 DEF AverageInv, InStep
<1>3. CASE UNCHANGED trainVars \/ ThreadStep
  BY <1>2, <1>3 DEF trainVars, ThreadStep, ThreadChecks, ThreadTakes, ThreadFails, ThreadPuts
<1>4. CASE EpochBegins
  BY <1>1, <1>2, <1>4 DEF EpochBegins, Counters
<1>5. CASE GetsFromQueue \/ GetsFromLoader
  BY <1>1, <1>2, <1>5 DEF GetsFromQueue, GetsFromLoader, StartsAgain, TakesBatch, LeavesEpoch, Counters
<1>6. CASE LossNotFinite \/ ClosesFetcher
  BY <1>1, <1>2, <1>6 DEF LossNotFinite, ClosesFetcher, Counters
<1>7. CASE OptimizerSteps
  <2>1. /\ trainer.scale > 0 /\ model' \in Int /\ ema' = Update(ema, model') /\ UNCHANGED <<setup, saved>>
    <3>1. PICK g \in Gradients : model' = model + g
      BY <1>7 DEF OptimizerSteps
    <3> QED
      BY <1>1, <1>7, <3>1, GradientsOK DEF OptimizerSteps
  <2>2. PICK scale \in ScalesAfterStep : trainer' = Stepped(scale)
    BY <1>7 DEF OptimizerSteps, Stepped
  <2>3. scale \in Nat
    BY <1>1 DEF ScalesAfterStep
  <2>4. /\ trainer'.opt = trainer.opt + 1 /\ trainer'.step = trainer.step + 1
        /\ trainer'.schedule = IF setup.scheduled THEN trainer.schedule + 1 ELSE trainer.schedule
    BY <1>1, <2>2, <2>3, SteppedTypes
  <2>5. MeanOf(ema') /\ ema'.updates = ema.updates + 1
    BY <1>1, <2>1, UpdateKeepsMean, UpdateTypes DEF AverageInv
  <2>6. InStep(trainer', ema'.updates)
    BY <1>1, <2>1, <2>4, <2>5 DEF AverageInv, InStep
  <2> QED
    BY <2>1, <2>5, <2>6 DEF AverageInv, InStep
<1>8. CASE SkippedStep
  <2>1. UNCHANGED <<setup, saved>>
    BY <1>8 DEF SkippedStep
  <2>2. CASE trainer.scale = 0
    <3>1. ema' = Update(ema, model) /\ trainer' = NextBatch(Advance(ScaleDown(trainer)))
      BY <1>8, <2>2 DEF SkippedStep, CountsAsStep
    <3>2. MeanOf(ema')
      BY <1>1, <3>1, UpdateKeepsMean DEF AverageInv
    <3>3. trainer'.opt = trainer.opt /\ trainer'.step = trainer.step + 1 /\ trainer'.scale <= trainer.scale
      BY <1>1, <3>1, Counted
    <3>4. trainer'.scale \in Nat
      <4>1. trainer' \in Counters
        BY <1>1, <3>1, Counted
      <4> QED
        BY <4>1 DEF Counters
    <3>5. InStep(trainer', ema'.updates)
      BY <1>1, <2>2, <3>3, <3>4 DEF AverageInv, InStep
    <3> QED
      BY <2>1, <3>2, <3>5 DEF AverageInv, InStep
  <2>3. CASE trainer.scale # 0
    <3>1. ema' = ema /\ trainer' = NextBatch(ScaleDown(trainer))
      BY <1>8, <2>3 DEF SkippedStep, CountsAsStep
    <3>2. trainer'.opt = trainer.opt /\ trainer'.step = trainer.step + 1 /\ trainer'.schedule = trainer.schedule
      BY <1>1, <3>1, Counted
    <3>3. InStep(trainer', ema'.updates)
      BY <1>1, <2>1, <2>3, <3>1, <3>2 DEF AverageInv, InStep
    <3> QED
      BY <2>1, <3>1, <3>3 DEF AverageInv, InStep
  <2> QED
    BY <2>2, <2>3
<1>9. CASE SavesCheckpoint
  <2>1. /\ saved'[1].ema = ema /\ saved'[1].opt = trainer.opt /\ saved'[1].step = trainer.step
        /\ saved'[1].scale = trainer.scale /\ saved'[1].schedule = trainer.schedule
        /\ ema' = ema /\ setup' = setup
    BY <1>9 DEF SavesCheckpoint
  <2>2. /\ trainer'.opt = trainer.opt /\ trainer'.step = trainer.step
        /\ trainer'.scale = trainer.scale /\ trainer'.schedule = trainer.schedule
    BY <1>1, <1>9 DEF SavesCheckpoint, Counters
  <2> QED
    BY <2>1, <2>2 DEF AverageInv, InStep
<1>10. CASE LoadsCheckpoint
  <2>1. saved # <<>> /\ UNCHANGED <<setup, saved>> /\ ema' = saved[1].ema
    BY <1>10 DEF LoadsCheckpoint, LoadEma
  <2>2. /\ trainer'.opt = saved[1].opt /\ trainer'.step = saved[1].step
        /\ trainer'.scale = saved[1].scale /\ trainer'.schedule = saved[1].schedule
    BY <1>1, <1>10 DEF LoadsCheckpoint, Counters
  <2> QED
    BY <2>1, <2>2 DEF AverageInv, InStep
<1>11. CASE RenewsTrainer
  <2>1. /\ ema'.num = model /\ ema'.den = 1 /\ ema'.updates = 0 /\ ema'.total = model
        /\ UNCHANGED <<setup, saved>>
    BY <1>11 DEF RenewsTrainer, NewEma
  <2>2. trainer'.opt = 0 /\ trainer'.step = 0 /\ trainer'.schedule = 0
    BY <1>11 DEF RenewsTrainer, NewTrainer
  <2>3. MeanOf(ema')
    BY <1>1, <2>1 DEF MeanOf
  <2>4. InStep(trainer', ema'.updates)
    BY <2>1, <2>2 DEF InStep
  <2> QED
    BY <2>1, <2>3, <2>4 DEF AverageInv, InStep
<1> QED
  BY <1>3, <1>4, <1>5, <1>6, <1>7, <1>8, <1>9, <1>10, <1>11 DEF TrainNext, TrainerStep

(* The averaged weights are those of the training that was done, for any     *)
(* length of the warm-up, any gradients, and any order of steps, skipped     *)
(* steps, failures, checkpoints and renewals (ModelEMA, Trainer).            *)
THEOREM AverageOfTheStepsHolds == TrainSpec => []AverageOfTheSteps
<1>1. TrainInit => AverageInv
  BY DEF TrainInit, AverageInv, MeanOf, InStep, NewEma, NewTrainer
<1>2. AverageInv => AverageOfTheSteps
  BY DEF AverageInv, AverageOfTheSteps, EmaIsMean, StepsAgree, MeanOf
<1> QED
  BY <1>1, <1>2, AverageKept, LoopInvariant, PTL DEF TrainSpec

------------------------------------------------------------------------------
(* The supervisor: choosing by place.                                        *)

(* The members of a set before one of them. *)
Before(P, R, i) == {j \in P : <<j, i>> \in R}

(* In a finite set with a strict total order, every place has its member, and*)
(* no two members have the same place.                                       *)
Ordered(P, R) ==
    /\ \A i, j \in P : i # j => <<i, j>> \in R \/ <<j, i>> \in R
    /\ \A i \in P : <<i, i>> \notin R
    /\ \A i, j, k \in P : <<i, j>> \in R /\ <<j, k>> \in R => <<i, k>> \in R
HasPlaces(P, R) ==
    /\ Cardinality(P) \in Nat
    /\ \A i \in P : Cardinality(Before(P, R, i)) \in 0 .. Cardinality(P) - 1
    /\ \A i, k \in P : Cardinality(Before(P, R, i)) = Cardinality(Before(P, R, k)) => i = k
    /\ \A n \in 1 .. Cardinality(P) : \E i \in P : Cardinality(Before(P, R, i)) = n - 1

LEMMA PlacesAre ==
    ASSUME NEW P, IsFiniteSet(P), NEW R,
           \A i, j \in P : i # j => <<i, j>> \in R \/ <<j, i>> \in R,
           \A i \in P : <<i, i>> \notin R,
           \A i, j, k \in P : <<i, j>> \in R /\ <<j, k>> \in R => <<i, k>> \in R
    PROVE  HasPlaces(P, R)
<1> DEFINE Below(k) == Before(P, R, k)
           c == Cardinality(P)
           f == [k \in P |-> Cardinality(Below(k)) + 1]
<1>1. c \in Nat
  BY FS_CardinalityType
<1>2. ASSUME NEW k \in P
      PROVE  IsFiniteSet(Below(k)) /\ Cardinality(Below(k)) \in 0 .. c - 1
  <2> DEFINE B == Below(k)
             Q == P \ {k}
  <2>1. IsFiniteSet(Q) /\ Cardinality(Q) = c - 1
    BY FS_RemoveElement
  <2>2. B \in SUBSET Q
    BY DEF Before
  <2> HIDE DEF B, Q
  <2>3. IsFiniteSet(B) /\ Cardinality(B) <= Cardinality(Q) /\ Cardinality(B) \in Nat
    BY <2>1, <2>2, FS_Subset, FS_CardinalityType
  <2> QED
    BY <1>1, <2>1, <2>3 DEF B
<1>3. ASSUME NEW k \in P, NEW l \in P, <<k, l>> \in R
      PROVE  Cardinality(Below(k)) # Cardinality(Below(l))
  <2> DEFINE A == Below(k)
             B == Below(l)
  <2>1. A \in SUBSET B /\ k \in B /\ k \notin A
    BY <1>3, Zenon DEF Before
  <2>2. IsFiniteSet(B)
    BY <1>2
  <2> HIDE DEF A, B
  <2>3. Cardinality(A) # Cardinality(B)
    BY <2>1, <2>2, FS_Subset
  <2> QED
    BY <2>3 DEF A, B
<1>4. ASSUME NEW k \in P, NEW l \in P, Cardinality(Below(k)) = Cardinality(Below(l)) PROVE k = l
  BY <1>3, <1>4, Zenon
<1> HIDE DEF Below, c
<1>5. f \in [P -> 1 .. c]
  <2>1. \A k \in P : Cardinality(Below(k)) + 1 \in 1 .. c
    BY <1>1, <1>2
  <2> QED
    BY <2>1
<1>6. \A k \in P : f[k] = Cardinality(Below(k)) + 1
  OBVIOUS
<1>7. ASSUME NEW k \in P, NEW l \in P, f[k] = f[l] PROVE k = l
  <2>1. Cardinality(Below(k)) = Cardinality(Below(l))
    BY <1>2, <1>6, <1>7
  <2> QED
    BY <1>4, <2>1
<1> HIDE DEF f
<1>8. f \in Injection(P, 1 .. c)
  BY <1>5, <1>7 DEF Injection, IsInjective
<1>9. IsFiniteSet(1 .. c) /\ Cardinality(1 .. c) = c
  <2>1. 1 \in Int /\ c \in Int
    BY <1>1
  <2>2. IsFiniteSet(1 .. c) /\ Cardinality(1 .. c) = IF 1 > c THEN 0 ELSE c - 1 + 1
    BY <2>1, FS_Interval
  <2> QED
    BY <1>1, <2>2
<1>10. f \in Surjection(P, 1 .. c)
  BY <1>8, <1>9, FS_Injection DEF c
<1>11. ASSUME NEW n \in 1 .. c PROVE \E i \in P : Cardinality(Below(i)) = n - 1
  <2>1. PICK k \in P : f[k] = n
    BY <1>10 DEF Surjection
  <2>2. Cardinality(Below(k)) = n - 1
    BY <1>2, <1>6, <2>1
  <2> QED
    BY <2>2
<1> QED
  BY <1>1, <1>2, <1>4, <1>11 DEF Below, c, HasPlaces

LEMMA Places == ASSUME NEW P, IsFiniteSet(P), NEW R, Ordered(P, R) PROVE HasPlaces(P, R)
BY PlacesAre DEF Ordered

(* A finite set of numbers has an n-th one, for every n up to its size, and  *)
(* all its members are found like this.                                      *)
LEMMA NthIsThere ==
    ASSUME NEW P, P \subseteq Nat, IsFiniteSet(P)
    PROVE  /\ Cardinality(P) \in Nat
           /\ \A n \in 1 .. Cardinality(P) : Nth(P, n) \in P
           /\ \A m, n \in 1 .. Cardinality(P) : Nth(P, m) = Nth(P, n) => m = n
           /\ \A k \in P : \E n \in 1 .. Cardinality(P) : Nth(P, n) = k
<1> DEFINE R == {x \in P \X P : x[1] < x[2]}
           Below(k) == {j \in P : j < k}
           c == Cardinality(P)
<1>1. \A i, j \in P : <<i, j>> \in R <=> i < j
  OBVIOUS
<1>2. /\ \A i, j \in P : i # j => <<i, j>> \in R \/ <<j, i>> \in R
      /\ \A i \in P : <<i, i>> \notin R
      /\ \A i, j, k \in P : <<i, j>> \in R /\ <<j, k>> \in R => <<i, k>> \in R
  <2>1. \A i \in P : i \in Nat
    OBVIOUS
  <2> HIDE DEF R
  <2> QED
    BY <1>1, <2>1
<1>3. \A i \in P : Before(P, R, i) = Below(i)
  BY <1>1 DEF Before
<1> HIDE DEF R
<1>4. HasPlaces(P, R)
  <2>1. Ordered(P, R)
    BY <1>2 DEF Ordered
  <2> QED
    BY <2>1, Places
<1>5. /\ c \in Nat
      /\ \A i \in P : Cardinality(Below(i)) \in 0 .. c - 1
      /\ \A i, k \in P : Cardinality(Below(i)) = Cardinality(Below(k)) => i = k
      /\ \A n \in 1 .. c : \E i \in P : Cardinality(Below(i)) = n - 1
  <2> HIDE DEF Below
  <2> QED
    BY <1>3, <1>4 DEF HasPlaces
<1> HIDE DEF c, Below
<1>6. ASSUME NEW n \in 1 .. c PROVE Nth(P, n) \in P /\ Cardinality(Below(Nth(P, n))) = n - 1
  <2>1. \E i \in P : Cardinality(Below(i)) = n - 1
    BY <1>5
  <2>2. Nth(P, n) = CHOOSE k \in P : Cardinality(Below(k)) = n - 1
    BY Zenon DEF Nth, Below
  <2> HIDE DEF Below
  <2> QED
    BY <2>1, <2>2, Zenon
<1>7. ASSUME NEW m \in 1 .. c, NEW n \in 1 .. c, Nth(P, m) = Nth(P, n) PROVE m = n
  BY <1>5, <1>6, <1>7
<1>8. ASSUME NEW k \in P PROVE \E n \in 1 .. c : Nth(P, n) = k
  <2> DEFINE n == Cardinality(Below(k)) + 1
  <2>1. n \in 1 .. c /\ n - 1 = Cardinality(Below(k))
    BY <1>5
  <2> HIDE DEF n
  <2>2. Nth(P, n) \in P /\ Cardinality(Below(Nth(P, n))) = Cardinality(Below(k))
    BY <1>6, <2>1
  <2>3. Nth(P, n) = k
    BY <1>5, <2>2
  <2> QED
    BY <2>1, <2>3
<1> QED
  BY <1>5, <1>6, <1>7, <1>8 DEF c

(* The members of a list that are in a set: those, and each as often.        *)
LEMMA AmongAre ==
    ASSUME NEW S, NEW list \in Seq(S), NEW who
    PROVE  /\ Among(list, who) \in Seq(S) /\ Len(Among(list, who)) \in Nat
           /\ Among(list, who) # <<>> => Len(Among(list, who)) # 0
           /\ DOMAIN Among(list, who) = 1 .. Len(Among(list, who))
           /\ ToSet(Among(list, who)) = ToSet(list) \cap who
           /\ \A n \in 1 .. Len(Among(list, who)) : Among(list, who)[n] \in ToSet(list) \cap who
           /\ IsInjective(list) => IsInjective(Among(list, who))
<1> DEFINE P == {k \in DOMAIN list : list[k] \in who}
           a == Among(list, who)
           c == Cardinality(P)
<1>1. DOMAIN list = 1 .. Len(list) /\ Len(list) \in Nat /\ \A k \in DOMAIN list : list[k] \in S
  BY ElementOfSeq
<1>2. IsFiniteSet(P) /\ P \subseteq Nat
  <2>1. IsFiniteSet(1 .. Len(list))
    BY <1>1, FS_Interval
  <2> QED
    BY <1>1, <2>1, FS_Subset
<1>3. a = [n \in 1 .. c |-> list[Nth(P, n)]]
  BY Zenon DEF Among
<1>4. \A k \in P : k \in DOMAIN list /\ list[k] \in who /\ list[k] \in S
  BY <1>1
<1>5. ToSet(list) \cap who = {list[k] : k \in P}
  BY DEF ToSet
<1> HIDE DEF P, a
<1>6. /\ c \in Nat
      /\ \A n \in 1 .. c : Nth(P, n) \in P
      /\ \A m, n \in 1 .. c : Nth(P, m) = Nth(P, n) => m = n
      /\ \A k \in P : \E n \in 1 .. c : Nth(P, n) = k
  BY <1>2, NthIsThere
<1> HIDE DEF c
<1>7. a \in [1 .. c -> S]
  BY <1>3, <1>4, <1>6
<1>8. a \in Seq(S) /\ DOMAIN a = 1 .. c
  BY <1>6, <1>7, SeqDef
<1>9. Len(a) = c /\ (a # <<>> => c # 0)
  BY <1>6, <1>8, LenProperties, EmptySeq
<1>10. ToSet(a) = {list[k] : k \in P}
  <2>1. ToSet(a) = {a[n] : n \in 1 .. c}
    BY <1>8 DEF ToSet
  <2>2. \A n \in 1 .. c : a[n] = list[Nth(P, n)]
    BY <1>3
  <2> QED
    BY <1>6, <2>1, <2>2
<1>11. \A n \in 1 .. c : a[n] \in ToSet(list) \cap who
  BY <1>3, <1>5, <1>6
<1>12. IsInjective(list) => IsInjective(a)
  BY <1>3, <1>4, <1>6, <1>8 DEF IsInjective
<1> QED
  BY <1>5, <1>6, <1>8, <1>9, <1>10, <1>11, <1>12 DEF a

(* What is left of the families are families, none of them quarantined.      *)
LEMMA EligibleAre ==
    ASSUME NEW s
    PROVE  /\ Len(Eligible(s)) \in Nat
           /\ Eligible(s) # <<>> => Len(Eligible(s)) # 0
           /\ \A n \in 1 .. Len(Eligible(s)) : Eligible(s)[n] \notin s.blocked
           /\ \A m, n \in 1 .. Len(Eligible(s)) : Eligible(s)[m] = Eligible(s)[n] => m = n
<1> DEFINE who == ToSet(Families) \ s.blocked
           S == ToSet(Families)
           a == Among(Families, who)
<1>1. Families \in Seq(S) /\ IsInjective(Families)
  BY SupervisorOK
<1>2. Eligible(s) = a
  BY Zenon DEF Eligible
<1> HIDE DEF S
<1>3. /\ Len(a) \in Nat /\ (a # <<>> => Len(a) # 0) /\ DOMAIN a = 1 .. Len(a)
      /\ \A n \in 1 .. Len(a) : a[n] \in ToSet(Families) \cap who
      /\ IsInjective(a)
  BY <1>1, AmongAre
<1> HIDE DEF a
<1>4. \A n \in 1 .. Len(a) : a[n] \notin s.blocked
  BY <1>3
<1>5. \A m, n \in 1 .. Len(a) : a[m] = a[n] => m = n
  BY <1>3 DEF IsInjective
<1> QED
  BY <1>2, <1>3, <1>4, <1>5

-----------------------------------------------------------------------------
(* What every step of a trial's life leaves: families, and who is pruned.    *)

SupFields == {"phase", "open", "trials", "disk", "blocked", "cached", "group", "turn", "rung",
              "left", "final", "fresh", "troubles"}
TrialFields == {"kind", "family", "recipe", "epoch", "scored", "score", "pruned", "trainer",
                "replay", "path", "history", "swept"}

IsTrials(ts) ==
    /\ ts \in Seq({ts[i] : i \in DOMAIN ts})
    /\ \A i \in DOMAIN ts : DOMAIN ts[i] = TrialFields

IsState(s) == DOMAIN s = SupFields /\ IsTrials(s.trials)

(* u comes after s: the trials are the same, and none that was pruned lives. *)
Later(s, u) ==
    /\ IsState(u)
    /\ u.blocked = s.blocked /\ u.rung = s.rung /\ u.phase \in {s.phase, "failed"}
    /\ DOMAIN u.trials = DOMAIN s.trials
    /\ \A i \in DOMAIN s.trials :
          /\ u.trials[i].family = s.trials[i].family
          /\ s.trials[i].pruned => u.trials[i].pruned

LEMMA LaterSame == ASSUME NEW s, IsState(s) PROVE Later(s, s)
BY DEF Later

LEMMA LaterThen ==
    ASSUME NEW s, NEW u, NEW v, Later(s, u), Later(u, v)
    PROVE  Later(s, v)
BY DEF Later

(* A list of trials that is changed in place is a list of trials.            *)
LEMMA ChangedTrials ==
    ASSUME NEW ts, IsTrials(ts), NEW new, DOMAIN new = DOMAIN ts,
           new = [i \in DOMAIN ts |-> new[i]],
           \A i \in DOMAIN ts : DOMAIN new[i] = TrialFields
    PROVE  IsTrials(new)
<1> DEFINE n == Len(ts)
           S == {new[i] : i \in DOMAIN new}
<1>1. n \in Nat /\ DOMAIN ts = 1 .. n
  BY DEF IsTrials
<1>2. new \in [1 .. n -> S]
  BY <1>1
<1> HIDE DEF S
<1>3. new \in Seq(S)
  BY <1>1, <1>2, SeqDef
<1> QED
  BY <1>3 DEF IsTrials, S

LEMMA LaterTrials ==
    ASSUME NEW s, IsState(s), NEW u, DOMAIN u = SupFields,
           u.blocked = s.blocked, u.rung = s.rung, u.phase \in {s.phase, "failed"},
           u.trials = [i \in DOMAIN s.trials |-> u.trials[i]],
           \A i \in DOMAIN s.trials :
              /\ DOMAIN u.trials[i] = TrialFields
              /\ u.trials[i].family = s.trials[i].family
              /\ s.trials[i].pruned => u.trials[i].pruned
    PROVE  Later(s, u)
<1> DEFINE new == u.trials
           old == s.trials
<1>1. /\ IsTrials(old) /\ new = [i \in DOMAIN old |-> new[i]]
      /\ \A i \in DOMAIN old : DOMAIN new[i] = TrialFields
  BY DEF IsState
<1> HIDE DEF new, old
<1>2. DOMAIN new = DOMAIN old
  BY <1>1
<1>3. IsTrials(new)
  BY <1>1, <1>2, ChangedTrials
<1> QED
  BY <1>2, <1>3 DEF Later, IsState, new, old

(* A state with the same trials. *)
LEMMA LaterPlain ==
    ASSUME NEW s, IsState(s), NEW u, DOMAIN u = SupFields,
           u.blocked = s.blocked, u.rung = s.rung, u.phase \in {s.phase, "failed"},
           u.trials = s.trials
    PROVE  Later(s, u)
BY DEF Later, IsState

LEMMA PrunesOnly ==
    ASSUME NEW s, IsState(s), NEW who
    PROVE  /\ Later(s, PruneAll(s, who))
           /\ \A i \in DOMAIN s.trials : i \in who => PruneAll(s, who).trials[i].pruned
<1> DEFINE new == [i \in DOMAIN s.trials |-> IF i \in who THEN Prune(s.trials[i]) ELSE s.trials[i]]
           u == PruneAll(s, who)
<1>1. u = [s EXCEPT !.trials = new]
  BY DEF PruneAll
<1>2. /\ DOMAIN u = SupFields /\ u.blocked = s.blocked /\ u.rung = s.rung /\ u.phase = s.phase
      /\ u.trials = new
  BY <1>1 DEF IsState, SupFields
<1>3. ASSUME NEW t, DOMAIN t = TrialFields
      PROVE  DOMAIN Prune(t) = TrialFields /\ Prune(t).family = t.family /\ Prune(t).pruned
  BY <1>3 DEF Prune, TrialFields
<1>4. \A i \in DOMAIN s.trials : DOMAIN s.trials[i] = TrialFields
  BY DEF IsState, IsTrials
<1>5. new = [i \in DOMAIN s.trials |-> new[i]]
  OBVIOUS
<1>6. ASSUME NEW i \in DOMAIN s.trials
      PROVE  /\ DOMAIN new[i] = TrialFields
             /\ new[i].family = s.trials[i].family
             /\ s.trials[i].pruned => new[i].pruned
             /\ i \in who => new[i].pruned
  BY <1>3, <1>4
<1> HIDE DEF u, new
<1>7. Later(s, u)
  BY <1>2, <1>5, <1>6, LaterTrials
<1> QED
  BY <1>2, <1>6, <1>7 DEF u

(* A state in which fields of one trial are different, none of those that    *)
(* the family and the pruning are in.                                        *)
LEMMA LaterOne ==
    ASSUME NEW s, IsState(s), NEW u, DOMAIN u = SupFields,
           u.blocked = s.blocked, u.rung = s.rung, u.phase \in {s.phase, "failed"},
           NEW i, NEW t, u.trials = [s.trials EXCEPT ![i] = t],
           i \in DOMAIN s.trials =>
              /\ DOMAIN t = TrialFields
              /\ t.family = s.trials[i].family
              /\ t.pruned = s.trials[i].pruned
    PROVE  Later(s, u)
<1> DEFINE old == s.trials
           new == [old EXCEPT ![i] = t]
<1>1. \A j \in DOMAIN old : DOMAIN old[j] = TrialFields
  BY DEF IsState, IsTrials
<1>2. u.trials = new
  OBVIOUS
<1>3. new = [j \in DOMAIN old |-> new[j]] /\ \A j \in DOMAIN old : new[j] = IF j = i THEN t ELSE old[j]
  OBVIOUS
<1> HIDE DEF new
<1>4. \A j \in DOMAIN old : /\ DOMAIN new[j] = TrialFields
                            /\ new[j].family = old[j].family
                            /\ old[j].pruned => new[j].pruned
  BY <1>1, <1>3
<1> QED
  BY <1>2, <1>3, <1>4, LaterTrials

-----------------------------------------------------------------------------
(* The operations on trials. *)

LEMMA TrainedIsLater == ASSUME NEW s, IsState(s), NEW i PROVE Later(s, Trained(s, i))
<1> DEFINE u == Trained(s, i)
           e == IF s.trials[i].trainer = 0 THEN 1 ELSE s.trials[i].epoch + 1
           t == [s.trials[i] EXCEPT !.trainer = s.fresh, !.epoch = e, !.path = <<i, e>>,
                                    !.history = Append(@, <<i, e>>), !.swept = TRUE]
           disk == [p \in DOMAIN s.disk \cup {<<i, e>>} |-> IF p = <<i, e>> THEN s.fresh ELSE s.disk[p]]
           cached == s.cached \cup {<<s.trials[i].family, s.trials[i].recipe>>}
<1>1. u = [s EXCEPT !.trials[i] = t, !.disk = disk, !.cached = cached, !.fresh = @ + 1]
  BY DEF Trained
<1>2. i \in DOMAIN s.trials =>
        DOMAIN t = TrialFields /\ t.family = s.trials[i].family /\ t.pruned = s.trials[i].pruned
  BY DEF IsState, IsTrials, TrialFields
<1> HIDE DEF u, t, disk, cached
<1>3. /\ DOMAIN u = SupFields /\ u.blocked = s.blocked /\ u.rung = s.rung /\ u.phase = s.phase
      /\ u.trials = [s.trials EXCEPT ![i] = t]
  BY <1>1 DEF IsState, SupFields
<1>4. Later(s, u)
  BY <1>2, <1>3, LaterOne
<1> QED
  BY <1>4 DEF u

LEMMA MeasuredIsLater ==
    ASSUME NEW s, IsState(s), NEW i, NEW u \in Measured(s, i) PROVE Later(s, u)
<1>1. PICK x \in TrialScores : u = [s EXCEPT !.trials[i].score = x, !.trials[i].scored = TRUE]
  BY DEF Measured
<1> DEFINE t == [s.trials[i] EXCEPT !.score = x, !.scored = TRUE]
           first == [s.trials EXCEPT ![i].score = x]
           new == [first EXCEPT ![i].scored = TRUE]
<1>2. i \in DOMAIN s.trials =>
        DOMAIN t = TrialFields /\ t.family = s.trials[i].family /\ t.pruned = s.trials[i].pruned
  BY DEF IsState, IsTrials, TrialFields
<1>3. new = [s.trials EXCEPT ![i] = t]
  OBVIOUS
<1>4. DOMAIN s = SupFields
  BY DEF IsState
<1> HIDE DEF t
<1>5. /\ DOMAIN u = SupFields /\ u.blocked = s.blocked /\ u.rung = s.rung /\ u.phase = s.phase
      /\ u.trials = new
  BY <1>1, <1>4 DEF SupFields
<1>6. u.trials = [s.trials EXCEPT ![i] = t]
  BY <1>3, <1>5
<1> HIDE DEF new
<1> QED
  BY <1>2, <1>5, <1>6, LaterOne

(* A trial that is pruned for a trouble. *)
LEMMA TroubleIsLater ==
    ASSUME NEW s, IsState(s), NEW i
    PROVE  Later(s, PruneAll([s EXCEPT !.troubles = @ + 1], {i}))
<1> DEFINE u == [s EXCEPT !.troubles = @ + 1]
<1>1. /\ DOMAIN u = SupFields /\ u.blocked = s.blocked /\ u.rung = s.rung /\ u.phase = s.phase
      /\ u.trials = s.trials
  BY DEF IsState, SupFields
<1> HIDE DEF u
<1>2. Later(s, u)
  BY <1>1, LaterPlain
<1>3. Later(u, PruneAll(u, {i}))
  BY <1>2, PrunesOnly DEF Later
<1>4. Later(s, PruneAll(u, {i}))
  BY <1>2, <1>3, LaterThen
<1> QED
  BY <1>4 DEF u

LEMMA EvaluateIsLater ==
    ASSUME NEW s, IsState(s), NEW i, NEW u \in Evaluate(s, i) PROVE Later(s, u)
<1>1. u = s \/ u \in Measured(s, i) \/ u = PruneAll([s EXCEPT !.troubles = @ + 1], {i})
  BY Zenon DEF Evaluate, Rejected
<1> QED
  BY <1>1, LaterSame, MeasuredIsLater, TroubleIsLater

LEMMA TrainTrialIsLater ==
    ASSUME NEW s, IsState(s), NEW i, NEW r \in TrainTrial(s, i) PROVE Later(s, r.s)
<1> DEFINE failed == [s EXCEPT !.phase = "failed"]
           Pruned(x) == PruneAll([x EXCEPT !.troubles = @ + 1], {i})
<1>1. \/ r.s = failed \/ r.s = Trained(s, i) \/ r.s = Pruned(s)
      \/ r.s = Pruned(Selected(s, i)) \/ r.s = Pruned(Trained(s, i))
  <2> DEFINE result(x, h) == [s |-> x, hard |-> h]
             reasons == IF s.troubles < Troubles THEN BOOLEAN ELSE {}
             some == IF Swept(s, i) THEN {} ELSE reasons \ {FALSE}
             none == reasons \ {TRUE}
  <2>1. \/ r \in {result(failed, FALSE)}
        \/ r \in {result(Trained(s, i), FALSE)}
        \/ r \in {result(Pruned(s), h) : h \in some}
        \/ r \in {result(Pruned(Selected(s, i)), h) : h \in none}
        \/ r \in {result(Pruned(Trained(s, i)), h) : h \in reasons}
    BY Zenon DEF TrainTrial
  <2> HIDE DEF failed, Pruned, some, none, reasons
  <2> QED
    BY <2>1
<1>2. Later(s, failed)
  <2>1. /\ DOMAIN failed = SupFields /\ failed.blocked = s.blocked /\ failed.rung = s.rung
        /\ failed.phase = "failed" /\ failed.trials = s.trials
    BY DEF IsState, SupFields
  <2> HIDE DEF failed
  <2> QED
    BY <2>1, LaterPlain
<1>3. Later(s, Trained(s, i))
  BY TrainedIsLater
<1>4. Later(s, Pruned(s))
  BY TroubleIsLater
<1>5. Later(s, Pruned(Trained(s, i)))
  <2> DEFINE x == Trained(s, i)
  <2>1. Later(s, x) /\ IsState(x)
    BY <1>3 DEF Later
  <2> HIDE DEF x
  <2>2. Later(x, Pruned(x))
    BY <2>1, TroubleIsLater
  <2>3. Later(s, Pruned(x))
    BY <2>1, <2>2, LaterThen
  <2> QED
    BY <2>3 DEF x
<1>6. Later(s, Pruned(Selected(s, i)))
  <2> DEFINE x == Selected(s, i)
  <2>1. DOMAIN x = SupFields /\ x.blocked = s.blocked /\ x.rung = s.rung /\ x.phase = s.phase /\ x.trials = s.trials
    BY DEF Selected, IsState, SupFields
  <2> HIDE DEF x
  <2>2. Later(s, x) /\ IsState(x)
    BY <2>1, LaterPlain DEF Later
  <2>3. Later(x, Pruned(x))
    BY <2>2, TroubleIsLater
  <2>4. Later(s, Pruned(x))
    BY <2>2, <2>3, LaterThen
  <2> QED
    BY <2>4 DEF x
<1> HIDE DEF failed, Pruned
<1> QED
  BY <1>1, <1>2, <1>3, <1>4, <1>5, <1>6

(* Scores and exploits change trials in place. *)
LEMMA ScoredIsLater ==
    ASSUME NEW s, IsState(s), NEW group, NEW u \in Scored(s, group) PROVE Later(s, u)
<1> DEFINE who == {i \in ToSet(group) \cap Live(s) : s.trials[i].scored}
<1>1. PICK z \in [who -> TrialScores] :
        u = [s EXCEPT !.trials = [i \in DOMAIN s.trials |->
                IF i \in who THEN [s.trials[i] EXCEPT !.score = z[i]] ELSE s.trials[i]]]
  BY DEF Scored
<1> HIDE DEF who
<1> DEFINE new == [i \in DOMAIN s.trials |->
                     IF i \in who THEN [s.trials[i] EXCEPT !.score = z[i]] ELSE s.trials[i]]
<1>2. \A i \in DOMAIN s.trials : DOMAIN s.trials[i] = TrialFields
  BY DEF IsState, IsTrials
<1>3. ASSUME NEW i \in DOMAIN s.trials
      PROVE  /\ DOMAIN new[i] = TrialFields
             /\ new[i].family = s.trials[i].family
             /\ s.trials[i].pruned => new[i].pruned
  BY <1>2 DEF TrialFields
<1>4. new = [i \in DOMAIN s.trials |-> new[i]]
  OBVIOUS
<1>5. /\ DOMAIN u = SupFields /\ u.blocked = s.blocked /\ u.rung = s.rung /\ u.phase = s.phase
      /\ u.trials = new
  BY <1>1 DEF IsState, SupFields
<1> HIDE DEF new
<1> QED
  BY <1>3, <1>4, <1>5, LaterTrials

LEMMA ExploitIsLater == ASSUME NEW s, IsState(s) PROVE Later(s, Exploit(s))
<1> DEFINE u == Exploit(s)
<1>1. ASSUME NEW new,
             u = [s EXCEPT !.trials = new],
             new = [i \in DOMAIN s.trials |-> new[i]],
             \A i \in DOMAIN s.trials : new[i] = s.trials[i] \/ \E d : new[i] = Clone(s, d, i)
      PROVE  Later(s, u)
  <2>1. \A i \in DOMAIN s.trials : DOMAIN s.trials[i] = TrialFields
    BY DEF IsState, IsTrials
  <2>2. ASSUME NEW i \in DOMAIN s.trials
        PROVE  /\ DOMAIN new[i] = TrialFields
               /\ new[i].family = s.trials[i].family
               /\ s.trials[i].pruned => new[i].pruned
    <3>1. CASE new[i] = s.trials[i]
      BY <2>1, <3>1
    <3>2. CASE \E d : new[i] = Clone(s, d, i)
      <4>1. PICK d : new[i] = Clone(s, d, i)
        BY <3>2
      <4> DEFINE w == s.trials[i]
                 path == s.trials[d].path
                 epoch == s.trials[d].epoch
                 weights == IF w.trainer = 0 THEN 0 ELSE s.disk[path]
                 c == [w EXCEPT !.replay = "full", !.path = path, !.epoch = epoch, !.trainer = weights]
      <4>2. new[i] = c
        BY <4>1 DEF Clone
      <4>3. DOMAIN w = TrialFields
        BY <2>1
      <4> HIDE DEF w, path, epoch, weights
      <4>4. DOMAIN c = TrialFields /\ c.family = w.family /\ c.pruned = w.pruned
        BY <4>3 DEF TrialFields
      <4> QED
        BY <4>2, <4>4 DEF w
    <3>3. new[i] = s.trials[i] \/ \E d : new[i] = Clone(s, d, i)
      BY <1>1, Zenon
    <3> QED
      BY <3>1, <3>2, <3>3, Zenon
  <2>3. /\ DOMAIN u = SupFields /\ u.blocked = s.blocked /\ u.rung = s.rung /\ u.phase = s.phase
        /\ u.trials = new
    BY <1>1 DEF IsState, SupFields
  <2> HIDE DEF u
  <2>4. u.trials = [i \in DOMAIN s.trials |-> u.trials[i]]
    BY <1>1, <2>3, Zenon
  <2> QED
    BY <2>2, <2>3, <2>4, LaterTrials
<1> DEFINE ranked == Ranked(s, {i \in ToSet(s.group) \cap Live(s) : s.trials[i].scored}, s.group)
           n == Len(ranked)
           q == IF n < 8 THEN 1 ELSE n \div 4
           losers == {ranked[k] : k \in (n - q + 1)..n}
           donors(i) == Donors(s, SubSeq(ranked, 1, q), i)
           donor(i) == ranked[CHOOSE k \in donors(i) : \A j \in donors(i) : k <= j]
           new == [i \in DOMAIN s.trials |->
                     IF i \in losers /\ donors(i) # {} THEN Clone(s, donor(i), i) ELSE s.trials[i]]
<1>2. u = IF n < 2 THEN s ELSE [s EXCEPT !.trials = new]
  BY DEF Exploit
<1>3. /\ new = [i \in DOMAIN s.trials |-> new[i]]
      /\ \A i \in DOMAIN s.trials : new[i] = s.trials[i] \/ \E d : new[i] = Clone(s, d, i)
  <2> DEFINE Heir(i) == i \in losers /\ donors(i) # {}
  <2>1. new = [i \in DOMAIN s.trials |-> IF Heir(i) THEN Clone(s, donor(i), i) ELSE s.trials[i]]
    BY Zenon
  <2> HIDE DEF Heir, donor, new
  <2>2. new = [i \in DOMAIN s.trials |-> new[i]]
    BY <2>1
  <2>3. ASSUME NEW i \in DOMAIN s.trials
        PROVE  new[i] = s.trials[i] \/ new[i] = Clone(s, donor(i), i)
    BY <2>1
  <2>4. \A i \in DOMAIN s.trials : new[i] = s.trials[i] \/ \E d : new[i] = Clone(s, d, i)
    BY <2>3, Zenon
  <2> QED
    BY <2>2, <2>4, Zenon
<1> HIDE DEF u, new, n
<1>4. CASE n < 2
  BY <1>2, <1>4, LaterSame DEF u
<1>5. CASE ~(n < 2)
  BY <1>1, <1>2, <1>3, <1>5 DEF u
<1> QED
  BY <1>4, <1>5

LEMMA RungEndIsLater == ASSUME NEW s, IsState(s) PROVE Later(s, RungEnd(s))
<1> DEFINE live == ToSet(s.group) \cap Live(s)
           kept == Promoted(s, live)
           who == ToSet(s.group) \ kept
           p == PruneAll(s, who)
           group == Among(p.group, kept)
           failed == [s EXCEPT !.phase = "failed"]
           cut == [p EXCEPT !.group = group]
<1>1. RungEnd(s) = failed \/ RungEnd(s) = cut
  BY DEF RungEnd
<1>2. Later(s, failed)
  <2>1. /\ DOMAIN failed = SupFields /\ failed.blocked = s.blocked /\ failed.rung = s.rung
        /\ failed.phase = "failed" /\ failed.trials = s.trials
    BY DEF IsState, SupFields
  <2> HIDE DEF failed
  <2> QED
    BY <2>1, LaterPlain
<1>3. Later(s, p)
  BY PrunesOnly
<1> HIDE DEF p, group
<1>4. Later(p, cut)
  <2>1. IsState(p)
    BY <1>3 DEF Later
  <2>2. /\ DOMAIN cut = SupFields /\ cut.blocked = p.blocked /\ cut.rung = p.rung
        /\ cut.phase = p.phase /\ cut.trials = p.trials
    BY <2>1 DEF IsState, SupFields
  <2> HIDE DEF cut
  <2> QED
    BY <2>1, <2>2, LaterPlain
<1>5. Later(s, cut)
  BY <1>3, <1>4, LaterThen
<1> QED
  BY <1>1, <1>2, <1>5

-----------------------------------------------------------------------------
(* The invariant: families are quarantined while they are calibrated, one    *)
(* after the other, and no trial of a later stage is of such a family.       *)

Quiet(s) == \A i \in DOMAIN s.trials : ~s.trials[i].pruned => s.trials[i].family \notin s.blocked

SupInv(s) ==
    /\ IsState(s)
    /\ Quiet(s)
    /\ s.phase = "3A" =>
          /\ s.rung \in 0 .. Len(Families)
          /\ \A f \in s.blocked : \E k \in 1 .. s.rung : Families[k] = f

LEMMA FamilyFacts ==
    /\ Len(Families) \in Nat /\ DOMAIN Families = 1 .. Len(Families)
    /\ \A j, k \in 1 .. Len(Families) : Families[j] = Families[k] => j = k
BY SupervisorOK DEF IsInjective

LEMMA LaterKeeps ==
    ASSUME NEW s, SupInv(s), NEW u, Later(s, u)
    PROVE  SupInv(u)
<1>1. IsState(u) /\ u.blocked = s.blocked /\ u.rung = s.rung /\ (u.phase = "3A" => s.phase = "3A")
  BY DEF Later
<1>2. Quiet(u)
  BY DEF Quiet, Later, SupInv
<1> QED
  BY <1>1, <1>2 DEF SupInv

(* A stage may change all but the trials and the quarantine. *)
LEMMA OtherStage ==
    ASSUME NEW s, IsState(s), Quiet(s), NEW u, DOMAIN u = SupFields, u.trials = s.trials,
           u.blocked = s.blocked, u.phase # "3A"
    PROVE  SupInv(u)
BY DEF SupInv, Quiet, IsState

(* New trials of families that are not quarantined. *)
LEMMA MoreTrials ==
    ASSUME NEW s, IsState(s), Quiet(s), NEW new, IsTrials(new),
           \A k \in DOMAIN new : new[k].family \notin s.blocked,
           NEW u, DOMAIN u = SupFields, u.trials = s.trials \o new, u.blocked = s.blocked
    PROVE  IsState(u) /\ Quiet(u)
<1> DEFINE old == s.trials
           all == old \o new
           S == {old[i] : i \in DOMAIN old} \cup {new[i] : i \in DOMAIN new}
<1>1. /\ old \in Seq({old[i] : i \in DOMAIN old}) /\ new \in Seq({new[i] : i \in DOMAIN new})
      /\ \A i \in DOMAIN old : DOMAIN old[i] = TrialFields
      /\ \A i \in DOMAIN new : DOMAIN new[i] = TrialFields
  BY DEF IsState, IsTrials
<1>2. old \in Seq(S) /\ new \in Seq(S)
  <2>1. old \in Seq(S)
    BY <1>1, SeqMonotonic
  <2>2. new \in Seq(S)
    BY <1>1, SeqMonotonic
  <2> QED
    BY <2>1, <2>2
<1>3. \A i \in DOMAIN old : ~old[i].pruned => old[i].family \notin s.blocked
  BY DEF Quiet
<1>4. u.trials = all
  OBVIOUS
<1> HIDE DEF S, old
<1>5. /\ all \in Seq(S) /\ Len(old) \in Nat /\ Len(new) \in Nat /\ Len(all) = Len(old) + Len(new)
      /\ DOMAIN old = 1 .. Len(old) /\ DOMAIN new = 1 .. Len(new) /\ DOMAIN all = 1 .. Len(old) + Len(new)
      /\ \A i \in 1 .. Len(all) : all[i] = IF i <= Len(old) THEN old[i] ELSE new[i - Len(old)]
  <2>1. /\ all \in Seq(S) /\ Len(all) = Len(old) + Len(new)
        /\ \A i \in 1 .. Len(old) + Len(new) : all[i] = IF i <= Len(old) THEN old[i] ELSE new[i - Len(old)]
    BY <1>2, ConcatProperties
  <2> HIDE DEF all
  <2>2. /\ Len(old) \in Nat /\ Len(new) \in Nat
        /\ DOMAIN old = 1 .. Len(old) /\ DOMAIN new = 1 .. Len(new) /\ DOMAIN all = 1 .. Len(all)
    BY <1>2, <2>1, LenProperties
  <2> QED
    BY <2>1, <2>2
<1> HIDE DEF all
<1>6. \A i \in DOMAIN all : \/ i \in DOMAIN old /\ all[i] = old[i]
                            \/ \E k \in DOMAIN new : all[i] = new[k]
  <2> TAKE i \in DOMAIN all
  <2>1. CASE i <= Len(old)
    BY <1>5, <2>1
  <2>2. CASE ~(i <= Len(old))
    <3>1. i - Len(old) \in DOMAIN new /\ all[i] = new[i - Len(old)]
      BY <1>5, <2>2
    <3> QED
      BY <3>1
  <2> QED
    BY <2>1, <2>2
<1>7. \A i \in DOMAIN all :
        DOMAIN all[i] = TrialFields /\ (~all[i].pruned => all[i].family \notin s.blocked)
  BY <1>1, <1>3, <1>6
<1>8. all \in Seq({all[i] : i \in DOMAIN all})
  <2> DEFINE T == {all[i] : i \in DOMAIN all}
  <2>1. all \in [1 .. Len(all) -> T] /\ Len(all) \in Nat
    BY <1>5
  <2> HIDE DEF T
  <2>2. all \in Seq(T)
    BY <2>1, SeqDef
  <2> QED
    BY <2>2 DEF T
<1> QED
  BY <1>4, <1>7, <1>8 DEF IsState, IsTrials, Quiet

(* A list of new trials. *)
LEMMA NewTrials ==
    ASSUME NEW n \in Int, NEW new, new = [k \in 1 .. n |-> new[k]],
           \A k \in 1 .. n : DOMAIN new[k] = TrialFields
    PROVE  IsTrials(new) /\ DOMAIN new = 1 .. n
<1> DEFINE m == IF n < 0 THEN 0 ELSE n
           S == {new[k] : k \in DOMAIN new}
<1>1. m \in Nat /\ 1 .. n = 1 .. m
  OBVIOUS
<1> HIDE DEF m
<1>2. DOMAIN new = 1 .. n /\ new \in [1 .. m -> S]
  BY <1>1
<1> HIDE DEF S
<1>3. new \in Seq(S)
  BY <1>1, <1>2, SeqDef
<1> QED
  BY <1>2, <1>3 DEF IsTrials, S

LEMMA NewTrialIs ==
    ASSUME NEW kind, NEW f, NEW recipe
    PROVE  /\ DOMAIN NewTrial(kind, f, recipe) = TrialFields
           /\ NewTrial(kind, f, recipe).family = f
BY DEF NewTrial, TrialFields

LEMMA SupervisorStarts == SupervisorInit => SupInv(sup)
<1> SUFFICES ASSUME SupervisorInit PROVE SupInv(sup)
  OBVIOUS
<1>1. sup.trials = <<>> /\ sup.blocked = {} /\ sup.rung = 0 /\ DOMAIN sup = SupFields
  BY DEF SupervisorInit, SupFields
<1>2. IsTrials(<<>>)
  BY DEF IsTrials
<1> QED
  BY <1>1, <1>2, FamilyFacts DEF SupInv, IsState, Quiet

-----------------------------------------------------------------------------
(* The actions. *)

LEMMA QuarantineKeeps ==
    ASSUME NEW x, SupInv(x), NEW f,
           x.phase = "3A" => \E k \in 1 .. x.rung : Families[k] = f
    PROVE  SupInv(Quarantine(x, f))
<1> DEFINE y == [x EXCEPT !.blocked = x.blocked \cup {f}]
           who == {i \in Live(x) : x.trials[i].family = f}
           u == PruneAll(y, who)
<1>1. IsState(x) /\ Quiet(x)
  BY DEF SupInv
<1>2. /\ DOMAIN y = SupFields /\ y.blocked = x.blocked \cup {f} /\ y.rung = x.rung /\ y.phase = x.phase
      /\ y.trials = x.trials
  BY <1>1 DEF IsState, SupFields
<1> HIDE DEF y
<1>3. IsState(y)
  BY <1>1, <1>2 DEF IsState
<1>4. Later(y, u) /\ \A i \in DOMAIN y.trials : i \in who => u.trials[i].pruned
  BY <1>3, PrunesOnly
<1>5. IsState(u) /\ u.blocked = x.blocked \cup {f} /\ u.rung = x.rung /\ (u.phase = "3A" => x.phase = "3A")
  BY <1>2, <1>4 DEF Later
<1>6. ASSUME NEW i \in DOMAIN u.trials, ~u.trials[i].pruned PROVE u.trials[i].family \notin u.blocked
  <2>1. i \in DOMAIN x.trials /\ u.trials[i].family = x.trials[i].family /\ ~x.trials[i].pruned /\ i \notin who
    BY <1>2, <1>4, <1>6 DEF Later
  <2>2. x.trials[i].family # f
    BY <2>1 DEF Live
  <2>3. x.trials[i].family \notin x.blocked
    BY <1>1, <2>1 DEF Quiet
  <2> QED
    BY <1>5, <2>1, <2>2, <2>3
<1>7. u.phase = "3A" =>
        /\ u.rung \in 0 .. Len(Families)
        /\ \A g \in u.blocked : \E k \in 1 .. u.rung : Families[k] = g
  <2> SUFFICES ASSUME u.phase = "3A"
               PROVE  /\ u.rung \in 0 .. Len(Families)
                      /\ \A g \in u.blocked : \E k \in 1 .. u.rung : Families[k] = g
    OBVIOUS
  <2>1. /\ x.rung \in 0 .. Len(Families)
        /\ \A g \in x.blocked : \E k \in 1 .. x.rung : Families[k] = g
        /\ \E k \in 1 .. x.rung : Families[k] = f
    BY <1>5 DEF SupInv
  <2> QED
    BY <1>5, <2>1
<1>8. SupInv(u)
  BY <1>5, <1>6, <1>7 DEF SupInv, Quiet
<1>9. Quarantine(x, f) = u
  BY Zenon DEF Quarantine, y
<1> QED
  BY <1>8, <1>9

LEMMA CalibrateKeeps == SupInv(sup) /\ Calibrate => SupInv(sup)'
<1> SUFFICES ASSUME SupInv(sup), Calibrate PROVE SupInv(sup')
  BY DEF SupInv, IsState, Quiet
<1> DEFINE f == Families[sup.rung + 1]
           new == NewTrial("cal", f, 0)
           s == [sup EXCEPT !.rung = @ + 1, !.trials = Append(@, new)]
           i == Len(s.trials)
<1>1. /\ sup.phase = "3A" /\ sup.rung < Len(Families)
      /\ \E r \in TrainTrial(s, i) :
            IF i \notin Live(r.s) THEN sup' = IF r.hard THEN Quarantine(r.s, f) ELSE r.s
            ELSE sup' \in Evaluate(r.s, i)
  BY DEF Calibrate
<1>2. /\ IsState(sup) /\ Quiet(sup) /\ sup.rung \in 0 .. Len(Families) /\ Len(Families) \in Nat
      /\ \A g \in sup.blocked : \E k \in 1 .. sup.rung : Families[k] = g
  BY <1>1, FamilyFacts DEF SupInv
<1>3. f \notin sup.blocked
  <2> SUFFICES ASSUME f \in sup.blocked PROVE FALSE
    OBVIOUS
  <2>1. PICK k \in 1 .. sup.rung : Families[k] = f
    BY <1>2
  <2>2. k \in 1 .. Len(Families) /\ sup.rung + 1 \in 1 .. Len(Families) /\ k # sup.rung + 1
    BY <1>1, <1>2
  <2> QED
    BY <2>1, <2>2, FamilyFacts
<1>4. /\ DOMAIN s = SupFields /\ s.blocked = sup.blocked /\ s.rung = sup.rung + 1 /\ s.phase = sup.phase
      /\ s.trials = sup.trials \o <<new>>
  <2>1. Append(sup.trials, new) = sup.trials \o <<new>>
    <3> DEFINE S == {sup.trials[k] : k \in DOMAIN sup.trials} \cup {new}
    <3>1. sup.trials \in Seq({sup.trials[k] : k \in DOMAIN sup.trials}) /\ new \in S
      BY <1>2 DEF IsState, IsTrials
    <3>2. sup.trials \in Seq(S)
      BY <3>1, SeqMonotonic
    <3> HIDE DEF new, S
    <3> QED
      BY <3>1, <3>2, AppendIsConcat
  <2>2. DOMAIN sup = SupFields
    BY <1>2 DEF IsState
  <2> HIDE DEF new
  <2> QED
    BY <2>1, <2>2 DEF SupFields
<1> HIDE DEF s, i
<1>5. IsState(s) /\ Quiet(s)
  <2> DEFINE more == <<new>>
  <2>1. IsTrials(more) /\ \A k \in DOMAIN more : more[k].family \notin sup.blocked
    <3>1. DOMAIN new = TrialFields /\ new.family = f
      BY NewTrialIs
    <3> HIDE DEF new
    <3>2. more \in Seq({more[k] : k \in DOMAIN more}) /\ DOMAIN more = 1 .. 1 /\ more[1] = new
      OBVIOUS
    <3> HIDE DEF more
    <3> QED
      BY <1>3, <3>1, <3>2 DEF IsTrials
  <2> HIDE DEF more
  <2>2. s.trials = sup.trials \o more
    BY <1>4 DEF more
  <2> QED
    BY <1>2, <1>4, <2>1, <2>2, MoreTrials
<1>6. SupInv(s)
  <2>1. s.rung \in 0 .. Len(Families)
    BY <1>1, <1>2, <1>4
  <2>2. \A g \in s.blocked : \E k \in 1 .. s.rung : Families[k] = g
    BY <1>2, <1>4
  <2> QED
    BY <1>5, <2>1, <2>2 DEF SupInv
<1>7. PICK r \in TrainTrial(s, i) :
        IF i \notin Live(r.s) THEN sup' = IF r.hard THEN Quarantine(r.s, f) ELSE r.s
        ELSE sup' \in Evaluate(r.s, i)
  BY <1>1 DEF s, i
<1>8. Later(s, r.s) /\ IsState(r.s)
  BY <1>5, TrainTrialIsLater DEF Later
<1>9. SupInv(r.s)
  BY <1>6, <1>8, LaterKeeps
<1>10. CASE sup' = Quarantine(r.s, f)
  <2>1. r.s.rung = sup.rung + 1 /\ sup.rung + 1 \in 1 .. r.s.rung
    <3>1. r.s.rung = sup.rung + 1
      BY <1>4, <1>8 DEF Later
    <3> QED
      BY <1>2, <3>1
  <2>2. \E k \in 1 .. r.s.rung : Families[k] = f
    BY <2>1
  <2> HIDE DEF f
  <2> QED
    BY <1>9, <1>10, <2>2, QuarantineKeeps
<1>11. CASE sup' = r.s
  BY <1>9, <1>11
<1>12. CASE sup' \in Evaluate(r.s, i)
  BY <1>8, <1>9, <1>12, EvaluateIsLater, LaterKeeps
<1> QED
  BY <1>7, <1>10, <1>11, <1>12

(* A stage is entered with the trials there are. *)
LEMMA Enters ==
    ASSUME NEW x, DOMAIN x = SupFields, NEW phase, NEW u \in Enter(x, phase)
    PROVE  /\ DOMAIN u = SupFields /\ u.trials = x.trials /\ u.blocked = x.blocked /\ u.phase = phase
BY DEF Enter, SupFields

LEMMA StartRungsKeeps == SupInv(sup) /\ StartRungs => SupInv(sup)'
<1> SUFFICES ASSUME SupInv(sup), StartRungs PROVE SupInv(sup')
  BY DEF SupInv, IsState, Quiet
<1> DEFINE fs == Eligible(sup)
           new == StaticCandidates(fs)
           x == [sup EXCEPT !.trials = @ \o new]
           group == [k \in DOMAIN new |-> Len(sup.trials) + k]
<1>1. PICK s \in Enter(x, "3B") : sup' = [s EXCEPT !.group = group]
  BY DEF StartRungs
<1>2. IsState(sup) /\ Quiet(sup)
  BY DEF SupInv
<1>3. DOMAIN x = SupFields /\ x.trials = sup.trials \o new /\ x.blocked = sup.blocked
  BY <1>2 DEF IsState, SupFields
<1>4. IsTrials(new) /\ \A k \in DOMAIN new : new[k].family \notin sup.blocked
  <2> DEFINE n == IF fs = <<>> THEN 0 ELSE AshaTrials
             at(k) == 1 + ((k - 1) % Len(fs))
  <2>1. new = [k \in 1 .. n |-> NewTrial("asha", fs[at(k)], (k - 1) \div Len(fs))]
    BY DEF StaticCandidates
  <2>2. n \in Nat /\ AshaTrials \in Nat
    BY SupervisorOK
  <2>3. Len(fs) \in Nat /\ \A k \in 1 .. Len(fs) : fs[k] \notin sup.blocked
    BY EligibleAre
  <2>4. fs # <<>> => Len(fs) # 0
    BY EligibleAre
  <2> HIDE DEF new, fs
  <2>5. ASSUME NEW k \in 1 .. n PROVE DOMAIN new[k] = TrialFields /\ new[k].family \notin sup.blocked
    <3>1. fs # <<>> /\ k \in Int
      BY <2>5
    <3>2. at(k) \in 1 .. Len(fs)
      BY <2>3, <2>4, <3>1
    <3>3. new[k] = NewTrial("asha", fs[at(k)], (k - 1) \div Len(fs))
      BY <2>1
    <3>4. fs[at(k)] \notin sup.blocked
      BY <2>3, <3>2
    <3> HIDE DEF at
    <3> QED
      BY <3>3, <3>4, NewTrialIs
  <2>6. new = [k \in 1 .. n |-> new[k]]
    BY <2>1
  <2> HIDE DEF n
  <2>7. IsTrials(new) /\ DOMAIN new = 1 .. n
    BY <2>2, <2>5, <2>6, NewTrials
  <2> QED
    BY <2>5, <2>7
<1> HIDE DEF new, group, x
<1>5. IsState(x) /\ Quiet(x)
  BY <1>2, <1>3, <1>4, MoreTrials
<1>6. DOMAIN s = SupFields /\ s.trials = x.trials /\ s.blocked = x.blocked /\ s.phase = "3B"
  BY <1>3, Enters
<1>7. /\ DOMAIN sup' = SupFields /\ sup'.trials = x.trials /\ sup'.blocked = x.blocked
      /\ sup'.phase = "3B"
  BY <1>1, <1>6 DEF SupFields
<1> QED
  BY <1>5, <1>7, OtherStage

(* A ranking is a sequence. *)
LEMMA RankedLength ==
    ASSUME NEW s, NEW who, NEW list, IsFiniteSet(who)
    PROVE  Len(Ranked(s, who, list)) \in Nat
<1> DEFINE value(i) == IF s.trials[i].scored THEN s.trials[i].score ELSE -1
           place(i) == CHOOSE k \in DOMAIN list : list[k] = i
           before(i, j) == value(i) > value(j) \/ (value(i) = value(j) /\ place(i) < place(j))
           nth(n) == CHOOSE i \in who : Cardinality({j \in who : before(j, i)}) = n - 1
           c == Cardinality(who)
<1>1. Ranked(s, who, list) = [n \in 1 .. c |-> nth(n)]
  BY Zenon DEF Ranked
<1>2. c \in Nat
  BY FS_CardinalityType
<1> HIDE DEF c, nth
<1> DEFINE S == {nth(n) : n \in 1 .. c}
<1>3. [n \in 1 .. c |-> nth(n)] \in [1 .. c -> S]
  OBVIOUS
<1> HIDE DEF S
<1>4. Ranked(s, who, list) \in Seq(S)
  BY <1>1, <1>2, <1>3, SeqDef
<1> QED
  BY <1>4, LenProperties

LEMMA StartSearchKeeps == SupInv(sup) /\ StartSearch => SupInv(sup)'
<1> SUFFICES ASSUME SupInv(sup), StartSearch PROVE SupInv(sup')
  BY DEF SupInv, IsState, Quiet
<1> DEFINE fs == Eligible(sup)
           ready(t) == t.path # <<>> /\ t.family \notin sup.blocked
           who == {i \in Live(sup) : ready(sup.trials[i])}
           left == {i \in who : sup.trials[i].kind = "asha"}
           from == IF left # {} THEN left ELSE who
           seen == Ranked(sup, from, AllTrials(sup))
           m == IF Len(seen) < PbtPopulation THEN Len(seen) ELSE PbtPopulation
           some == SubSeq(seen, 1, m)
           want == IF left # {} THEN 0 ELSE IF Len(fs) < PbtPopulation THEN Len(fs) ELSE PbtPopulation
           n == want - Len(some)
           new == [k \in 1 .. n |-> NewTrial("seed", fs[Len(some) + k], 0)]
           x == [sup EXCEPT !.trials = @ \o new]
           group == some \o [k \in DOMAIN new |-> Len(sup.trials) + k]
<1>1. IsState(sup) /\ Quiet(sup)
  BY DEF SupInv
<1>2. IsFiniteSet(from)
  <2>1. \E l \in Nat : DOMAIN sup.trials = 1 .. l
    BY <1>1, LenProperties DEF IsState, IsTrials
  <2>2. PICK l \in Nat : DOMAIN sup.trials = 1 .. l
    BY <2>1
  <2>3. 1 \in Int /\ l \in Int
    BY <2>2
  <2>4. IsFiniteSet(1 .. l)
    BY <2>3, FS_Interval
  <2>5. from \in SUBSET (1 .. l)
    BY <2>2 DEF Live
  <2> HIDE DEF from
  <2> QED
    BY <2>4, <2>5, FS_Subset
<1>3. PICK s \in Enter(x, "3C") : sup' = [s EXCEPT !.group = group]
  BY Zenon DEF StartSearch
<1>4. DOMAIN x = SupFields /\ x.trials = sup.trials \o new /\ x.blocked = sup.blocked
  BY <1>1 DEF IsState, SupFields
<1>5. PbtPopulation \in Nat /\ Len(fs) \in Nat /\ \A k \in 1 .. Len(fs) : fs[k] \notin sup.blocked
  BY EligibleAre, SupervisorOK
<1> HIDE DEF from
<1>6. Len(seen) \in Nat
  BY <1>2, RankedLength
<1> HIDE DEF seen
<1>7. m \in Nat
  BY <1>5, <1>6
<1>8. Len(some) = m
  <2> DEFINE S == {seen[k] : k \in 1 .. m}
  <2>1. \A k \in 1 .. m : seen[k] \in S
    OBVIOUS
  <2> HIDE DEF S, m
  <2>2. Len(some) = IF 1 <= m THEN m - 1 + 1 ELSE 0
    BY <1>7, <2>1, SubSeqProperties
  <2> QED
    BY <1>7, <2>2
<1> HIDE DEF m, some, fs
<1>9. want \in Nat /\ want <= Len(fs)
  BY <1>5
<1> HIDE DEF want
<1>10. n \in Int
  BY <1>7, <1>8, <1>9
<1>11. ASSUME NEW k \in 1 .. n PROVE DOMAIN new[k] = TrialFields /\ new[k].family \notin sup.blocked
  <2>1. Len(some) + k \in 1 .. Len(fs)
    BY <1>5, <1>7, <1>8, <1>9
  <2>2. new[k] = NewTrial("seed", fs[Len(some) + k], 0)
    OBVIOUS
  <2>3. fs[Len(some) + k] \notin sup.blocked
    BY <1>5, <2>1
  <2> HIDE DEF new
  <2> QED
    BY <2>2, <2>3, NewTrialIs
<1>12. new = [k \in 1 .. n |-> new[k]]
  OBVIOUS
<1> HIDE DEF new, n, group, x
<1>13. IsTrials(new) /\ DOMAIN new = 1 .. n
  BY <1>10, <1>11, <1>12, NewTrials
<1>14. \A k \in DOMAIN new : new[k].family \notin sup.blocked
  BY <1>11, <1>13
<1>15. IsState(x) /\ Quiet(x)
  BY <1>1, <1>4, <1>13, <1>14, MoreTrials
<1>16. DOMAIN s = SupFields /\ s.trials = x.trials /\ s.blocked = x.blocked /\ s.phase = "3C"
  BY <1>4, Enters
<1>17. /\ DOMAIN sup' = SupFields /\ sup'.trials = x.trials /\ sup'.blocked = x.blocked
       /\ sup'.phase = "3C"
  BY <1>3, <1>16 DEF SupFields
<1> QED
  BY <1>15, <1>17, OtherStage

LEMMA TrainTurnKeeps == SupInv(sup) /\ TrainTurn => SupInv(sup)'
<1> SUFFICES ASSUME SupInv(sup), TrainTurn PROVE SupInv(sup')
  BY DEF SupInv, IsState, Quiet
<1> DEFINE i == Head(sup.turn)
           next == [sup EXCEPT !.turn = Tail(@), !.left = Perturb]
           now == [sup EXCEPT !.left = @ - 1]
<1>1. \/ \E r \in TrainTrial(now, i) : sup' = r.s
      \/ \E e \in Evaluate(next, i) :
            \/ sup' = e
            \/ \E s \in Scored(e, sup.group) : sup' = RungEnd(s) \/ sup' = Exploit(s)
  BY Zenon DEF TrainTurn
<1>2. IsState(sup) /\ DOMAIN sup = SupFields
  BY DEF SupInv, IsState
<1>3. Later(sup, next)
  <2>1. /\ DOMAIN next = SupFields /\ next.blocked = sup.blocked /\ next.rung = sup.rung
        /\ next.phase = sup.phase /\ next.trials = sup.trials
    BY <1>2 DEF SupFields
  <2> HIDE DEF next
  <2> QED
    BY <1>2, <2>1, LaterPlain
<1>4. Later(sup, now)
  <2>1. /\ DOMAIN now = SupFields /\ now.blocked = sup.blocked /\ now.rung = sup.rung
        /\ now.phase = sup.phase /\ now.trials = sup.trials
    BY <1>2 DEF SupFields
  <2> HIDE DEF now
  <2> QED
    BY <1>2, <2>1, LaterPlain
<1> HIDE DEF i, next, now
<1>5. IsState(next) /\ IsState(now)
  BY <1>3, <1>4 DEF Later
<1>6. CASE \E r \in TrainTrial(now, i) : sup' = r.s
  <2>1. PICK r \in TrainTrial(now, i) : sup' = r.s
    BY <1>6
  <2>2. Later(now, r.s)
    BY <1>5, TrainTrialIsLater
  <2>3. Later(sup, r.s)
    BY <1>4, <2>2, LaterThen
  <2> QED
    BY <2>1, <2>3, LaterKeeps
<1>7. ASSUME NEW e \in Evaluate(next, i),
             sup' = e \/ \E s \in Scored(e, sup.group) : sup' = RungEnd(s) \/ sup' = Exploit(s)
      PROVE  SupInv(sup')
  <2>1. Later(next, e)
    BY <1>5, EvaluateIsLater
  <2>2. Later(sup, e) /\ IsState(e)
    BY <1>3, <2>1, LaterThen DEF Later
  <2>3. CASE sup' = e
    BY <2>2, <2>3, LaterKeeps
  <2>4. ASSUME NEW s \in Scored(e, sup.group), sup' = RungEnd(s) \/ sup' = Exploit(s)
        PROVE  SupInv(sup')
    <3>1. Later(e, s)
      BY <2>2, ScoredIsLater
    <3>2. Later(sup, s) /\ IsState(s)
      BY <2>2, <3>1, LaterThen DEF Later
    <3>3. Later(s, sup')
      BY <2>4, <3>2, RungEndIsLater, ExploitIsLater
    <3>4. Later(sup, sup')
      BY <3>2, <3>3, LaterThen
    <3> QED
      BY <3>4, LaterKeeps
  <2> QED
    BY <1>7, <2>3, <2>4
<1> QED
  BY <1>1, <1>6, <1>7

LEMMA TrainChampionKeeps == SupInv(sup) /\ TrainChampion => SupInv(sup)'
<1> SUFFICES ASSUME SupInv(sup), TrainChampion PROVE SupInv(sup')
  BY DEF SupInv, IsState, Quiet
<1>1. PICK i \in Champions : \E r \in TrainTrial(sup, i) :
          sup' \in IF r.s.trials[i].epoch % 2 = 0 THEN Evaluate(r.s, i) ELSE {r.s}
  BY DEF TrainChampion
<1>2. PICK r \in TrainTrial(sup, i) :
          sup' \in IF r.s.trials[i].epoch % 2 = 0 THEN Evaluate(r.s, i) ELSE {r.s}
  BY <1>1
<1>3. sup' = r.s \/ sup' \in Evaluate(r.s, i)
  BY <1>2, Zenon
<1>4. Later(sup, r.s) /\ IsState(r.s)
  BY <1>1, TrainTrialIsLater DEF SupInv, Later, Champions, Live
<1>5. Later(r.s, sup')
  BY <1>3, <1>4, LaterSame, EvaluateIsLater
<1>6. Later(sup, sup')
  BY <1>4, <1>5, LaterThen
<1> QED
  BY <1>6, LaterKeeps

(* The other actions leave the trials alone. *)
LEMMA OthersKeep ==
    SupInv(sup) /\ (Deadline \/ StartRound \/ StartChampion \/ Final) => SupInv(sup)'
<1> SUFFICES ASSUME SupInv(sup), Deadline \/ StartRound \/ StartChampion \/ Final PROVE SupInv(sup')
  BY DEF SupInv, IsState, Quiet
<1>1. IsState(sup) /\ Quiet(sup) /\ DOMAIN sup = SupFields
  BY DEF SupInv, IsState
<1>2. CASE Deadline
  <2>1. /\ DOMAIN sup' = SupFields /\ sup'.blocked = sup.blocked /\ sup'.rung = sup.rung
        /\ sup'.phase = sup.phase /\ sup'.trials = sup.trials
    BY <1>1, <1>2 DEF Deadline, SupFields
  <2> QED
    BY <1>1, <2>1, LaterPlain, LaterKeeps
<1>3. CASE StartRound
  <2>1. /\ DOMAIN sup' = SupFields /\ sup'.blocked = sup.blocked
        /\ sup'.phase = sup.phase /\ sup.phase # "3A" /\ sup'.trials = sup.trials
    BY <1>1, <1>3 DEF StartRound, SupFields
  <2> QED
    BY <1>1, <2>1, OtherStage
<1>4. CASE StartChampion
  <2>1. \E s \in Enter(sup, "3D") : \E group : sup' = [s EXCEPT !.group = group]
    BY <1>4 DEF StartChampion
  <2>2. PICK s \in Enter(sup, "3D") : \E group : sup' = [s EXCEPT !.group = group]
    BY <2>1
  <2>3. PICK group : sup' = [s EXCEPT !.group = group]
    BY <2>2
  <2>4. DOMAIN s = SupFields /\ s.trials = sup.trials /\ s.blocked = sup.blocked /\ s.phase = "3D"
    BY <1>1, Enters
  <2>5. /\ DOMAIN sup' = SupFields /\ sup'.trials = sup.trials /\ sup'.blocked = sup.blocked
        /\ sup'.phase = "3D"
    BY <2>3, <2>4 DEF SupFields
  <2> QED
    BY <1>1, <2>5, OtherStage
<1>5. CASE Final
  <2>1. \E last : sup' = [sup EXCEPT !.phase = "done", !.group = <<>>, !.final = last]
    BY <1>5 DEF Final
  <2>2. PICK last : sup' = [sup EXCEPT !.phase = "done", !.group = <<>>, !.final = last]
    BY <2>1
  <2>3. /\ DOMAIN sup' = SupFields /\ sup'.trials = sup.trials /\ sup'.blocked = sup.blocked
        /\ sup'.phase = "done"
    BY <1>1, <2>2 DEF SupFields
  <2> QED
    BY <1>1, <2>3, OtherStage
<1> QED
  BY <1>2, <1>3, <1>4, <1>5

(* A family that calibration quarantined has no live trial in any later      *)
(* stage, for any families, rungs, populations and troubles: not among the   *)
(* candidates, the seeds of the search, or the heirs of an exploit.          *)
THEOREM QuarantineHoldsAlways == SupervisorSpec => []QuarantineHolds
<1>1. SupInv(sup) => QuarantineHolds
  BY DEF SupInv, Quiet, QuarantineHolds, Live
<1>2. SupInv(sup) /\ [SupervisorNext]_sup => SupInv(sup)'
  <2>1. SupInv(sup) /\ UNCHANGED sup => SupInv(sup)'
    BY DEF SupInv, IsState, Quiet
  <2> QED
    BY <2>1, CalibrateKeeps, StartRungsKeeps, StartSearchKeeps, TrainTurnKeeps,
       TrainChampionKeeps, OthersKeep DEF SupervisorNext
<1> QED
  BY <1>1, <1>2, SupervisorStarts, PTL DEF SupervisorSpec

-----------------------------------------------------------------------------
(* Steps that train nobody and copy nothing: trials are scored or pruned.    *)

CalmTrial(t, w) ==
    /\ DOMAIN w = TrialFields
    /\ w.kind = t.kind /\ w.family = t.family /\ w.recipe = t.recipe /\ w.epoch = t.epoch /\ w.path = t.path
    /\ t.pruned => w.pruned
    /\ ~w.pruned => w.trainer = t.trainer
    /\ w.trainer \in {0, t.trainer}
    /\ w.score \in {t.score} \cup TrialScores
    /\ w.scored => t.scored \/ t.path # <<>>

SameFrame(s, u) ==
    /\ u.disk = s.disk /\ u.group = s.group /\ u.turn = s.turn /\ u.rung = s.rung
    /\ u.left = s.left /\ u.open = s.open /\ u.fresh = s.fresh

Calm(s, u) ==
    /\ IsState(u) /\ DOMAIN u.trials = DOMAIN s.trials
    /\ SameFrame(s, u) /\ u.phase \in {s.phase, "failed"}
    /\ \A i \in DOMAIN s.trials : CalmTrial(s.trials[i], u.trials[i])

LEMMA CalmSame == ASSUME NEW s, IsState(s) PROVE Calm(s, s)
BY DEF Calm, SameFrame, CalmTrial, IsState, IsTrials

LEMMA CalmTrialThen ==
    ASSUME NEW t, NEW w, NEW v, CalmTrial(t, w), CalmTrial(w, v)
    PROVE  CalmTrial(t, v)
BY DEF CalmTrial

LEMMA CalmThen ==
    ASSUME NEW s, NEW u, NEW v, Calm(s, u), Calm(u, v)
    PROVE  Calm(s, v)
<1>1. IsState(v) /\ DOMAIN v.trials = DOMAIN s.trials /\ SameFrame(s, v) /\ v.phase \in {s.phase, "failed"}
  BY DEF Calm, SameFrame
<1>2. \A i \in DOMAIN s.trials : CalmTrial(s.trials[i], v.trials[i])
  BY CalmTrialThen DEF Calm
<1> QED
  BY <1>1, <1>2 DEF Calm

LEMMA CalmTrials ==
    ASSUME NEW s, IsState(s), NEW u, DOMAIN u = SupFields, SameFrame(s, u), u.phase \in {s.phase, "failed"},
           u.trials = [i \in DOMAIN s.trials |-> u.trials[i]],
           \A i \in DOMAIN s.trials : CalmTrial(s.trials[i], u.trials[i])
    PROVE  Calm(s, u)
<1> DEFINE new == u.trials
           old == s.trials
<1>1. /\ IsTrials(old) /\ new = [i \in DOMAIN old |-> new[i]]
      /\ \A i \in DOMAIN old : DOMAIN new[i] = TrialFields
  BY DEF IsState, CalmTrial
<1> HIDE DEF new, old
<1>2. DOMAIN new = DOMAIN old
  BY <1>1
<1>3. IsTrials(new)
  BY <1>1, <1>2, ChangedTrials
<1> QED
  BY <1>2, <1>3 DEF Calm, IsState, new, old

LEMMA CalmPlain ==
    ASSUME NEW s, IsState(s), NEW u, DOMAIN u = SupFields, SameFrame(s, u), u.phase \in {s.phase, "failed"},
           u.trials = s.trials
    PROVE  Calm(s, u)
BY DEF Calm, IsState, IsTrials, CalmTrial

LEMMA PrunesCalmly == ASSUME NEW s, IsState(s), NEW who PROVE Calm(s, PruneAll(s, who))
<1> DEFINE new == [i \in DOMAIN s.trials |-> IF i \in who THEN Prune(s.trials[i]) ELSE s.trials[i]]
           u == PruneAll(s, who)
<1>1. u = [s EXCEPT !.trials = new]
  BY DEF PruneAll
<1>2. DOMAIN u = SupFields /\ SameFrame(s, u) /\ u.phase = s.phase /\ u.trials = new
  BY <1>1 DEF IsState, SupFields, SameFrame
<1>3. ASSUME NEW t, DOMAIN t = TrialFields
      PROVE  CalmTrial(t, Prune(t)) /\ CalmTrial(t, t)
  BY <1>3 DEF Prune, TrialFields, CalmTrial
<1>4. \A i \in DOMAIN s.trials : DOMAIN s.trials[i] = TrialFields
  BY DEF IsState, IsTrials
<1>5. new = [i \in DOMAIN s.trials |-> new[i]]
  OBVIOUS
<1>6. ASSUME NEW i \in DOMAIN s.trials PROVE CalmTrial(s.trials[i], new[i])
  <2>1. new[i] = Prune(s.trials[i]) \/ new[i] = s.trials[i]
    OBVIOUS
  <2> HIDE DEF new
  <2> QED
    BY <1>3, <1>4, <2>1
<1> HIDE DEF u, new
<1>7. Calm(s, u)
  BY <1>2, <1>5, <1>6, CalmTrials
<1> QED
  BY <1>7 DEF u

LEMMA TroubleIsCalm ==
    ASSUME NEW s, IsState(s), NEW i
    PROVE  Calm(s, PruneAll([s EXCEPT !.troubles = @ + 1], {i}))
<1> DEFINE u == [s EXCEPT !.troubles = @ + 1]
<1>1. DOMAIN u = SupFields /\ SameFrame(s, u) /\ u.phase = s.phase /\ u.trials = s.trials
  BY DEF IsState, SupFields, SameFrame
<1> HIDE DEF u
<1>2. Calm(s, u)
  BY <1>1, CalmPlain
<1>3. Calm(u, PruneAll(u, {i}))
  BY <1>2, PrunesCalmly DEF Calm
<1>4. Calm(s, PruneAll(u, {i}))
  BY <1>2, <1>3, CalmThen
<1> QED
  BY <1>4 DEF u

LEMMA QuarantineIsCalm ==
    ASSUME NEW s, IsState(s), NEW f
    PROVE  Calm(s, Quarantine(s, f))
<1> DEFINE u == [s EXCEPT !.blocked = @ \cup {f}]
           who == {i \in Live(s) : s.trials[i].family = f}
<1>1. DOMAIN u = SupFields /\ SameFrame(s, u) /\ u.phase = s.phase /\ u.trials = s.trials
  BY DEF IsState, SupFields, SameFrame
<1> HIDE DEF u, who
<1>2. Calm(s, u)
  BY <1>1, CalmPlain
<1>3. Calm(u, PruneAll(u, who))
  BY <1>2, PrunesCalmly DEF Calm
<1>4. Calm(s, PruneAll(u, who))
  BY <1>2, <1>3, CalmThen
<1> QED
  BY <1>4, Zenon DEF u, who, Quarantine

LEMMA MeasuredIsCalm ==
    ASSUME NEW s, IsState(s), NEW i, s.trials[i].path # <<>>, NEW u \in Measured(s, i) PROVE Calm(s, u)
<1>1. PICK x \in TrialScores : u = [s EXCEPT !.trials[i].score = x, !.trials[i].scored = TRUE]
  BY DEF Measured
<1> DEFINE t == [s.trials[i] EXCEPT !.score = x, !.scored = TRUE]
           first == [s.trials EXCEPT ![i].score = x]
           new == [first EXCEPT ![i].scored = TRUE]
<1>2. \A j \in DOMAIN s.trials : DOMAIN s.trials[j] = TrialFields
  BY DEF IsState, IsTrials
<1>3. i \in DOMAIN s.trials => CalmTrial(s.trials[i], t)
  BY <1>2 DEF TrialFields, CalmTrial
<1>4. \A j \in DOMAIN s.trials : CalmTrial(s.trials[j], s.trials[j])
  BY <1>2 DEF CalmTrial
<1>5. new = [s.trials EXCEPT ![i] = t]
  OBVIOUS
<1>6. DOMAIN s = SupFields
  BY DEF IsState
<1> HIDE DEF t
<1>7. DOMAIN u = SupFields /\ SameFrame(s, u) /\ u.phase = s.phase /\ u.trials = new
  BY <1>1, <1>6 DEF SupFields, SameFrame
<1>8. u.trials = [j \in DOMAIN s.trials |-> IF j = i THEN t ELSE s.trials[j]]
  BY <1>5, <1>7
<1> HIDE DEF new
<1>9. u.trials = [j \in DOMAIN s.trials |-> u.trials[j]]
  BY <1>8
<1>10. \A j \in DOMAIN s.trials : CalmTrial(s.trials[j], u.trials[j])
  BY <1>3, <1>4, <1>8
<1> QED
  BY <1>7, <1>9, <1>10, CalmTrials

LEMMA EvaluateIsCalm ==
    ASSUME NEW s, IsState(s), NEW i, NEW u \in Evaluate(s, i) PROVE Calm(s, u)
<1>1. \/ u = s
      \/ s.trials[i].path # <<>> /\ u \in Measured(s, i)
      \/ u = PruneAll([s EXCEPT !.troubles = @ + 1], {i})
  BY Zenon DEF Evaluate, Rejected
<1> QED
  BY <1>1, CalmSame, MeasuredIsCalm, TroubleIsCalm

LEMMA ScoredIsCalm ==
    ASSUME NEW s, IsState(s), NEW group, NEW u \in Scored(s, group) PROVE Calm(s, u)
<1> DEFINE who == {i \in ToSet(group) \cap Live(s) : s.trials[i].scored}
<1>1. PICK z \in [who -> TrialScores] :
        u = [s EXCEPT !.trials = [i \in DOMAIN s.trials |->
                IF i \in who THEN [s.trials[i] EXCEPT !.score = z[i]] ELSE s.trials[i]]]
  BY DEF Scored
<1> HIDE DEF who
<1> DEFINE new == [i \in DOMAIN s.trials |->
                     IF i \in who THEN [s.trials[i] EXCEPT !.score = z[i]] ELSE s.trials[i]]
<1>2. \A i \in DOMAIN s.trials : DOMAIN s.trials[i] = TrialFields
  BY DEF IsState, IsTrials
<1>3. ASSUME NEW t, DOMAIN t = TrialFields, NEW x \in TrialScores
      PROVE  CalmTrial(t, [t EXCEPT !.score = x])
  BY <1>3 DEF TrialFields, CalmTrial
<1>4. ASSUME NEW t, DOMAIN t = TrialFields PROVE CalmTrial(t, t)
  BY <1>4 DEF CalmTrial
<1>5. ASSUME NEW i \in DOMAIN s.trials PROVE CalmTrial(s.trials[i], new[i])
  <2>1. CASE i \in who
    <3>1. new[i] = [s.trials[i] EXCEPT !.score = z[i]] /\ z[i] \in TrialScores
      BY <2>1
    <3> HIDE DEF new
    <3> QED
      BY <1>2, <1>3, <3>1
  <2>2. CASE i \notin who
    <3>1. new[i] = s.trials[i]
      BY <2>2
    <3> HIDE DEF new
    <3> QED
      BY <1>2, <1>4, <3>1
  <2> QED
    BY <2>1, <2>2
<1>6. new = [i \in DOMAIN s.trials |-> new[i]]
  OBVIOUS
<1>7. DOMAIN u = SupFields /\ SameFrame(s, u) /\ u.phase = s.phase /\ u.trials = new
  BY <1>1 DEF IsState, SupFields, SameFrame
<1> HIDE DEF new
<1> QED
  BY <1>5, <1>6, <1>7, CalmTrials

-----------------------------------------------------------------------------
(* One epoch of a trial.                                                     *)

TrainedTrial(t, w, i, weights) ==
    /\ DOMAIN w = TrialFields
    /\ w.kind = t.kind /\ w.family = t.family /\ w.recipe = t.recipe /\ w.pruned = t.pruned
    /\ w.score = t.score /\ w.scored = t.scored
    /\ w.epoch = IF t.trainer = 0 THEN 1 ELSE t.epoch + 1
    /\ w.path = <<i, w.epoch>> /\ w.trainer = weights

TrainStep(s, u, i) ==
    /\ IsState(u) /\ DOMAIN u.trials = DOMAIN s.trials
    /\ u.group = s.group /\ u.turn = s.turn /\ u.rung = s.rung /\ u.left = s.left /\ u.open = s.open
    /\ u.phase = s.phase /\ u.fresh = s.fresh + 1
    /\ TrainedTrial(s.trials[i], u.trials[i], i, s.fresh)
    /\ \A j \in DOMAIN s.trials : j # i => u.trials[j] = s.trials[j]
    /\ DOMAIN u.disk = DOMAIN s.disk \cup {u.trials[i].path}
    /\ u.disk[u.trials[i].path] = s.fresh
    /\ \A p \in DOMAIN s.disk : p # u.trials[i].path => u.disk[p] = s.disk[p]

LEMMA TrainedIsStep ==
    ASSUME NEW s, IsState(s), NEW i \in DOMAIN s.trials PROVE TrainStep(s, Trained(s, i), i)
<1> DEFINE u == Trained(s, i)
           e == IF s.trials[i].trainer = 0 THEN 1 ELSE s.trials[i].epoch + 1
           path == <<i, e>>
           w == [s.trials[i] EXCEPT !.trainer = s.fresh, !.epoch = e, !.path = path,
                                    !.history = Append(@, path), !.swept = TRUE]
           disk == [p \in DOMAIN s.disk \cup {path} |-> IF p = path THEN s.fresh ELSE s.disk[p]]
           cached == s.cached \cup {<<s.trials[i].family, s.trials[i].recipe>>}
<1>1. u = [s EXCEPT !.trials[i] = w, !.disk = disk, !.cached = cached, !.fresh = @ + 1]
  BY DEF Trained
<1>2. IsState(u)
  BY TrainedIsLater DEF Later
<1>3. TrainedTrial(s.trials[i], w, i, s.fresh) /\ w.path = path
  BY DEF IsState, IsTrials, TrialFields, TrainedTrial
<1>4. /\ DOMAIN disk = DOMAIN s.disk \cup {path} /\ disk[path] = s.fresh
      /\ \A p \in DOMAIN s.disk : p # path => disk[p] = s.disk[p]
  OBVIOUS
<1> HIDE DEF u, w, disk, cached
<1>5. /\ u.group = s.group /\ u.turn = s.turn /\ u.rung = s.rung /\ u.left = s.left /\ u.open = s.open
      /\ u.phase = s.phase /\ u.fresh = s.fresh + 1 /\ u.disk = disk
      /\ u.trials = [s.trials EXCEPT ![i] = w]
  BY <1>1 DEF IsState, SupFields
<1>6. /\ DOMAIN u.trials = DOMAIN s.trials /\ u.trials[i] = w
      /\ \A j \in DOMAIN s.trials : j # i => u.trials[j] = s.trials[j]
  BY <1>5
<1> HIDE DEF path
<1>7. TrainStep(s, u, i)
  BY <1>2, <1>3, <1>4, <1>5, <1>6 DEF TrainStep
<1> QED
  BY <1>7 DEF u

LEMMA TroubleIsGone ==
    ASSUME NEW s, IsState(s), NEW i \in DOMAIN s.trials
    PROVE  i \notin Live(PruneAll([s EXCEPT !.troubles = @ + 1], {i}))
<1> DEFINE x == [s EXCEPT !.troubles = @ + 1]
           new == [k \in DOMAIN s.trials |-> IF k \in {i} THEN Prune(s.trials[k]) ELSE s.trials[k]]
<1>1. DOMAIN x = SupFields /\ x.trials = s.trials
  BY DEF IsState, SupFields
<1> HIDE DEF x
<1>2. PruneAll(x, {i}) = [x EXCEPT !.trials = new]
  BY <1>1 DEF PruneAll
<1>3. new[i] = Prune(s.trials[i]) /\ DOMAIN s.trials[i] = TrialFields
  BY DEF IsState, IsTrials
<1>4. Prune(s.trials[i]).pruned
  BY <1>3 DEF Prune, TrialFields
<1> HIDE DEF new
<1>5. PruneAll(x, {i}).trials = new
  BY <1>1, <1>2 DEF SupFields
<1>6. i \notin Live(PruneAll(x, {i}))
  BY <1>3, <1>4, <1>5 DEF Live
<1> QED
  BY <1>6 DEF x

(* What comes of it: trained and perhaps pruned; or not trained, and pruned  *)
(* or the end of the run.                                                    *)
LEMMA TrainTrialComes ==
    ASSUME NEW s, IsState(s), NEW i \in DOMAIN s.trials, NEW r \in TrainTrial(s, i)
    PROVE  \/ Calm(s, r.s) /\ (i \in Live(r.s) => r.s.phase = "failed")
           \/ \E u : TrainStep(s, u, i) /\ Calm(u, r.s)
<1> DEFINE failed == [s EXCEPT !.phase = "failed"]
           Pruned(x) == PruneAll([x EXCEPT !.troubles = @ + 1], {i})
<1>1. \/ r.s = failed \/ r.s = Trained(s, i) \/ r.s = Pruned(s)
      \/ r.s = Pruned(Selected(s, i)) \/ r.s = Pruned(Trained(s, i))
  <2> DEFINE result(x, h) == [s |-> x, hard |-> h]
             reasons == IF s.troubles < Troubles THEN BOOLEAN ELSE {}
             some == IF Swept(s, i) THEN {} ELSE reasons \ {FALSE}
             none == reasons \ {TRUE}
  <2>1. \/ r \in {result(failed, FALSE)}
        \/ r \in {result(Trained(s, i), FALSE)}
        \/ r \in {result(Pruned(s), h) : h \in some}
        \/ r \in {result(Pruned(Selected(s, i)), h) : h \in none}
        \/ r \in {result(Pruned(Trained(s, i)), h) : h \in reasons}
    BY Zenon DEF TrainTrial
  <2> HIDE DEF failed, Pruned, some, none, reasons
  <2> QED
    BY <2>1
<1>2. Calm(s, failed) /\ failed.phase = "failed"
  <2>1. DOMAIN failed = SupFields /\ SameFrame(s, failed) /\ failed.phase = "failed" /\ failed.trials = s.trials
    BY DEF IsState, SupFields, SameFrame
  <2> HIDE DEF failed
  <2> QED
    BY <2>1, CalmPlain
<1>3. Calm(s, Pruned(s)) /\ i \notin Live(Pruned(s))
  BY TroubleIsCalm, TroubleIsGone
<1>4. TrainStep(s, Trained(s, i), i) /\ IsState(Trained(s, i))
  BY TrainedIsStep DEF TrainStep
<1> HIDE DEF failed
<1>5. Calm(Trained(s, i), Trained(s, i)) /\ Calm(Trained(s, i), Pruned(Trained(s, i)))
  <2> DEFINE x == Trained(s, i)
  <2>1. IsState(x)
    BY <1>4
  <2> HIDE DEF x
  <2>2. Calm(x, x) /\ Calm(x, Pruned(x))
    BY <2>1, CalmSame, TroubleIsCalm
  <2> QED
    BY <2>2 DEF x
<1>6. Calm(s, Pruned(Selected(s, i))) /\ i \notin Live(Pruned(Selected(s, i)))
  <2> DEFINE x == Selected(s, i)
  <2>1. DOMAIN x = SupFields /\ SameFrame(s, x) /\ x.phase = s.phase /\ x.trials = s.trials
    BY DEF Selected, IsState, SupFields, SameFrame
  <2> HIDE DEF x
  <2>2. Calm(s, x) /\ IsState(x)
    BY <2>1, CalmPlain DEF Calm
  <2>3. Calm(x, Pruned(x)) /\ i \notin Live(Pruned(x))
    BY <2>1, <2>2, TroubleIsCalm, TroubleIsGone
  <2>4. Calm(s, Pruned(x))
    BY <2>2, <2>3, CalmThen
  <2> QED
    BY <2>3, <2>4 DEF x
<1> HIDE DEF Pruned
<1> QED
  BY <1>1, <1>2, <1>3, <1>4, <1>5, <1>6

-----------------------------------------------------------------------------
(* The invariant. Types first.                                               *)

ShapeInv(s) ==
    /\ s.fresh \in Nat \ {0} /\ s.rung \in Nat /\ s.left \in Int
    /\ s.group \in Seq(DOMAIN s.trials) /\ s.turn \in Seq(DOMAIN s.trials)
    /\ \A i \in DOMAIN s.trials :
          s.trials[i].epoch \in Nat /\ s.trials[i].score \in Nat /\ s.trials[i].trainer \in Nat

(* A live trial that has trained shows a checkpoint of its own epoch with the*)
(* weights it trains on, from a trial whose networks are like its own; and   *)
(* no trial is behind those who show a checkpoint of its directory.          *)
Like(s, i, j) == Compatible(s.trials[i], s.trials[j])

Shown(s, i) ==
    LET t == s.trials[i]
    IN  /\ t.path = <<>> <=> t.trainer = 0
        /\ t.path = <<>> => t.epoch = 0 /\ ~t.scored
        /\ t.path # <<>> =>
             \E o \in DOMAIN s.trials : /\ t.path = <<o, t.epoch>> /\ Like(s, o, i)
                                        /\ t.path \in DOMAIN s.disk /\ s.disk[t.path] = t.trainer

ShowsOf(s, j, i) == s.trials[j].path # <<>> /\ s.trials[j].path[1] = i

OwnInv(s) ==
    /\ \A i \in Live(s) : Shown(s, i)
    /\ \A i, j \in Live(s) : ShowsOf(s, j, i) => s.trials[j].epoch <= s.trials[i].epoch

(* Who is a calibrated trial, a candidate of the rungs, a seed.              *)
KindsInv(s) ==
    /\ \A i \in DOMAIN s.trials :
          s.trials[i].kind = "cal" => i \in 1 .. Len(Families) /\ s.trials[i].family = Families[i]
    /\ s.phase = "3A" => DOMAIN s.trials = 1 .. s.rung /\ \A i \in DOMAIN s.trials : s.trials[i].kind = "cal"
    /\ s.phase = "3B" => \A i \in DOMAIN s.trials : s.trials[i].kind \in {"cal", "asha"}

Heir(s, j) == s.trials[j].path # <<>> /\ s.trials[j].path[1] # j

NoHeirsYet(s) == s.phase \in {"3A", "3B"} => \A j \in Live(s) : ~Heir(s, j)

(* The candidates come out of a rung with the same number of epochs.         *)
Candidates(s) == {i \in Live(s) : s.trials[i].kind = "asha"}

BetweenRungs(s) ==
    /\ s.rung \in 0 .. Len(Resources)
    /\ \A i, j \in Candidates(s) : s.trials[i].epoch = s.trials[j].epoch

InRung(s) ==
    /\ s.rung \in 1 .. Len(Resources)
    /\ \A i, j \in Candidates(s) :
          \/ s.trials[i].epoch = s.trials[j].epoch
          \/ s.trials[i].epoch <= Resources[s.rung] /\ s.trials[j].epoch <= Resources[s.rung]

RungsInv(s) ==
    s.phase = "3B" =>
        /\ Candidates(s) \subseteq ToSet(s.group)
        /\ IF s.turn = <<>> THEN BetweenRungs(s) ELSE InRung(s)

LEMMA CalmLive ==
    ASSUME NEW s, NEW u, Calm(s, u)
    PROVE  /\ Live(u) \subseteq Live(s) /\ Live(s) \subseteq DOMAIN s.trials
           /\ \A i \in DOMAIN s.trials :
                /\ u.trials[i].kind = s.trials[i].kind /\ u.trials[i].family = s.trials[i].family
                /\ u.trials[i].recipe = s.trials[i].recipe
                /\ u.trials[i].epoch = s.trials[i].epoch /\ u.trials[i].path = s.trials[i].path
           /\ \A i \in Live(u) : u.trials[i].trainer = s.trials[i].trainer
           /\ \A i, j \in DOMAIN s.trials : Like(u, i, j) <=> Like(s, i, j)
<1>1. Live(u) \subseteq Live(s) /\ Live(s) \subseteq DOMAIN s.trials
  BY DEF Calm, CalmTrial, Live
<1>2. \A i \in DOMAIN s.trials :
                /\ u.trials[i].kind = s.trials[i].kind /\ u.trials[i].family = s.trials[i].family
                /\ u.trials[i].recipe = s.trials[i].recipe
                /\ u.trials[i].epoch = s.trials[i].epoch /\ u.trials[i].path = s.trials[i].path
  BY DEF Calm, CalmTrial
<1>3. \A i \in Live(u) : u.trials[i].trainer = s.trials[i].trainer
  BY DEF Calm, CalmTrial, Live
<1>4. \A i, j \in DOMAIN s.trials : Like(u, i, j) <=> Like(s, i, j)
  BY <1>2 DEF Like, Compatible
<1> QED
  BY <1>1, <1>2, <1>3, <1>4

LEMMA CalmKeepsShape == ASSUME NEW s, ShapeInv(s), NEW u, Calm(s, u) PROVE ShapeInv(u)
<1>1. TrialScores \subseteq Nat
  BY SupervisorOK
<1>2. \A i \in DOMAIN s.trials :
          u.trials[i].epoch \in Nat /\ u.trials[i].score \in Nat /\ u.trials[i].trainer \in Nat
  <2> TAKE i \in DOMAIN s.trials
  <2> DEFINE v == s.trials[i]
             w == u.trials[i]
  <2>1. v.epoch \in Nat /\ v.score \in Nat /\ v.trainer \in Nat
    BY DEF ShapeInv
  <2>2. CalmTrial(v, w)
    BY DEF Calm
  <2> HIDE DEF v, w
  <2>3. w.epoch = v.epoch /\ w.trainer \in {0, v.trainer} /\ w.score \in {v.score} \cup TrialScores
    BY <2>2 DEF CalmTrial
  <2>4. w.epoch \in Nat /\ w.trainer \in Nat
    BY <2>1, <2>3
  <2>5. w.score \in Nat
    BY <1>1, <2>1, <2>3, Zenon
  <2> QED
    BY <2>4, <2>5 DEF w
<1> QED
  BY <1>2 DEF ShapeInv, Calm, SameFrame

LEMMA CalmKeepsOwn == ASSUME NEW s, OwnInv(s), NEW u, Calm(s, u) PROVE OwnInv(u)
<1>1. ASSUME NEW i \in Live(u) PROVE Shown(u, i)
  <2>1. /\ i \in Live(s) /\ i \in DOMAIN s.trials /\ Shown(s, i)
        /\ u.trials[i].epoch = s.trials[i].epoch /\ u.trials[i].path = s.trials[i].path
        /\ u.trials[i].trainer = s.trials[i].trainer
    BY <1>1, CalmLive DEF OwnInv
  <2>2. u.trials[i].scored => s.trials[i].scored \/ s.trials[i].path # <<>>
    BY <2>1 DEF Calm, CalmTrial
  <2>3. DOMAIN u.trials = DOMAIN s.trials /\ u.disk = s.disk
    BY DEF Calm, SameFrame
  <2>4. \A o \in DOMAIN s.trials : Like(u, o, i) <=> Like(s, o, i)
    BY <2>1, CalmLive
  <2> QED
    BY <2>1, <2>2, <2>3, <2>4 DEF Shown
<1>2. ASSUME NEW i \in Live(u), NEW j \in Live(u), ShowsOf(u, j, i) PROVE u.trials[j].epoch <= u.trials[i].epoch
  <2>1. i \in Live(s) /\ j \in Live(s) /\ i \in DOMAIN s.trials /\ j \in DOMAIN s.trials
    BY CalmLive
  <2>2. ShowsOf(s, j, i)
    BY <1>2, <2>1, CalmLive DEF ShowsOf
  <2>3. s.trials[j].epoch <= s.trials[i].epoch
    BY <2>1, <2>2 DEF OwnInv
  <2> QED
    BY <2>1, <2>3, CalmLive
<1> QED
  BY <1>1, <1>2 DEF OwnInv

LEMMA CalmKeepsKinds ==
    ASSUME NEW s, KindsInv(s), NoHeirsYet(s), NEW u, Calm(s, u) PROVE KindsInv(u) /\ NoHeirsYet(u)
<1>1. DOMAIN u.trials = DOMAIN s.trials /\ u.rung = s.rung /\ (u.phase = s.phase \/ u.phase = "failed")
  BY DEF Calm, SameFrame
<1>2. KindsInv(u)
  BY <1>1, CalmLive DEF KindsInv
<1>3. NoHeirsYet(u)
  BY <1>1, CalmLive DEF NoHeirsYet, Heir
<1> QED
  BY <1>2, <1>3

LEMMA CalmKeepsRungs ==
    ASSUME NEW s, NEW u, Calm(s, u)
    PROVE  /\ Candidates(u) \subseteq Candidates(s)
           /\ BetweenRungs(s) => BetweenRungs(u)
           /\ InRung(s) => InRung(u)
           /\ RungsInv(s) => RungsInv(u)
<1>1. /\ u.rung = s.rung /\ u.turn = s.turn /\ u.group = s.group
      /\ (u.phase = s.phase \/ u.phase = "failed")
  BY DEF Calm, SameFrame
<1>2. Candidates(u) \subseteq Candidates(s)
  BY CalmLive DEF Candidates
<1>3. \A i \in Candidates(u) : u.trials[i].epoch = s.trials[i].epoch
  BY CalmLive DEF Candidates
<1>4. BetweenRungs(s) => BetweenRungs(u)
  BY <1>1, <1>2, <1>3 DEF BetweenRungs
<1>5. InRung(s) => InRung(u)
  <2> SUFFICES ASSUME InRung(s) PROVE InRung(u)
    OBVIOUS
  <2>1. ASSUME NEW i \in Candidates(u), NEW j \in Candidates(u)
        PROVE \/ u.trials[i].epoch = u.trials[j].epoch
              \/ u.trials[i].epoch <= Resources[u.rung] /\ u.trials[j].epoch <= Resources[u.rung]
    BY <1>1, <1>2, <1>3 DEF InRung
  <2> QED
    BY <1>1, <2>1 DEF InRung
<1>6. RungsInv(s) => RungsInv(u)
  BY <1>1, <1>2, <1>4, <1>5 DEF RungsInv
<1> QED
  BY <1>2, <1>4, <1>5, <1>6

-----------------------------------------------------------------------------
(* An epoch keeps it.                                                        *)

LEMMA StepLive ==
    ASSUME NEW s, NEW u, NEW i \in DOMAIN s.trials, TrainStep(s, u, i), i \in Live(s), ShapeInv(s), OwnInv(s)
    PROVE  /\ Live(u) = Live(s) /\ Live(s) \subseteq DOMAIN s.trials
           /\ \A j \in DOMAIN s.trials :
                /\ u.trials[j].kind = s.trials[j].kind /\ u.trials[j].family = s.trials[j].family
                /\ u.trials[j].recipe = s.trials[j].recipe
           /\ \A j \in DOMAIN s.trials : j # i => u.trials[j] = s.trials[j]
           /\ \A k, j \in DOMAIN s.trials : Like(u, k, j) <=> Like(s, k, j)
           /\ u.trials[i].epoch = s.trials[i].epoch + 1
           /\ u.trials[i].path = <<i, s.trials[i].epoch + 1>> /\ ~Heir(u, i)
<1>1. \A j \in DOMAIN s.trials :
                /\ u.trials[j].kind = s.trials[j].kind /\ u.trials[j].family = s.trials[j].family
                /\ u.trials[j].recipe = s.trials[j].recipe /\ u.trials[j].pruned = s.trials[j].pruned
  BY DEF TrainStep, TrainedTrial
<1>2. Live(u) = Live(s) /\ Live(s) \subseteq DOMAIN s.trials
  BY <1>1 DEF TrainStep, Live
<1>3. \A k, j \in DOMAIN s.trials : Like(u, k, j) <=> Like(s, k, j)
  BY <1>1 DEF Like, Compatible
<1>4. s.trials[i].trainer = 0 => s.trials[i].epoch = 0
  BY DEF OwnInv, Shown
<1>5. u.trials[i].epoch = s.trials[i].epoch + 1
  BY <1>4 DEF TrainStep, TrainedTrial, ShapeInv
<1>6. u.trials[i].path = <<i, s.trials[i].epoch + 1>>
  BY <1>5 DEF TrainStep, TrainedTrial
<1>7. ~Heir(u, i)
  BY <1>6 DEF Heir
<1> QED
  BY <1>1, <1>2, <1>3, <1>5, <1>6, <1>7 DEF TrainStep

LEMMA StepKeepsShape ==
    ASSUME NEW s, NEW u, NEW i \in DOMAIN s.trials, TrainStep(s, u, i), i \in Live(s), ShapeInv(s), OwnInv(s)
    PROVE  ShapeInv(u)
<1>1. \A j \in DOMAIN s.trials :
          u.trials[j].epoch \in Nat /\ u.trials[j].score \in Nat /\ u.trials[j].trainer \in Nat
  <2> TAKE j \in DOMAIN s.trials
  <2>1. CASE j = i
    <3>1. u.trials[i].epoch = s.trials[i].epoch + 1 /\ s.trials[i].epoch \in Nat /\ s.trials[i].score \in Nat
      BY StepLive DEF ShapeInv
    <3>2. u.trials[i].score = s.trials[i].score /\ u.trials[i].trainer = s.fresh /\ s.fresh \in Nat
      BY DEF TrainStep, TrainedTrial, ShapeInv
    <3> QED
      BY <2>1, <3>1, <3>2
  <2>2. CASE j # i
    BY <2>2, StepLive DEF ShapeInv
  <2> QED
    BY <2>1, <2>2
<1>2. u.fresh \in Nat \ {0}
  BY DEF ShapeInv, TrainStep
<1> QED
  BY <1>1, <1>2 DEF ShapeInv, TrainStep

LEMMA StepKeepsOwn ==
    ASSUME NEW s, NEW u, NEW i \in DOMAIN s.trials, TrainStep(s, u, i), i \in Live(s), ShapeInv(s), OwnInv(s)
    PROVE  OwnInv(u)
<1> DEFINE e == s.trials[i].epoch
<1>1. e \in Nat /\ s.fresh \in Nat \ {0}
  BY DEF ShapeInv
<1>2. u.trials[i].path = <<i, e + 1>> /\ u.trials[i].epoch = e + 1
  BY StepLive
<1>3. Live(u) = Live(s) /\ \A j \in Live(s) : j \in DOMAIN s.trials
  BY StepLive
<1>4. ASSUME NEW j \in Live(u) PROVE Shown(u, j)
  <2>1. CASE j = i
    <3>1. u.trials[i].trainer = s.fresh /\ u.trials[i].path \in DOMAIN u.disk /\ u.disk[u.trials[i].path] = s.fresh
      BY DEF TrainStep, TrainedTrial
    <3>2. Like(u, i, i) /\ i \in DOMAIN u.trials
      BY DEF Like, Compatible, TrainStep
    <3>3. u.trials[i].path # <<>>
      BY <1>2
    <3> QED
      BY <1>1, <1>2, <2>1, <3>1, <3>2, <3>3 DEF Shown
  <2>2. CASE j # i
    <3>1. j \in Live(s) /\ j \in DOMAIN s.trials /\ u.trials[j] = s.trials[j] /\ Shown(s, j)
      BY <1>3, <2>2, StepLive DEF OwnInv
    <3>2. s.trials[j].path # u.trials[i].path
      <4> SUFFICES ASSUME s.trials[j].path = <<i, e + 1>> PROVE FALSE
        BY <1>2
      <4>1. s.trials[j].path # <<>> /\ s.trials[j].path[1] = i
        OBVIOUS
      <4>2. s.trials[j].epoch <= e
        BY <3>1, <4>1 DEF OwnInv, ShowsOf
      <4>3. PICK o \in DOMAIN s.trials : s.trials[j].path = <<o, s.trials[j].epoch>>
        BY <3>1, <4>1 DEF Shown
      <4>4. s.trials[j].epoch = e + 1
        BY <4>3
      <4> QED
        BY <1>1, <4>2, <4>4
    <3>3. \A o \in DOMAIN s.trials : Like(u, o, j) <=> Like(s, o, j)
      BY <3>1, StepLive
    <3>4. /\ DOMAIN u.trials = DOMAIN s.trials /\ DOMAIN s.disk \subseteq DOMAIN u.disk
          /\ \A p \in DOMAIN s.disk : p # u.trials[i].path => u.disk[p] = s.disk[p]
      BY DEF TrainStep
    <3> QED
      BY <3>1, <3>2, <3>3, <3>4 DEF Shown
  <2> QED
    BY <2>1, <2>2
<1>5. ASSUME NEW k \in Live(u), NEW j \in Live(u), ShowsOf(u, j, k)
      PROVE  u.trials[j].epoch <= u.trials[k].epoch
  <2>1. /\ k \in Live(s) /\ j \in Live(s) /\ k \in DOMAIN s.trials /\ j \in DOMAIN s.trials
        /\ s.trials[k].epoch \in Nat /\ s.trials[j].epoch \in Nat
    BY <1>3 DEF ShapeInv
  <2>2. CASE j = i
    <3>1. k = i
      BY <1>2, <1>5, <2>2 DEF ShowsOf
    <3> QED
      BY <1>1, <1>2, <2>2, <3>1
  <2>3. CASE j # i
    <3>1. u.trials[j] = s.trials[j]
      BY <2>1, <2>3, StepLive
    <3>2. s.trials[j].epoch <= s.trials[k].epoch
      BY <1>5, <2>1, <3>1 DEF OwnInv, ShowsOf
    <3>3. CASE k = i
      BY <1>1, <1>2, <2>1, <3>1, <3>2, <3>3
    <3>4. CASE k # i
      BY <2>1, <3>1, <3>2, <3>4, StepLive
    <3> QED
      BY <3>3, <3>4
  <2> QED
    BY <2>2, <2>3
<1> QED
  BY <1>4, <1>5 DEF OwnInv

LEMMA StepKeepsKinds ==
    ASSUME NEW s, NEW u, NEW i \in DOMAIN s.trials, TrainStep(s, u, i), i \in Live(s), ShapeInv(s), OwnInv(s),
           KindsInv(s), NoHeirsYet(s)
    PROVE  KindsInv(u) /\ NoHeirsYet(u)
<1>1. DOMAIN u.trials = DOMAIN s.trials /\ u.rung = s.rung /\ u.phase = s.phase
  BY DEF TrainStep
<1>2. KindsInv(u)
  BY <1>1, StepLive DEF KindsInv
<1>3. NoHeirsYet(u)
  BY <1>1, StepLive DEF NoHeirsYet, Heir
<1> QED
  BY <1>2, <1>3

LEMMA ResourcesAre == Len(Resources) \in Nat /\ \A k \in 1 .. Len(Resources) : Resources[k] \in Nat
BY SupervisorOK, ElementOfSeq

LEMMA StepKeepsRungs ==
    ASSUME NEW s, NEW u, NEW i \in DOMAIN s.trials, TrainStep(s, u, i), i \in Live(s), ShapeInv(s), OwnInv(s),
           InRung(s), s.trials[i].epoch < Resources[s.rung]
    PROVE  InRung(u) /\ Candidates(u) = Candidates(s)
<1> DEFINE R == Resources[s.rung]
<1>1. u.rung = s.rung /\ s.rung \in 1 .. Len(Resources) /\ R \in Nat
  BY ResourcesAre DEF TrainStep, InRung
<1>2. Candidates(u) = Candidates(s) /\ Candidates(s) \subseteq DOMAIN s.trials
  BY StepLive DEF Candidates
<1>3. \A j \in Candidates(s) : u.trials[j].epoch = IF j = i THEN s.trials[i].epoch + 1 ELSE s.trials[j].epoch
  BY <1>2, StepLive
<1>4. \A j \in Candidates(s) : s.trials[j].epoch \in Nat
  BY <1>2 DEF ShapeInv
<1>5. s.trials[i].epoch \in Nat /\ s.trials[i].epoch < R
  BY DEF ShapeInv
<1>6. ASSUME NEW j \in Candidates(s), NEW k \in Candidates(s)
      PROVE  \/ s.trials[j].epoch = s.trials[k].epoch
             \/ s.trials[j].epoch <= R /\ s.trials[k].epoch <= R
  BY <1>6 DEF InRung
<1> HIDE DEF R
<1>7. ASSUME NEW j \in Candidates(s), NEW k \in Candidates(s)
      PROVE  \/ u.trials[j].epoch = u.trials[k].epoch
             \/ u.trials[j].epoch <= R /\ u.trials[k].epoch <= R
  <2>1. CASE j # i /\ k # i
    BY <1>3, <1>6, <2>1
  <2>2. CASE j = i /\ k = i
    BY <2>2
  <2>3. CASE j = i /\ k # i
    BY <1>1, <1>3, <1>4, <1>5, <1>6, <2>3
  <2>4. CASE j # i /\ k = i
    BY <1>1, <1>3, <1>4, <1>5, <1>6, <2>4
  <2> QED
    BY <2>1, <2>2, <2>3, <2>4
<1> QED
  BY <1>1, <1>2, <1>7 DEF InRung, R

-----------------------------------------------------------------------------
(* A ranking is a list of the trials it ranks, each of them once.            *)
LEMMA RankedAre ==
    ASSUME NEW s, NEW who, IsFiniteSet(who), NEW S, NEW list \in Seq(S), who \subseteq ToSet(list),
           \A i \in who : s.trials[i].score \in Nat
    PROVE  /\ Ranked(s, who, list) \in Seq(who) /\ Len(Ranked(s, who, list)) = Cardinality(who)
           /\ IsInjective(Ranked(s, who, list)) /\ Cardinality(who) \in Nat
<1> DEFINE value(i) == IF s.trials[i].scored THEN s.trials[i].score ELSE -1
           place(i) == CHOOSE k \in DOMAIN list : list[k] = i
           before(i, j) == value(i) > value(j) \/ (value(i) = value(j) /\ place(i) < place(j))
           R == {x \in who \X who : before(x[1], x[2])}
           nth(n) == CHOOSE i \in who : Cardinality({j \in who : before(j, i)}) = n - 1
           c == Cardinality(who)
           r == Ranked(s, who, list)
<1>1. r = [n \in 1 .. c |-> nth(n)]
  BY Zenon DEF Ranked
<1>2. DOMAIN list = 1 .. Len(list) /\ Len(list) \in Nat
  BY ElementOfSeq
<1>3. \A i \in who : place(i) \in Int /\ list[place(i)] = i
  <2> TAKE i \in who
  <2>1. \E k \in DOMAIN list : list[k] = i
    BY DEF ToSet
  <2>2. place(i) \in DOMAIN list /\ list[place(i)] = i
    BY <2>1
  <2> HIDE DEF place
  <2> QED
    BY <1>2, <2>2
<1>4. \A i \in who : value(i) \in Int
  OBVIOUS
<1> HIDE DEF place, value, r
<1>5. \A i, j \in who : i # j => before(i, j) \/ before(j, i)
  <2> TAKE i, j \in who
  <2> HAVE i # j
  <2>1. place(i) # place(j)
    BY <1>3
  <2>2. place(i) \in Int /\ place(j) \in Int /\ value(i) \in Int /\ value(j) \in Int
    BY <1>3, <1>4
  <2> QED
    BY <2>1, <2>2
<1>6. \A i \in who : ~before(i, i)
  BY <1>3, <1>4
<1>7. \A i, j, k \in who : before(i, j) /\ before(j, k) => before(i, k)
  <2> TAKE i, j, k \in who
  <2>1. /\ place(i) \in Int /\ place(j) \in Int /\ place(k) \in Int
        /\ value(i) \in Int /\ value(j) \in Int /\ value(k) \in Int
    BY <1>3, <1>4
  <2> QED
    BY <2>1
<1> HIDE DEF before, nth
<1>8. \A i, j \in who : <<i, j>> \in R <=> before(i, j)
  OBVIOUS
<1>9. \A i \in who : {j \in who : before(j, i)} = Before(who, R, i)
  BY <1>8 DEF Before
<1> HIDE DEF R
<1>10. /\ \A i, j \in who : i # j => <<i, j>> \in R \/ <<j, i>> \in R
       /\ \A i \in who : <<i, i>> \notin R
       /\ \A i, j, k \in who : <<i, j>> \in R /\ <<j, k>> \in R => <<i, k>> \in R
  BY <1>5, <1>6, <1>7, <1>8
<1>11. /\ c \in Nat
       /\ \A i \in who : Cardinality(Before(who, R, i)) \in 0 .. c - 1
       /\ \A i, k \in who : Cardinality(Before(who, R, i)) = Cardinality(Before(who, R, k)) => i = k
       /\ \A n \in 1 .. c : \E i \in who : Cardinality(Before(who, R, i)) = n - 1
  <2>1. Ordered(who, R)
    BY <1>10 DEF Ordered
  <2>2. HasPlaces(who, R)
    BY <2>1, Places
  <2> QED
    BY <2>2 DEF HasPlaces, c
<1>12. \A n \in 1 .. c : nth(n) \in who /\ Cardinality(Before(who, R, nth(n))) = n - 1
  <2> TAKE n \in 1 .. c
  <2>1. \E i \in who : Cardinality({j \in who : before(j, i)}) = n - 1
    BY <1>9, <1>11
  <2>2. nth(n) \in who /\ Cardinality({j \in who : before(j, nth(n))}) = n - 1
    BY <2>1, Zenon DEF nth
  <2> QED
    BY <1>9, <2>2
<1> HIDE DEF c
<1>13. r \in [1 .. c -> who] /\ \A n \in 1 .. c : r[n] = nth(n)
  BY <1>1, <1>12
<1>14. r \in Seq(who) /\ Len(r) = c /\ DOMAIN r = 1 .. c
  BY <1>11, <1>13, SeqDef, LenProperties
<1>15. ASSUME NEW m \in 1 .. c, NEW n \in 1 .. c, r[m] = r[n] PROVE m = n
  <2>1. m - 1 = n - 1
    BY <1>12, <1>13, <1>15
  <2> QED
    BY <1>11, <2>1
<1>16. IsInjective(r)
  BY <1>14, <1>15 DEF IsInjective
<1> QED
  BY <1>11, <1>14, <1>16 DEF c, r

LEMMA TurnIs ==
    ASSUME NEW S, NEW q \in Seq(S), q # <<>>, IsInjective(q)
    PROVE  /\ Head(q) = q[1] /\ q[1] \in S /\ Tail(q) \in Seq(S) /\ IsInjective(Tail(q))
           /\ ToSet(q) = {q[1]} \cup ToSet(Tail(q)) /\ q[1] \notin ToSet(Tail(q))
           /\ Tail(q) # <<>> => Tail(q)[1] \in ToSet(Tail(q))
<1>1. Len(q) \in Nat \ {0} /\ DOMAIN q = 1 .. Len(q)
  BY EmptySeq, LenProperties
<1>2. /\ Head(q) = q[1] /\ q[1] \in S /\ Tail(q) \in Seq(S) /\ Len(Tail(q)) = Len(q) - 1
      /\ DOMAIN Tail(q) = 1 .. Len(q) - 1
      /\ \A i \in 1 .. Len(q) - 1 : Tail(q)[i] = q[i + 1]
  BY <1>1, HeadTailProperties, ElementOfSeq, LenProperties
<1>3. IsInjective(Tail(q))
  BY <1>1, <1>2 DEF IsInjective
<1>4. ToSet(Tail(q)) = {q[i] : i \in 2 .. Len(q)}
  <2>1. ToSet(Tail(q)) = {q[i + 1] : i \in 1 .. Len(q) - 1}
    BY <1>2 DEF ToSet
  <2>2. ASSUME NEW x PROVE (\E i \in 1 .. Len(q) - 1 : x = q[i + 1]) <=> (\E i \in 2 .. Len(q) : x = q[i])
    <3>1. ASSUME NEW i \in 1 .. Len(q) - 1, x = q[i + 1] PROVE \E k \in 2 .. Len(q) : x = q[k]
      <4>1. i + 1 \in 2 .. Len(q)
        BY <1>1
      <4> QED
        BY <3>1, <4>1
    <3>2. ASSUME NEW i \in 2 .. Len(q), x = q[i] PROVE \E k \in 1 .. Len(q) - 1 : x = q[k + 1]
      <4>1. i - 1 \in 1 .. Len(q) - 1 /\ (i - 1) + 1 = i
        BY <1>1
      <4> QED
        BY <3>2, <4>1
    <3> QED
      BY <3>1, <3>2
  <2> QED
    BY <2>1, <2>2
<1>5. ToSet(q) = {q[1]} \cup ToSet(Tail(q))
  <2>1. ToSet(q) = {q[i] : i \in 1 .. Len(q)}
    BY <1>1 DEF ToSet
  <2>2. \A i \in 1 .. Len(q) : i = 1 \/ i \in 2 .. Len(q)
    BY <1>1
  <2>3. 1 \in 1 .. Len(q) /\ \A i \in 2 .. Len(q) : i \in 1 .. Len(q)
    BY <1>1
  <2> QED
    BY <1>4, <2>1, <2>2, <2>3
<1>6. q[1] \notin ToSet(Tail(q))
  BY <1>1, <1>4 DEF IsInjective
<1>7. Tail(q) # <<>> => Tail(q)[1] \in ToSet(Tail(q))
  <2> SUFFICES ASSUME Tail(q) # <<>> PROVE Tail(q)[1] \in ToSet(Tail(q))
    OBVIOUS
  <2>1. Len(Tail(q)) \in Nat \ {0} /\ DOMAIN Tail(q) = 1 .. Len(Tail(q))
    BY <1>2, EmptySeq, LenProperties
  <2>2. 1 \in DOMAIN Tail(q)
    BY <2>1
  <2> QED
    BY <2>2 DEF ToSet
<1> QED
  BY <1>2, <1>3, <1>5, <1>6, <1>7

-----------------------------------------------------------------------------
(* The generations of the search. Trials that could copy one another end     *)
(* a generation with the same number of epochs, or they are only two and     *)
(* have copied nothing; until the deadline has passed that is so.            *)

Members(s) == ToSet(s.group) \cap Live(s)
Class(s, i) == {j \in Members(s) : Like(s, j, i)}
Due(s, i) ==
    IF s.turn = <<>> \/ i \notin ToSet(s.turn) THEN 0 ELSE IF i = s.turn[1] THEN s.left ELSE Perturb
EndsAt(s, i) == s.trials[i].epoch + Due(s, i)
Even(s, i) == \A j \in Class(s, i) : EndsAt(s, j) = EndsAt(s, i)
Lone(s, i) == (\A j, k \in Class(s, i) \ {i} : j = k) /\ \A j \in Class(s, i) : ~Heir(s, j)

Placed(s) ==
    /\ IsInjective(s.group) /\ IsInjective(s.turn) /\ (s.turn # <<>> => s.left \in Nat)
    /\ \A j \in Live(s) : Heir(s, j) => j \in ToSet(s.group) /\ s.trials[j].path[1] \in ToSet(s.group)
Level(s) == s.open => \A i \in Members(s) : Even(s, i) \/ Lone(s, i)
Lowest(s) == \A j \in Members(s) : Heir(s, j) => \A i \in Class(s, j) : s.trials[j].epoch <= s.trials[i].epoch

GensInv(s) == s.phase = "3C" => Placed(s) /\ Level(s) /\ (s.open \/ s.turn # <<>> => Lowest(s))

LEMMA LikeIs ==
    ASSUME NEW s
    PROVE  \A i, j, k : /\ Like(s, i, i)
                        /\ Like(s, i, j) => Like(s, j, i)
                        /\ Like(s, i, j) /\ Like(s, j, k) => Like(s, i, k)
BY DEF Like, Compatible

LEMMA CalmKeepsGens ==
    ASSUME NEW s, NEW u, Calm(s, u)
    PROVE  /\ Placed(s) => Placed(u)
           /\ Level(s) => Level(u)
           /\ Lowest(s) => Lowest(u)
           /\ GensInv(s) => GensInv(u)
<1>1. /\ u.group = s.group /\ u.turn = s.turn /\ u.left = s.left /\ u.open = s.open
      /\ (u.phase = s.phase \/ u.phase = "failed")
  BY DEF Calm, SameFrame
<1>2. /\ Members(u) \subseteq Members(s) /\ Live(u) \subseteq Live(s) /\ Live(s) \subseteq DOMAIN s.trials
      /\ Members(s) \subseteq DOMAIN s.trials
  BY <1>1, CalmLive DEF Members
<1>3. \A i \in DOMAIN s.trials : /\ Heir(u, i) <=> Heir(s, i)
                                 /\ u.trials[i].path = s.trials[i].path
                                 /\ u.trials[i].epoch = s.trials[i].epoch
                                 /\ EndsAt(u, i) = EndsAt(s, i)
  BY <1>1, CalmLive DEF Heir, EndsAt, Due
<1>4. \A i \in Members(u) : Class(u, i) \subseteq Class(s, i)
  BY <1>2, CalmLive DEF Class
<1>5. Placed(s) => Placed(u)
  BY <1>1, <1>2, <1>3 DEF Placed
<1>6. Level(s) => Level(u)
  <2> SUFFICES ASSUME Level(s), u.open, NEW i \in Members(u) PROVE Even(u, i) \/ Lone(u, i)
    BY DEF Level
  <2>1. i \in Members(s) /\ Class(u, i) \subseteq Class(s, i) /\ Class(s, i) \subseteq Members(s)
    BY <1>2, <1>4 DEF Class
  <2>2. CASE Even(s, i)
    BY <1>2, <1>3, <2>1, <2>2 DEF Even
  <2>3. CASE Lone(s, i)
    BY <1>2, <1>3, <2>1, <2>3 DEF Lone
  <2> QED
    BY <1>1, <2>1, <2>2, <2>3 DEF Level
<1>7. Lowest(s) => Lowest(u)
  <2> SUFFICES ASSUME Lowest(s), NEW j \in Members(u), Heir(u, j), NEW i \in Class(u, j)
               PROVE  u.trials[j].epoch <= u.trials[i].epoch
    BY DEF Lowest
  <2>1. j \in Members(s) /\ Heir(s, j) /\ i \in Class(s, j) /\ i \in Members(s)
    BY <1>2, <1>3, <1>4 DEF Class
  <2>2. s.trials[j].epoch <= s.trials[i].epoch
    BY <2>1 DEF Lowest
  <2> QED
    BY <1>2, <1>3, <2>1, <2>2
<1> QED
  BY <1>1, <1>5, <1>6, <1>7 DEF GensInv

(* Once everybody has had the turn, those who copied are behind nobody.      *)
LEMMA LevelIsLow ==
    ASSUME NEW s, ShapeInv(s), Level(s), s.open, s.turn = <<>>
    PROVE  Lowest(s)
<1> SUFFICES ASSUME NEW j \in Members(s), Heir(s, j), NEW i \in Class(s, j)
             PROVE  s.trials[j].epoch <= s.trials[i].epoch
  BY DEF Lowest
<1>1. i \in DOMAIN s.trials /\ j \in DOMAIN s.trials /\ j \in Class(s, j)
  BY LikeIs DEF Class, Members, Live
<1>2. s.trials[i].epoch \in Nat /\ s.trials[j].epoch \in Nat
  BY <1>1 DEF ShapeInv
<1>3. Even(s, j)
  BY <1>1 DEF Level, Lone
<1>4. EndsAt(s, i) = s.trials[i].epoch /\ EndsAt(s, j) = s.trials[j].epoch
  BY <1>2 DEF EndsAt, Due
<1>5. s.trials[i].epoch = s.trials[j].epoch
  BY <1>3, <1>4 DEF Even
<1> QED
  BY <1>2, <1>5

(* An epoch in turn. *)
LEMMA StepKeepsGens ==
    ASSUME NEW s, NEW x, NEW u, NEW i \in Live(s), ShapeInv(s), OwnInv(s),
           Placed(s), Level(s), Lowest(s), s.turn # <<>>, i = s.turn[1], s.left > 0,
           x.trials = s.trials, x.group = s.group, x.turn = s.turn, x.open = s.open, x.left = s.left - 1,
           TrainStep(x, u, i), ShapeInv(x), OwnInv(x)
    PROVE  Placed(u) /\ Level(u) /\ Lowest(u)
<1>1. i \in DOMAIN x.trials /\ i \in Live(x) /\ Live(x) = Live(s) /\ Live(s) \subseteq DOMAIN s.trials
  BY DEF Live
<1>2. u.group = s.group /\ u.turn = s.turn /\ u.open = s.open /\ u.left = s.left - 1
  BY DEF TrainStep
<1>3. Live(u) = Live(s) /\ Members(u) = Members(s) /\ Members(s) \subseteq DOMAIN s.trials
  BY <1>1, <1>2, StepLive DEF Members
<1>4. \A j \in DOMAIN s.trials : j # i => u.trials[j] = s.trials[j]
  BY <1>1, StepLive
<1>5. u.trials[i].epoch = s.trials[i].epoch + 1 /\ ~Heir(u, i)
  BY <1>1, StepLive
<1>6. \A j \in Members(s) : Class(u, j) = Class(s, j)
  <2>1. \A k, j \in DOMAIN s.trials : Like(u, k, j) <=> Like(x, k, j)
    BY <1>1, StepLive
  <2>2. \A k, j \in DOMAIN s.trials : Like(x, k, j) <=> Like(s, k, j)
    BY DEF Like
  <2> QED
    BY <1>3, <2>1, <2>2 DEF Class
<1>7. \A j \in DOMAIN s.trials : Heir(u, j) => Heir(s, j) /\ j # i
  BY <1>4, <1>5 DEF Heir
<1>8. \A j \in DOMAIN s.trials : s.trials[j].epoch \in Nat
  BY DEF ShapeInv
<1>9. s.left \in Nat /\ i \in ToSet(s.turn) /\ Perturb \in Nat
  <2>1. s.turn \in Seq(DOMAIN s.trials) /\ IsInjective(s.turn) /\ s.left \in Nat
    BY DEF ShapeInv, Placed
  <2> QED
    BY <2>1, TurnIs, SupervisorOK
<1>10. \A j \in DOMAIN s.trials : EndsAt(u, j) = EndsAt(s, j)
  <2> TAKE j \in DOMAIN s.trials
  <2>1. CASE j = i
    <3>1. Due(u, i) = s.left - 1 /\ Due(s, i) = s.left
      BY <1>2, <1>9 DEF Due
    <3> QED
      BY <1>5, <1>8, <1>9, <2>1, <3>1 DEF EndsAt
  <2>2. CASE j # i
    <3>1. Due(u, j) = Due(s, j)
      BY <1>2, <2>2 DEF Due
    <3> QED
      BY <1>4, <2>2, <3>1 DEF EndsAt
  <2> QED
    BY <2>1, <2>2
<1>11. Placed(u)
  <2>1. ASSUME NEW j \in Live(u), Heir(u, j) PROVE j \in ToSet(u.group) /\ u.trials[j].path[1] \in ToSet(u.group)
    <3>1. j \in Live(s) /\ Heir(s, j) /\ u.trials[j] = s.trials[j]
      BY <1>1, <1>3, <1>4, <1>7, <2>1
    <3> QED
      BY <1>2, <3>1 DEF Placed
  <2>2. u.left \in Nat
    BY <1>2, <1>9
  <2> QED
    BY <1>2, <2>1, <2>2 DEF Placed
<1>12. Level(u)
  <2> SUFFICES ASSUME u.open, NEW j \in Members(u) PROVE Even(u, j) \/ Lone(u, j)
    BY DEF Level
  <2>1. j \in Members(s) /\ Class(u, j) = Class(s, j) /\ Class(s, j) \subseteq DOMAIN s.trials /\ j \in DOMAIN s.trials
    BY <1>3, <1>6 DEF Class
  <2>2. CASE Even(s, j)
    BY <1>10, <2>1, <2>2 DEF Even
  <2>3. CASE Lone(s, j)
    BY <1>7, <2>1, <2>3 DEF Lone
  <2> QED
    BY <1>2, <2>1, <2>2, <2>3 DEF Level
<1>13. Lowest(u)
  <2> SUFFICES ASSUME NEW j \in Members(u), Heir(u, j), NEW k \in Class(u, j)
               PROVE  u.trials[j].epoch <= u.trials[k].epoch
    BY DEF Lowest
  <2>1. /\ j \in Members(s) /\ j \in DOMAIN s.trials /\ k \in Class(s, j) /\ k \in DOMAIN s.trials
        /\ Heir(s, j) /\ j # i
    BY <1>3, <1>6, <1>7 DEF Class
  <2>2. s.trials[j].epoch <= s.trials[k].epoch
    BY <2>1 DEF Lowest
  <2>3. u.trials[k].epoch = s.trials[k].epoch \/ u.trials[k].epoch = s.trials[k].epoch + 1
    BY <1>4, <1>5, <2>1
  <2> QED
    BY <1>4, <1>8, <2>1, <2>2, <2>3
<1> QED
  BY <1>11, <1>12, <1>13

(* The turn passes on. *)
LEMMA PassKeepsGens ==
    ASSUME NEW s, NEW u, ShapeInv(s),
           Placed(s), Level(s), Lowest(s), s.turn # <<>>,
           s.open /\ s.turn[1] \in Live(s) => ~(s.left > 0),
           u.trials = s.trials, u.group = s.group, u.turn = Tail(s.turn), u.open = s.open, u.left = Perturb
    PROVE  Placed(u) /\ Level(u) /\ Lowest(u)
<1> DEFINE i == s.turn[1]
<1>1. /\ IsInjective(u.turn) /\ ToSet(s.turn) = {i} \cup ToSet(u.turn) /\ i \notin ToSet(u.turn)
      /\ u.turn # <<>> => u.turn[1] \in ToSet(u.turn)
  <2>1. s.turn \in Seq(DOMAIN s.trials) /\ IsInjective(s.turn)
    BY DEF ShapeInv, Placed
  <2> HIDE DEF i
  <2> QED
    BY <2>1, TurnIs DEF i
<1>2. Live(u) = Live(s) /\ Members(u) = Members(s)
  BY DEF Live, Members
<1>3. \A j : Class(u, j) = Class(s, j) /\ (Heir(u, j) <=> Heir(s, j))
  BY <1>2 DEF Class, Like, Heir
<1>4. Perturb \in Nat /\ s.left \in Nat
  BY SupervisorOK DEF Placed
<1>5. s.open => \A j \in Members(s) : EndsAt(u, j) = EndsAt(s, j)
  <2> SUFFICES ASSUME s.open, NEW j \in Members(s) PROVE EndsAt(u, j) = EndsAt(s, j)
    OBVIOUS
  <2>1. Due(u, j) = Due(s, j)
    <3>1. CASE j = i
      <4>1. s.left = 0
        BY <1>4, <3>1 DEF Members
      <4>2. j \notin ToSet(u.turn) /\ j \in ToSet(s.turn)
        BY <1>1, <3>1
      <4> QED
        BY <3>1, <4>1, <4>2 DEF Due
    <3>2. CASE j # i /\ j \in ToSet(s.turn)
      <4>1. j \in ToSet(u.turn)
        BY <1>1, <3>2
      <4>2. ToSet(<<>>) = {}
        BY DEF ToSet
      <4>3. u.turn # <<>> /\ s.turn # <<>>
        BY <4>1, <4>2
      <4> QED
        BY <3>2, <4>1, <4>3 DEF Due
    <3>3. CASE j \notin ToSet(s.turn)
      <4>1. j \notin ToSet(u.turn)
        BY <1>1, <3>3
      <4> QED
        BY <3>3, <4>1 DEF Due
    <3> QED
      BY <3>1, <3>2, <3>3
  <2> QED
    BY <2>1 DEF EndsAt
<1>6. Placed(u)
  BY <1>1, <1>2, <1>3, <1>4 DEF Placed
<1>7. Level(u)
  <2> SUFFICES ASSUME u.open, NEW j \in Members(u) PROVE Even(u, j) \/ Lone(u, j)
    BY DEF Level
  <2>1. j \in Members(s) /\ Class(u, j) = Class(s, j) /\ Class(s, j) \subseteq Members(s)
    BY <1>2, <1>3 DEF Class
  <2>2. CASE Even(s, j)
    BY <1>5, <2>1, <2>2 DEF Even
  <2>3. CASE Lone(s, j)
    BY <1>3, <2>1, <2>3 DEF Lone
  <2> QED
    BY <2>1, <2>2, <2>3 DEF Level
<1>8. Lowest(u)
  BY <1>2, <1>3 DEF Lowest
<1> QED
  BY <1>6, <1>7, <1>8

-----------------------------------------------------------------------------
(* An exploit: heirs, and for each of them a donor that is not an heir.      *)

CopiedTrial(s, t, w, d) ==
    /\ DOMAIN w = TrialFields
    /\ w.kind = t.kind /\ w.family = t.family /\ w.recipe = t.recipe /\ w.pruned = t.pruned
    /\ w.score = t.score /\ w.scored = t.scored
    /\ w.epoch = s.trials[d].epoch /\ w.path = s.trials[d].path
    /\ w.trainer = IF t.trainer = 0 THEN 0 ELSE s.disk[s.trials[d].path]

Copies(s, u, heirs, donor) ==
    /\ IsState(u) /\ DOMAIN u.trials = DOMAIN s.trials /\ SameFrame(s, u) /\ u.phase = s.phase
    /\ heirs \subseteq Members(s)
    /\ \A i \in heirs : /\ donor[i] \in Members(s) \ heirs /\ Like(s, donor[i], i)
                        /\ s.trials[i].scored /\ s.trials[donor[i]].scored
                        /\ CopiedTrial(s, s.trials[i], u.trials[i], donor[i])
    /\ \A i \in DOMAIN s.trials : i \notin heirs => u.trials[i] = s.trials[i]

LEMMA FiniteMembers == ASSUME NEW s, IsState(s), NEW S, S \subseteq DOMAIN s.trials PROVE IsFiniteSet(S)
<1>1. \E l \in Nat : DOMAIN s.trials = 1 .. l
  BY LenProperties DEF IsState, IsTrials
<1>2. PICK l \in Nat : DOMAIN s.trials = 1 .. l
  BY <1>1
<1>3. 1 \in Int /\ l \in Int
  BY <1>2
<1>4. IsFiniteSet(1 .. l)
  BY <1>3, FS_Interval
<1> QED
  BY <1>2, <1>4, FS_Subset

LEMMA ExploitCopies ==
    ASSUME NEW s, IsState(s), ShapeInv(s)
    PROVE  \E heirs, donor : Copies(s, Exploit(s), heirs, donor)
<1> DEFINE who == {i \in ToSet(s.group) \cap Live(s) : s.trials[i].scored}
           ranked == Ranked(s, who, s.group)
           n == Len(ranked)
           q == IF n < 8 THEN 1 ELSE n \div 4
           losers == {ranked[k] : k \in (n - q + 1)..n}
           top == SubSeq(ranked, 1, q)
           donors(i) == Donors(s, top, i)
           donor(i) == ranked[CHOOSE k \in donors(i) : \A j \in donors(i) : k <= j]
           new == [i \in DOMAIN s.trials |->
                     IF i \in losers /\ donors(i) # {} THEN Clone(s, donor(i), i) ELSE s.trials[i]]
           u == Exploit(s)
<1>1. u = IF n < 2 THEN s ELSE [s EXCEPT !.trials = new]
  BY DEF Exploit
<1>2. IsState(u)
  BY ExploitIsLater DEF Later
<1>3. who \subseteq ToSet(s.group) /\ who \subseteq Members(s) /\ who \subseteq DOMAIN s.trials
      /\ \A i \in who : s.trials[i].score \in Nat /\ s.trials[i].scored
  BY DEF Members, Live, ShapeInv
<1> HIDE DEF who
<1>4. ranked \in Seq(who) /\ IsInjective(ranked) /\ n \in Nat
  <2>1. IsFiniteSet(who)
    BY <1>3, FiniteMembers
  <2>2. s.group \in Seq(DOMAIN s.trials)
    BY DEF ShapeInv
  <2>3. /\ ranked \in Seq(who) /\ Len(ranked) = Cardinality(who)
        /\ IsInjective(ranked) /\ Cardinality(who) \in Nat
    BY <1>3, <2>1, <2>2, RankedAre
  <2> QED
    BY <2>3
<1> HIDE DEF ranked
<1>5. DOMAIN ranked = 1 .. n /\ \A k \in 1 .. n : ranked[k] \in who
  BY <1>4, ElementOfSeq
<1>6. CASE n < 2
  <2>1. u = s
    BY <1>1, <1>6
  <2>2. Copies(s, u, {}, <<>>)
    BY <1>2, <2>1 DEF Copies, SameFrame
  <2> QED
    BY <2>2
<1>7. CASE ~(n < 2)
  <2>1. q \in Nat \ {0} /\ 2 * q <= n
    <3>1. CASE n < 8
      BY <1>4, <1>7, <3>1
    <3>2. CASE ~(n < 8)
      <4>1. n \div 4 \in Nat /\ 4 * (n \div 4) <= n /\ n < 4 * (n \div 4) + 4
        BY <1>4
      <4> QED
        BY <1>4, <3>2, <4>1
    <3> QED
      BY <3>1, <3>2
  <2> HIDE DEF q, n
  <2>2. DOMAIN top = 1 .. q /\ \A k \in 1 .. q : top[k] = ranked[k]
    <3>1. \A k \in 1 .. q : ranked[k] \in who
      BY <1>4, <1>5, <2>1
    <3>2. Len(top) = q /\ DOMAIN top = 1 .. Len(top) /\ \A k \in 1 .. q : top[k] = ranked[k]
      <4>1. 1 \in Int /\ q \in Int
        BY <2>1
      <4>2. top \in Seq(who) /\ Len(top) = (IF 1 <= q THEN q - 1 + 1 ELSE 0)
            /\ \A k \in 1 .. q - 1 + 1 : top[k] = ranked[1 + k - 1]
        BY <3>1, <4>1, SubSeqProperties
      <4>3. \A k \in 1 .. q : 1 + k - 1 = k /\ k \in 1 .. q - 1 + 1
        BY <2>1
      <4>4. Len(top) = q
        BY <2>1, <4>2
      <4>5. DOMAIN top = 1 .. Len(top)
        BY <4>2, ElementOfSeq
      <4> QED
        BY <4>2, <4>3, <4>4, <4>5
    <3> QED
      BY <3>2
  <2> HIDE DEF top
  <2> DEFINE heirs == {i \in losers : donors(i) # {}}
             from == [i \in heirs |-> donor(i)]
  <2>3. ASSUME NEW i \in losers PROVE i \in who /\ \A k \in 1 .. q : i # ranked[k]
    <3>1. PICK k \in (n - q + 1) .. n : i = ranked[k]
      OBVIOUS
    <3>2. k \in 1 .. n /\ ~(k \in 1 .. q) /\ \A j \in 1 .. q : j \in 1 .. n
      BY <1>4, <2>1, <3>1
    <3>3. \A j \in 1 .. q : ranked[j] # ranked[k]
      BY <1>4, <1>5, <3>2 DEF IsInjective
    <3> QED
      BY <1>5, <3>1, <3>2, <3>3
  <2>4. ASSUME NEW i, donors(i) # {}
        PROVE  /\ \E k \in 1 .. q : donor(i) = ranked[k] /\ ranked[k] \in who
               /\ Compatible(s.trials[donor(i)], s.trials[i])
    <3>1. donors(i) = {k \in 1 .. q : Compatible(s.trials[ranked[k]], s.trials[i])}
      BY <2>2 DEF Donors
    <3>2. \E k \in donors(i) : \A j \in donors(i) : k <= j
      <4>1. donors(i) \subseteq Nat
        BY <2>1, <3>1
      <4>2. IsFiniteSet(donors(i))
        <5>1. 1 \in Int /\ q \in Int
          BY <2>1
        <5>2. IsFiniteSet(1 .. q) /\ donors(i) \subseteq 1 .. q
          BY <3>1, <5>1, FS_Interval
        <5> QED
          BY <5>2, FS_Subset
      <4> DEFINE P == donors(i)
      <4> HIDE DEF donors
      <4>3. Cardinality(P) \in Nat /\ Cardinality(P) # 0
        BY <2>4, <4>2, FS_CardinalityType, FS_EmptySet
      <4> DEFINE R == {x \in P \X P : x[1] < x[2]}
      <4>4. \A k, j \in P : <<k, j>> \in R <=> k < j
        OBVIOUS
      <4>5. /\ \A k, j \in P : k # j => <<k, j>> \in R \/ <<j, k>> \in R
            /\ \A k \in P : <<k, k>> \notin R
            /\ \A k, j, l \in P : <<k, j>> \in R /\ <<j, l>> \in R => <<k, l>> \in R
        <5>1. \A k \in P : k \in Nat
          BY <4>1
        <5> HIDE DEF R, P
        <5> QED
          BY <4>4, <5>1
      <4>6. IsFiniteSet(P)
        BY <4>2
      <4> HIDE DEF R, P
      <4>7. HasPlaces(P, R)
        <5>1. Ordered(P, R)
          BY <4>5 DEF Ordered
        <5> QED
          BY <4>6, <5>1, Places
      <4>8. PICK k \in P : Cardinality(Before(P, R, k)) = 0
        <5>1. 1 \in 1 .. Cardinality(P) /\ 1 - 1 = 0
          BY <4>3
        <5> QED
          BY <4>7, <5>1 DEF HasPlaces
      <4>9. Before(P, R, k) = {}
        <5>1. IsFiniteSet(Before(P, R, k))
          BY <4>6, FS_Subset DEF Before
        <5> QED
          BY <4>8, <5>1, FS_EmptySet
      <4>10. \A j \in P : ~(j < k)
        BY <4>4, <4>9 DEF Before
      <4>11. \A j \in P : j \in Nat
        BY <4>1 DEF P
      <4>12. \A j \in P : k <= j
        BY <4>10, <4>11
      <4> QED
        BY <4>12 DEF P
    <3> DEFINE m == CHOOSE k \in donors(i) : \A j \in donors(i) : k <= j
    <3>3. m \in donors(i)
      BY <3>2, Zenon
    <3>4. donor(i) = ranked[m]
      OBVIOUS
    <3> HIDE DEF donor, m
    <3>5. m \in 1 .. q /\ Compatible(s.trials[ranked[m]], s.trials[i])
      BY <3>1, <3>3
    <3>6. ranked[m] \in who
      BY <1>4, <1>5, <2>1, <3>5
    <3> QED
      BY <3>4, <3>5, <3>6
  <2> HIDE DEF losers, donors, donor
  <2>5. ASSUME NEW i \in heirs
        PROVE  /\ i \in who /\ from[i] \in who /\ from[i] \notin heirs
               /\ Compatible(s.trials[from[i]], s.trials[i])
    <3>1. i \in losers /\ donors(i) # {} /\ from[i] = donor(i)
      OBVIOUS
    <3>2. PICK k \in 1 .. q : donor(i) = ranked[k] /\ ranked[k] \in who
      BY <2>4, <3>1
    <3>3. donor(i) \notin losers
      BY <2>3, <3>2
    <3>4. Compatible(s.trials[donor(i)], s.trials[i])
      BY <2>4, <3>1
    <3> HIDE DEF from
    <3> QED
      BY <2>3, <3>1, <3>2, <3>3, <3>4
  <2>6. /\ DOMAIN new = DOMAIN s.trials
        /\ \A i \in DOMAIN s.trials : new[i] = IF i \in heirs THEN Clone(s, from[i], i) ELSE s.trials[i]
    <3>1. \A i \in DOMAIN s.trials : new[i] = IF i \in losers /\ donors(i) # {} THEN Clone(s, donor(i), i) ELSE s.trials[i]
      BY Zenon
    <3>2. \A i \in heirs : from[i] = donor(i)
      OBVIOUS
    <3>3. \A i : i \in heirs <=> i \in losers /\ donors(i) # {}
      OBVIOUS
    <3>4. DOMAIN new = DOMAIN s.trials
      BY Zenon
    <3> HIDE DEF new, heirs, from
    <3> QED
      BY <3>1, <3>2, <3>3, <3>4
  <2> HIDE DEF new, heirs, from
  <2>7. ASSUME NEW i \in DOMAIN s.trials, NEW d PROVE CopiedTrial(s, s.trials[i], Clone(s, d, i), d)
    <3>1. DOMAIN s.trials[i] = TrialFields
      BY DEF IsState, IsTrials
    <3> DEFINE t == s.trials[i]
               path == s.trials[d].path
               epoch == s.trials[d].epoch
               weights == IF t.trainer = 0 THEN 0 ELSE s.disk[path]
               c == [t EXCEPT !.replay = "full", !.path = path, !.epoch = epoch, !.trainer = weights]
    <3>2. Clone(s, d, i) = c
      BY DEF Clone
    <3> HIDE DEF t, path, epoch, weights
    <3>3. /\ DOMAIN c = TrialFields /\ c.kind = t.kind /\ c.family = t.family /\ c.recipe = t.recipe
          /\ c.pruned = t.pruned /\ c.score = t.score /\ c.scored = t.scored
          /\ c.epoch = epoch /\ c.path = path /\ c.trainer = weights
      BY <3>1 DEF TrialFields, t
    <3> QED
      BY <3>2, <3>3 DEF CopiedTrial, t, path, epoch, weights
  <2>8. SameFrame(s, u) /\ u.phase = s.phase /\ u.trials = new
    BY <1>1, <1>7 DEF IsState, SupFields, SameFrame, n
  <2>9. Copies(s, u, heirs, from)
    <3>1. heirs \subseteq Members(s)
      BY <1>3, <2>5
    <3>2. ASSUME NEW i \in heirs
          PROVE  /\ from[i] \in Members(s) \ heirs /\ Like(s, from[i], i)
                 /\ s.trials[i].scored /\ s.trials[from[i]].scored
                 /\ CopiedTrial(s, s.trials[i], u.trials[i], from[i])
      <4>1. i \in who /\ from[i] \in who /\ from[i] \notin heirs /\ Like(s, from[i], i)
        BY <2>5 DEF Like
      <4>2. i \in DOMAIN s.trials /\ u.trials[i] = Clone(s, from[i], i)
        BY <1>3, <2>6, <2>8, <4>1
      <4> QED
        BY <1>3, <2>7, <4>1, <4>2
    <3>3. \A i \in DOMAIN s.trials : i \notin heirs => u.trials[i] = s.trials[i]
      BY <2>6, <2>8
    <3>4. DOMAIN u.trials = DOMAIN s.trials
      BY <2>6, <2>8
    <3> QED
      BY <1>2, <2>8, <3>1, <3>2, <3>3, <3>4 DEF Copies
  <2> QED
    BY <2>9
<1>8. \E heirs, from : Copies(s, u, heirs, from)
  BY <1>6, <1>7
<1> QED
  BY <1>8 DEF u

LEMMA CopiesLive ==
    ASSUME NEW s, NEW u, NEW heirs, NEW donor, Copies(s, u, heirs, donor)
    PROVE  /\ Live(u) = Live(s) /\ Live(s) \subseteq DOMAIN s.trials /\ Members(u) = Members(s)
           /\ \A j \in DOMAIN s.trials :
                /\ u.trials[j].kind = s.trials[j].kind /\ u.trials[j].family = s.trials[j].family
                /\ u.trials[j].recipe = s.trials[j].recipe
           /\ \A k, j \in DOMAIN s.trials : Like(u, k, j) <=> Like(s, k, j)
           /\ \A j \in Members(s) : Class(u, j) = Class(s, j)
           /\ \A i \in heirs :
                /\ i \in Live(s) /\ i \in ToSet(s.group) /\ i \in DOMAIN s.trials
                /\ donor[i] \in Live(s) /\ donor[i] \in ToSet(s.group) /\ donor[i] \in DOMAIN s.trials
                /\ donor[i] \notin heirs /\ i # donor[i] /\ Like(s, donor[i], i)
                /\ s.trials[i].scored /\ s.trials[donor[i]].scored
                /\ u.trials[i].epoch = s.trials[donor[i]].epoch /\ u.trials[i].path = s.trials[donor[i]].path
                /\ u.trials[i].scored = s.trials[i].scored
                /\ u.trials[i].trainer = IF s.trials[i].trainer = 0 THEN 0 ELSE s.disk[s.trials[donor[i]].path]
           /\ \A i \in DOMAIN s.trials : i \notin heirs => u.trials[i] = s.trials[i]
<1>1. \A j \in DOMAIN s.trials :
                /\ u.trials[j].kind = s.trials[j].kind /\ u.trials[j].family = s.trials[j].family
                /\ u.trials[j].recipe = s.trials[j].recipe /\ u.trials[j].pruned = s.trials[j].pruned
  <2> TAKE j \in DOMAIN s.trials
  <2>1. CASE j \in heirs
    <3>1. CopiedTrial(s, s.trials[j], u.trials[j], donor[j])
      BY <2>1 DEF Copies
    <3> QED
      BY <3>1 DEF CopiedTrial
  <2>2. CASE j \notin heirs
    BY <2>2 DEF Copies
  <2> QED
    BY <2>1, <2>2
<1>2. DOMAIN u.trials = DOMAIN s.trials /\ u.group = s.group
  BY DEF Copies, SameFrame
<1>3. Live(u) = Live(s) /\ Live(s) \subseteq DOMAIN s.trials /\ Members(u) = Members(s)
  BY <1>1, <1>2 DEF Live, Members
<1>4. \A k, j \in DOMAIN s.trials : Like(u, k, j) <=> Like(s, k, j)
  BY <1>1 DEF Like, Compatible
<1>5. \A j \in Members(s) : Class(u, j) = Class(s, j)
  BY <1>3, <1>4 DEF Class, Members
<1>6. ASSUME NEW i \in heirs
      PROVE     /\ i \in Live(s) /\ i \in ToSet(s.group) /\ i \in DOMAIN s.trials
                /\ donor[i] \in Live(s) /\ donor[i] \in ToSet(s.group) /\ donor[i] \in DOMAIN s.trials
                /\ donor[i] \notin heirs /\ i # donor[i] /\ Like(s, donor[i], i)
                /\ s.trials[i].scored /\ s.trials[donor[i]].scored
                /\ u.trials[i].epoch = s.trials[donor[i]].epoch /\ u.trials[i].path = s.trials[donor[i]].path
                /\ u.trials[i].scored = s.trials[i].scored
                /\ u.trials[i].trainer = IF s.trials[i].trainer = 0 THEN 0 ELSE s.disk[s.trials[donor[i]].path]
  <2>1. /\ i \in Members(s) /\ donor[i] \in Members(s) /\ donor[i] \notin heirs /\ Like(s, donor[i], i)
        /\ s.trials[i].scored /\ s.trials[donor[i]].scored
        /\ CopiedTrial(s, s.trials[i], u.trials[i], donor[i])
    BY DEF Copies
  <2> QED
    BY <1>3, <2>1 DEF CopiedTrial, Members
<1> QED
  BY <1>1, <1>3, <1>4, <1>5, <1>6 DEF Copies

LEMMA CopiesKeepShape ==
    ASSUME NEW s, ShapeInv(s), OwnInv(s), NEW u, NEW heirs, NEW donor, Copies(s, u, heirs, donor)
    PROVE  ShapeInv(u)
<1>1. ASSUME NEW i \in DOMAIN s.trials
      PROVE  u.trials[i].epoch \in Nat /\ u.trials[i].score \in Nat /\ u.trials[i].trainer \in Nat
  <2>1. CASE i \in heirs
    <3> DEFINE d == donor[i]
    <3>1. /\ d \in DOMAIN s.trials /\ d \in Live(s) /\ s.trials[d].scored
          /\ u.trials[i].epoch = s.trials[d].epoch
          /\ u.trials[i].trainer = IF s.trials[i].trainer = 0 THEN 0 ELSE s.disk[s.trials[d].path]
      BY <2>1, CopiesLive
    <3>2. u.trials[i].score = s.trials[i].score
      BY <2>1 DEF Copies, CopiedTrial
    <3>3. s.disk[s.trials[d].path] = s.trials[d].trainer
      BY <3>1 DEF OwnInv, Shown
    <3> QED
      BY <3>1, <3>2, <3>3 DEF ShapeInv
  <2>2. CASE i \notin heirs
    BY <2>2, CopiesLive DEF ShapeInv
  <2> QED
    BY <2>1, <2>2
<1> QED
  BY <1>1 DEF ShapeInv, Copies, SameFrame

(* Who copies shows what its donor shows. Nobody is left behind the trials   *)
(* that show its checkpoints, because those who copied were behind nobody.   *)
LEMMA CopiesKeepOwn ==
    ASSUME NEW s, ShapeInv(s), OwnInv(s), Placed(s), Lowest(s),
           NEW u, NEW heirs, NEW donor, Copies(s, u, heirs, donor)
    PROVE  OwnInv(u)
<1>1. ASSUME NEW i \in Live(u) PROVE Shown(u, i)
  <2>1. /\ DOMAIN u.trials = DOMAIN s.trials /\ u.disk = s.disk /\ i \in DOMAIN s.trials /\ i \in Live(s)
        /\ Shown(s, i)
    <3>1. DOMAIN u.trials = DOMAIN s.trials /\ u.disk = s.disk
      BY DEF Copies, SameFrame
    <3>2. Live(u) = Live(s) /\ Live(s) \subseteq DOMAIN s.trials
      BY CopiesLive
    <3>3. i \in Live(s) /\ i \in DOMAIN s.trials
      BY <3>2
    <3> QED
      BY <3>1, <3>3 DEF OwnInv
  <2>2. CASE i \in heirs
    <3> DEFINE d == donor[i]
    <3>1. /\ d \in DOMAIN s.trials /\ d \in Live(s) /\ s.trials[d].scored /\ s.trials[i].scored /\ Like(s, d, i)
          /\ u.trials[i].epoch = s.trials[d].epoch /\ u.trials[i].path = s.trials[d].path
          /\ u.trials[i].trainer = IF s.trials[i].trainer = 0 THEN 0 ELSE s.disk[s.trials[d].path]
      BY <2>2, CopiesLive
    <3>2. Shown(s, d)
      BY <3>1 DEF OwnInv
    <3> HIDE DEF d
    <3>3. s.trials[d].path # <<>> /\ s.trials[d].trainer # 0 /\ s.trials[i].trainer # 0
      BY <2>1, <3>1, <3>2 DEF Shown
    <3>4. PICK o \in DOMAIN s.trials : /\ s.trials[d].path = <<o, s.trials[d].epoch>> /\ Like(s, o, d)
                                       /\ s.trials[d].path \in DOMAIN s.disk
                                       /\ s.disk[s.trials[d].path] = s.trials[d].trainer
      BY <3>2, <3>3 DEF Shown
    <3>5. Like(u, o, i)
      BY <2>1, <3>1, <3>4, LikeIs, CopiesLive
    <3>6. /\ u.trials[i].path = <<o, u.trials[i].epoch>>
          /\ u.trials[i].path \in DOMAIN u.disk /\ u.disk[u.trials[i].path] = u.trials[i].trainer
          /\ u.trials[i].trainer # 0 /\ u.trials[i].path # <<>>
      BY <2>1, <3>1, <3>3, <3>4
    <3> QED
      BY <2>1, <3>4, <3>5, <3>6 DEF Shown
  <2>3. CASE i \notin heirs
    <3>1. u.trials[i] = s.trials[i] /\ \A o \in DOMAIN s.trials : Like(u, o, i) <=> Like(s, o, i)
      BY <2>1, <2>3, CopiesLive
    <3> QED
      BY <2>1, <3>1 DEF Shown
  <2> QED
    BY <2>2, <2>3
<1>2. ASSUME NEW i \in Live(u), NEW j \in Live(u), ShowsOf(u, j, i) PROVE u.trials[j].epoch <= u.trials[i].epoch
  <2>1. /\ i \in Live(s) /\ j \in Live(s) /\ i \in DOMAIN s.trials /\ j \in DOMAIN s.trials
        /\ s.trials[i].epoch \in Nat /\ s.trials[j].epoch \in Nat
    BY CopiesLive DEF ShapeInv
  <2>2. CASE i = j
    <3>1. u.trials[i].epoch \in Nat
      BY <2>1, CopiesKeepShape DEF ShapeInv, Copies
    <3> QED
      BY <2>2, <3>1
  (* Of one who shows a checkpoint of another trial, which is no fresher     *)
  (* than any trial it could copy from.                                      *)
  <2>3. ASSUME NEW x \in Live(s), ShowsOf(s, x, i), x # i, NEW d \in Live(s), d \in ToSet(s.group), Like(s, d, i)
        PROVE  s.trials[x].epoch <= s.trials[d].epoch
    <3>1. Heir(s, x) /\ x \in ToSet(s.group) /\ x \in DOMAIN s.trials
      BY <2>3, CopiesLive DEF Heir, ShowsOf, Placed
    <3>2. Shown(s, x)
      BY <2>3 DEF OwnInv
    <3>3. \E o \in DOMAIN s.trials : s.trials[x].path = <<o, s.trials[x].epoch>> /\ Like(s, o, x)
      BY <3>1, <3>2 DEF Shown, Heir
    <3>4. Like(s, i, x)
      BY <2>3, <3>3 DEF ShowsOf
    <3>5. Like(s, d, x)
      BY <2>3, <3>4, LikeIs
    <3> QED
      BY <2>3, <3>1, <3>5 DEF Lowest, Members, Class
  <2>4. CASE i # j /\ j \notin heirs
    <3>1. u.trials[j] = s.trials[j] /\ ShowsOf(s, j, i)
      BY <1>2, <2>1, <2>4, CopiesLive DEF ShowsOf
    <3>2. s.trials[j].epoch <= s.trials[i].epoch
      BY <2>1, <3>1 DEF OwnInv
    <3>3. CASE i \notin heirs
      BY <2>1, <3>1, <3>2, <3>3, CopiesLive
    <3>4. CASE i \in heirs
      <4>1. /\ donor[i] \in Live(s) /\ donor[i] \in ToSet(s.group) /\ Like(s, donor[i], i)
            /\ u.trials[i].epoch = s.trials[donor[i]].epoch
        BY <3>4, CopiesLive
      <4> QED
        BY <2>1, <2>3, <2>4, <3>1, <4>1
    <3> QED
      BY <3>3, <3>4
  <2>5. CASE i # j /\ j \in heirs
    <3> DEFINE d == donor[j]
    <3>1. /\ d \in Live(s) /\ d \in ToSet(s.group) /\ d \notin heirs /\ d \in DOMAIN s.trials
          /\ u.trials[j].epoch = s.trials[d].epoch /\ u.trials[j].path = s.trials[d].path
      BY <2>5, CopiesLive
    <3> HIDE DEF d
    <3>2. ShowsOf(s, d, i)
      BY <1>2, <3>1 DEF ShowsOf
    <3>3. s.trials[d].epoch <= s.trials[i].epoch
      BY <2>1, <3>1, <3>2 DEF OwnInv
    <3>4. CASE i \notin heirs
      BY <2>1, <3>1, <3>3, <3>4, CopiesLive
    <3>5. CASE i \in heirs
      <4>1. /\ donor[i] \in Live(s) /\ donor[i] \in ToSet(s.group) /\ Like(s, donor[i], i)
            /\ u.trials[i].epoch = s.trials[donor[i]].epoch
        BY <3>5, CopiesLive
      <4>2. d # i
        BY <3>1, <3>5
      <4> QED
        BY <2>3, <3>1, <3>2, <4>1, <4>2
    <3> QED
      BY <3>4, <3>5
  <2> QED
    BY <2>2, <2>4, <2>5
<1> QED
  BY <1>1, <1>2 DEF OwnInv

LEMMA CopiesKeepGens ==
    ASSUME NEW s, ShapeInv(s), OwnInv(s), Placed(s), Level(s), s.turn = <<>>,
           NEW u, NEW heirs, NEW donor, Copies(s, u, heirs, donor)
    PROVE  Placed(u) /\ Level(u)
<1>1. /\ u.group = s.group /\ u.turn = <<>> /\ u.open = s.open
      /\ Members(s) \subseteq DOMAIN s.trials /\ Members(u) = Members(s)
  <2>1. u.group = s.group /\ u.turn = <<>> /\ u.open = s.open
    BY DEF Copies, SameFrame
  <2>2. Live(s) \subseteq DOMAIN s.trials /\ Members(u) = Members(s)
    BY CopiesLive
  <2> QED
    BY <2>1, <2>2 DEF Members
<1>2. Placed(u)
  <2>1. ASSUME NEW j \in Live(u), Heir(u, j) PROVE j \in ToSet(s.group) /\ u.trials[j].path[1] \in ToSet(s.group)
    <3>1. j \in Live(s) /\ j \in DOMAIN s.trials
      BY CopiesLive
    <3>2. CASE j \in heirs
      <4> DEFINE d == donor[j]
      <4>1. d \in Live(s) /\ d \in ToSet(s.group) /\ j \in ToSet(s.group) /\ u.trials[j].path = s.trials[d].path
        BY <3>2, CopiesLive
      <4>2. s.trials[d].path # <<>>
        BY <2>1, <4>1 DEF Heir
      <4>3. CASE s.trials[d].path[1] = d
        BY <4>1, <4>3
      <4>4. CASE s.trials[d].path[1] # d
        BY <4>1, <4>2, <4>4 DEF Heir, Placed
      <4> QED
        BY <4>1, <4>3, <4>4
    <3>3. CASE j \notin heirs
      <4>1. u.trials[j] = s.trials[j] /\ Heir(s, j)
        BY <2>1, <3>1, <3>3, CopiesLive DEF Heir
      <4> QED
        BY <3>1, <4>1 DEF Placed
    <3> QED
      BY <3>2, <3>3
  <2> QED
    BY <1>1, <2>1 DEF Placed
<1>3. \A j \in DOMAIN s.trials : s.trials[j].epoch \in Nat /\ u.trials[j].epoch \in Nat
  BY CopiesKeepShape DEF ShapeInv, Copies
<1>4. \A j \in DOMAIN s.trials : EndsAt(s, j) = s.trials[j].epoch /\ EndsAt(u, j) = u.trials[j].epoch
  BY <1>1, <1>3 DEF EndsAt, Due
<1>5. Level(u)
  <2> SUFFICES ASSUME u.open, NEW i \in Members(u) PROVE Even(u, i) \/ Lone(u, i)
    BY DEF Level
  <2>1. i \in Members(s) /\ i \in DOMAIN s.trials /\ Class(u, i) = Class(s, i) /\ Class(s, i) \subseteq DOMAIN s.trials
    BY <1>1, CopiesLive DEF Class
  <2>2. i \in Class(s, i) /\ \A j \in Class(s, i) : j \in heirs => donor[j] \in Class(s, i)
    BY <2>1, LikeIs, CopiesLive DEF Class, Members
  <2>3. \A j \in Class(s, i) : /\ j \in heirs => u.trials[j].epoch = s.trials[donor[j]].epoch
                               /\ j \notin heirs => u.trials[j] = s.trials[j]
    BY <2>1, CopiesLive
  <2>4. CASE Even(s, i)
    <3>1. \A j \in Class(s, i) : s.trials[j].epoch = s.trials[i].epoch
      BY <1>4, <2>1, <2>4 DEF Even
    <3>2. \A j \in Class(s, i) : u.trials[j].epoch = s.trials[i].epoch
      BY <2>2, <2>3, <3>1
    <3>3. Even(u, i)
      BY <1>4, <2>1, <2>2, <3>2 DEF Even
    <3> QED
      BY <3>3
  <2>5. CASE Lone(s, i) /\ \A j \in Class(s, i) : j \notin heirs
    <3>1. \A j \in Class(s, i) : Heir(u, j) <=> Heir(s, j)
      BY <2>3, <2>5 DEF Heir
    <3>2. Lone(u, i)
      BY <2>1, <2>5, <3>1 DEF Lone
    <3> QED
      BY <3>2
  <2>6. ASSUME Lone(s, i), NEW l \in Class(s, i), l \in heirs PROVE Even(u, i)
    <3> DEFINE d == donor[l]
    <3>1. d \in Class(s, i) /\ d \notin heirs /\ d # l /\ u.trials[l].epoch = s.trials[d].epoch
      BY <2>1, <2>2, <2>6, CopiesLive
    <3> HIDE DEF d
    <3>2. u.trials[d].epoch = s.trials[d].epoch
      BY <2>3, <3>1
    <3>3. \A j \in Class(s, i) : j = d \/ j = l
      <4> TAKE j \in Class(s, i)
      <4>1. \A k, m \in Class(s, i) \ {i} : k = m
        BY <2>6 DEF Lone
      <4> QED
        BY <2>2, <2>6, <3>1, <4>1
    <3>4. \A j \in Class(s, i) : u.trials[j].epoch = s.trials[d].epoch
      BY <3>1, <3>2, <3>3
    <3> QED
      BY <1>4, <2>1, <2>2, <3>4 DEF Even
  <2>7. s.open
    BY <1>1
  <2> QED
    BY <2>1, <2>4, <2>5, <2>6, <2>7 DEF Level
<1> QED
  BY <1>2, <1>5

-----------------------------------------------------------------------------
(* The invariant as a whole, and the actions.                                *)

WeightsInv(s) ==
    /\ ShapeInv(s) /\ OwnInv(s) /\ KindsInv(s) /\ NoHeirsYet(s) /\ RungsInv(s) /\ GensInv(s)

LEMMA CalmKeepsWeights == ASSUME NEW s, WeightsInv(s), NEW u, Calm(s, u) PROVE WeightsInv(u)
<1>1. ShapeInv(s) /\ OwnInv(s) /\ KindsInv(s) /\ NoHeirsYet(s) /\ RungsInv(s) /\ GensInv(s)
  BY DEF WeightsInv
<1>2. ShapeInv(u)
  BY <1>1, CalmKeepsShape
<1>3. OwnInv(u)
  BY <1>1, CalmKeepsOwn
<1>4. KindsInv(u) /\ NoHeirsYet(u)
  BY <1>1, CalmKeepsKinds
<1>5. RungsInv(u)
  BY <1>1, CalmKeepsRungs
<1>6. GensInv(u)
  BY <1>1, CalmKeepsGens
<1> QED
  BY <1>2, <1>3, <1>4, <1>5, <1>6 DEF WeightsInv

(* States with the same trials and checkpoints. *)
SameTrials(s, u) == u.trials = s.trials /\ u.disk = s.disk

LEMMA SameTrialsKeep ==
    ASSUME NEW s, NEW u, SameTrials(s, u)
    PROVE  /\ Live(u) = Live(s) /\ Candidates(u) = Candidates(s)
           /\ OwnInv(s) => OwnInv(u)
           /\ \A j : Heir(u, j) <=> Heir(s, j)
           /\ \A i, j : Like(u, i, j) <=> Like(s, i, j)
<1>1. Live(u) = Live(s) /\ Candidates(u) = Candidates(s)
  BY DEF SameTrials, Live, Candidates
<1>2. \A i, j : Like(u, i, j) <=> Like(s, i, j)
  BY DEF SameTrials, Like
<1>3. \A j : Heir(u, j) <=> Heir(s, j)
  BY DEF SameTrials, Heir
<1>4. \A i : Shown(s, i) => Shown(u, i)
  BY <1>2 DEF SameTrials, Shown
<1>5. \A i, j : ShowsOf(u, j, i) <=> ShowsOf(s, j, i)
  BY DEF SameTrials, ShowsOf
<1>6. OwnInv(s) => OwnInv(u)
  BY <1>1, <1>4, <1>5 DEF OwnInv, SameTrials
<1> QED
  BY <1>1, <1>2, <1>3, <1>6

LEMMA SameTrialsShape ==
    ASSUME NEW s, NEW u, SameTrials(s, u), ShapeInv(s), u.fresh = s.fresh, u.rung \in Nat, u.left \in Int,
           u.group \in Seq(DOMAIN s.trials), u.turn \in Seq(DOMAIN s.trials)
    PROVE  ShapeInv(u)
BY DEF SameTrials, ShapeInv

LEMMA DeadlineKeepsWeights == WeightsInv(sup) /\ SupInv(sup) /\ Deadline => WeightsInv(sup')
<1> SUFFICES ASSUME WeightsInv(sup), SupInv(sup), Deadline PROVE WeightsInv(sup')
  OBVIOUS
<1>1. /\ sup'.open = FALSE /\ SameTrials(sup, sup') /\ sup'.group = sup.group /\ sup'.turn = sup.turn
      /\ sup'.rung = sup.rung /\ sup'.left = sup.left /\ sup'.fresh = sup.fresh /\ sup'.phase = sup.phase
  BY DEF Deadline, SupInv, IsState, SupFields, SameTrials
<1>2. ShapeInv(sup) /\ OwnInv(sup) /\ KindsInv(sup) /\ NoHeirsYet(sup) /\ RungsInv(sup) /\ GensInv(sup)
  BY DEF WeightsInv
<1>3. ShapeInv(sup')
  BY <1>1, <1>2 DEF ShapeInv, SameTrials
<1>4. OwnInv(sup')
  BY <1>1, <1>2, SameTrialsKeep
<1>5. KindsInv(sup')
  BY <1>1, <1>2 DEF KindsInv, SameTrials
<1>6. NoHeirsYet(sup')
  BY <1>1, <1>2, SameTrialsKeep DEF NoHeirsYet
<1>7. RungsInv(sup')
  <2>1. Candidates(sup') = Candidates(sup)
    BY <1>1, SameTrialsKeep
  <2> QED
    BY <1>1, <1>2, <2>1 DEF RungsInv, BetweenRungs, InRung, SameTrials
<1>8. GensInv(sup')
  <2> SUFFICES ASSUME sup'.phase = "3C" PROVE Placed(sup') /\ Level(sup') /\ (sup'.open \/ sup'.turn # <<>> => Lowest(sup'))
    BY DEF GensInv
  <2>1. Placed(sup) /\ (sup.turn # <<>> => Lowest(sup))
    BY <1>1, <1>2 DEF GensInv
  <2>2. Placed(sup')
    BY <1>1, <2>1, SameTrialsKeep DEF Placed, SameTrials
  <2>3. Level(sup')
    BY <1>1 DEF Level
  <2>4. Lowest(sup) => Lowest(sup')
    <3>1. Members(sup') = Members(sup) /\ \A j : Class(sup', j) = Class(sup, j)
      BY <1>1, SameTrialsKeep DEF Members, Class
    <3> QED
      BY <1>1, <3>1, SameTrialsKeep DEF Lowest, SameTrials
  <2> QED
    BY <1>1, <2>1, <2>2, <2>3, <2>4
<1> QED
  BY <1>3, <1>4, <1>5, <1>6, <1>7, <1>8 DEF WeightsInv

LEMMA StartRoundKeepsWeights == WeightsInv(sup) /\ SupInv(sup) /\ StartRound => WeightsInv(sup')
<1> SUFFICES ASSUME WeightsInv(sup), SupInv(sup), StartRound PROVE WeightsInv(sup')
  OBVIOUS
<1>1. /\ sup.phase \in {"3B", "3C"} /\ sup.turn = <<>> /\ ~StageOver
      /\ sup' = [sup EXCEPT !.turn = sup.group, !.rung = @ + 1, !.left = Perturb]
  BY DEF StartRound
<1>2. /\ sup'.open = sup.open /\ SameTrials(sup, sup') /\ sup'.group = sup.group /\ sup'.turn = sup.group
      /\ sup'.rung = sup.rung + 1 /\ sup'.left = Perturb /\ sup'.fresh = sup.fresh /\ sup'.phase = sup.phase
  BY <1>1 DEF SupInv, IsState, SupFields, SameTrials
<1>3. /\ sup.open /\ sup.group # <<>> /\ (sup.phase = "3B" => sup.rung # Len(Resources))
  BY <1>1 DEF StageOver
<1>4. ShapeInv(sup) /\ OwnInv(sup) /\ KindsInv(sup) /\ NoHeirsYet(sup) /\ RungsInv(sup) /\ GensInv(sup)
  BY DEF WeightsInv
<1>5. Perturb \in Nat
  BY SupervisorOK
<1>6. ShapeInv(sup')
  BY <1>2, <1>4, <1>5 DEF ShapeInv, SameTrials
<1>7. OwnInv(sup')
  BY <1>2, <1>4, SameTrialsKeep
<1>8. KindsInv(sup')
  BY <1>1, <1>2, <1>4 DEF KindsInv, SameTrials
<1>9. NoHeirsYet(sup')
  BY <1>2, <1>4, SameTrialsKeep DEF NoHeirsYet
<1>10. RungsInv(sup')
  <2> SUFFICES ASSUME sup.phase = "3B" PROVE Candidates(sup') \subseteq ToSet(sup'.group) /\ InRung(sup')
    BY <1>2, <1>3 DEF RungsInv
  <2>1. Candidates(sup') = Candidates(sup) /\ Candidates(sup) \subseteq ToSet(sup.group) /\ BetweenRungs(sup)
    BY <1>1, <1>2, <1>4, SameTrialsKeep DEF RungsInv
  <2>2. sup'.rung \in 1 .. Len(Resources)
    BY <1>2, <1>3, <2>1, ResourcesAre DEF BetweenRungs
  <2>3. \A i, j \in Candidates(sup') : sup'.trials[i].epoch = sup'.trials[j].epoch
    BY <1>2, <2>1 DEF BetweenRungs, SameTrials
  <2> QED
    BY <1>2, <2>1, <2>2, <2>3 DEF InRung
<1>11. GensInv(sup')
  <2> SUFFICES ASSUME sup.phase = "3C" PROVE Placed(sup') /\ Level(sup') /\ Lowest(sup')
    BY <1>2 DEF GensInv
  <2>1. Placed(sup) /\ Level(sup) /\ Lowest(sup)
    BY <1>3, <1>4 DEF GensInv
  <2>2. /\ Members(sup') = Members(sup) /\ (\A j : Class(sup', j) = Class(sup, j)) /\ Live(sup') = Live(sup)
        /\ \A j : Heir(sup', j) <=> Heir(sup, j)
    BY <1>2, SameTrialsKeep DEF Members, Class
  <2>3. Placed(sup')
    BY <1>2, <1>5, <2>1, <2>2 DEF Placed, SameTrials
  <2>4. Lowest(sup')
    BY <1>2, <2>1, <2>2 DEF Lowest, SameTrials
  <2>5. \A j \in Members(sup) : EndsAt(sup, j) = sup.trials[j].epoch /\ EndsAt(sup', j) = sup.trials[j].epoch + Perturb
    <3> TAKE j \in Members(sup)
    <3>1. j \in ToSet(sup'.turn) /\ j \in DOMAIN sup.trials /\ sup.trials[j].epoch \in Nat
      BY <1>2, <1>4 DEF Members, Live, ShapeInv
    <3>2. Due(sup', j) = Perturb /\ Due(sup, j) = 0
      BY <1>1, <1>2, <1>3, <3>1 DEF Due
    <3> QED
      BY <1>2, <3>1, <3>2 DEF EndsAt, SameTrials
  <2>6. Level(sup')
    <3> SUFFICES ASSUME NEW i \in Members(sup) PROVE Even(sup', i) \/ Lone(sup', i)
      BY <2>2 DEF Level
    <3>1. Class(sup, i) \subseteq Members(sup)
      BY DEF Class
    <3>2. Even(sup, i) => Even(sup', i)
      BY <2>2, <2>5, <3>1 DEF Even
    <3>3. Lone(sup, i) => Lone(sup', i)
      BY <2>2 DEF Lone
    <3> QED
      BY <1>3, <2>1, <3>2, <3>3 DEF Level
  <2> QED
    BY <2>3, <2>4, <2>6
<1> QED
  BY <1>6, <1>7, <1>8, <1>9, <1>10, <1>11 DEF WeightsInv

(* After the search the invariant is what is true of trials alone.           *)
LEMMA LateKeepsWeights ==
    ASSUME NEW s, WeightsInv(s), NEW u, SameTrials(s, u), u.fresh = s.fresh, u.phase \in {"3D", "done", "failed"},
           u.rung \in Nat, u.left \in Int, u.group \in Seq(DOMAIN s.trials), u.turn \in Seq(DOMAIN s.trials)
    PROVE  WeightsInv(u)
<1>1. ShapeInv(s) /\ OwnInv(s) /\ KindsInv(s)
  BY DEF WeightsInv
<1>2. ShapeInv(u)
  BY <1>1, SameTrialsShape
<1>3. OwnInv(u)
  BY <1>1, SameTrialsKeep
<1>4. KindsInv(u)
  BY <1>1 DEF KindsInv, SameTrials
<1> QED
  BY <1>2, <1>3, <1>4 DEF WeightsInv, NoHeirsYet, RungsInv, GensInv

(* An epoch, in the late stages and in calibration.                          *)
LEMMA StepKeepsWeights ==
    ASSUME NEW s, NEW u, NEW i \in Live(s), TrainStep(s, u, i), WeightsInv(s), s.phase \notin {"3B", "3C"}
    PROVE  WeightsInv(u)
<1>1. ShapeInv(s) /\ OwnInv(s) /\ KindsInv(s) /\ NoHeirsYet(s) /\ i \in DOMAIN s.trials
  BY DEF WeightsInv, Live
<1>2. ShapeInv(u)
  BY <1>1, StepKeepsShape
<1>3. OwnInv(u)
  BY <1>1, StepKeepsOwn
<1>4. KindsInv(u) /\ NoHeirsYet(u)
  BY <1>1, StepKeepsKinds
<1>5. u.phase \notin {"3B", "3C"}
  BY DEF TrainStep
<1> QED
  BY <1>2, <1>3, <1>4, <1>5 DEF WeightsInv, RungsInv, GensInv

LEMMA TrainChampionKeepsWeights == WeightsInv(sup) /\ SupInv(sup) /\ TrainChampion => WeightsInv(sup')
<1> SUFFICES ASSUME WeightsInv(sup), SupInv(sup), TrainChampion PROVE WeightsInv(sup')
  OBVIOUS
<1>1. sup.phase = "3D" /\ \E i \in Champions : \E r \in TrainTrial(sup, i) :
          sup' \in IF r.s.trials[i].epoch % 2 = 0 THEN Evaluate(r.s, i) ELSE {r.s}
  BY DEF TrainChampion
<1>2. PICK i \in Champions : \E r \in TrainTrial(sup, i) :
          sup' \in IF r.s.trials[i].epoch % 2 = 0 THEN Evaluate(r.s, i) ELSE {r.s}
  BY <1>1
<1>3. PICK r \in TrainTrial(sup, i) :
          sup' \in IF r.s.trials[i].epoch % 2 = 0 THEN Evaluate(r.s, i) ELSE {r.s}
  BY <1>2
<1>4. sup' = r.s \/ sup' \in Evaluate(r.s, i)
  BY <1>3, Zenon
<1>5. i \in Live(sup) /\ i \in DOMAIN sup.trials /\ IsState(sup)
  BY DEF Champions, Live, SupInv
<1>6. Calm(sup, r.s) \/ \E u : TrainStep(sup, u, i) /\ Calm(u, r.s)
  BY <1>5, TrainTrialComes
<1>7. WeightsInv(r.s) /\ IsState(r.s)
  <2>1. CASE Calm(sup, r.s)
    BY <2>1, CalmKeepsWeights DEF Calm
  <2>2. CASE \E u : TrainStep(sup, u, i) /\ Calm(u, r.s)
    <3>1. PICK u : TrainStep(sup, u, i) /\ Calm(u, r.s)
      BY <2>2
    <3>2. WeightsInv(u)
      BY <1>1, <1>5, <3>1, StepKeepsWeights
    <3> QED
      BY <3>1, <3>2, CalmKeepsWeights DEF Calm
  <2> QED
    BY <1>6, <2>1, <2>2
<1>8. Calm(r.s, sup')
  BY <1>4, <1>7, CalmSame, EvaluateIsCalm
<1> QED
  BY <1>7, <1>8, CalmKeepsWeights

(* New trials show nothing yet.                                              *)
Fresh(t, kind) ==
    /\ t.kind = kind /\ t.epoch = 0 /\ ~t.scored /\ t.score = 0 /\ ~t.pruned /\ t.trainer = 0 /\ t.path = <<>>

LEMMA NewTrialIsFresh == ASSUME NEW kind, NEW f, NEW recipe PROVE Fresh(NewTrial(kind, f, recipe), kind)
BY DEF NewTrial, Fresh

(* A state with new trials after the old ones, which show nothing.           *)
More(s, u, new) ==
    /\ Len(s.trials) \in Nat /\ Len(new) \in Nat
    /\ DOMAIN s.trials = 1 .. Len(s.trials) /\ DOMAIN new = 1 .. Len(new)
    /\ DOMAIN u.trials = 1 .. Len(s.trials) + Len(new)
    /\ \A i \in DOMAIN s.trials : i \in DOMAIN u.trials /\ u.trials[i] = s.trials[i]
    /\ \A k \in DOMAIN new : Len(s.trials) + k \in DOMAIN u.trials /\ u.trials[Len(s.trials) + k] = new[k]
    /\ \A i \in DOMAIN u.trials : \/ i \in DOMAIN s.trials
                                  \/ \E k \in DOMAIN new : i = Len(s.trials) + k
    /\ \A i \in DOMAIN u.trials : u.trials[i].epoch \in Nat /\ u.trials[i].score \in Nat
                                  /\ u.trials[i].trainer \in Nat
    /\ OwnInv(u) /\ \A j \in Live(u) : ~Heir(u, j)

LEMMA MoreFresh ==
    ASSUME NEW s, IsState(s), ShapeInv(s), OwnInv(s), \A j \in Live(s) : ~Heir(s, j),
           NEW kind, NEW new, IsTrials(new), \A k \in DOMAIN new : Fresh(new[k], kind),
           NEW u, u.trials = s.trials \o new, u.disk = s.disk
    PROVE  More(s, u, new)
<1> DEFINE old == s.trials
           all == old \o new
           S == {old[i] : i \in DOMAIN old} \cup {new[i] : i \in DOMAIN new}
           n == Len(old)
<1>1. /\ old \in Seq({old[i] : i \in DOMAIN old}) /\ new \in Seq({new[i] : i \in DOMAIN new})
  BY DEF IsState, IsTrials
<1>2. old \in Seq(S) /\ new \in Seq(S)
  <2>1. old \in Seq(S)
    BY <1>1, SeqMonotonic
  <2>2. new \in Seq(S)
    BY <1>1, SeqMonotonic
  <2> QED
    BY <2>1, <2>2
<1> HIDE DEF S
<1>3. u.trials = all
  OBVIOUS
<1>4. /\ all \in Seq(S) /\ n \in Nat /\ Len(new) \in Nat /\ Len(all) = n + Len(new)
      /\ DOMAIN old = 1 .. n /\ DOMAIN new = 1 .. Len(new) /\ DOMAIN all = 1 .. n + Len(new)
      /\ \A i \in 1 .. n + Len(new) : all[i] = IF i <= n THEN old[i] ELSE new[i - n]
  <2> HIDE DEF old
  <2>1. /\ all \in Seq(S) /\ Len(all) = n + Len(new)
        /\ \A i \in 1 .. n + Len(new) : all[i] = IF i <= n THEN old[i] ELSE new[i - n]
    BY <1>2, ConcatProperties
  <2> HIDE DEF all
  <2>2. /\ n \in Nat /\ Len(new) \in Nat
        /\ DOMAIN old = 1 .. n /\ DOMAIN new = 1 .. Len(new) /\ DOMAIN all = 1 .. Len(all)
    BY <1>2, <2>1, LenProperties
  <2> QED
    BY <2>1, <2>2
<1> HIDE DEF all, n
<1>5. \A i \in DOMAIN old : i \in DOMAIN all /\ all[i] = old[i]
  BY <1>4
<1>6. \A k \in DOMAIN new : n + k \in DOMAIN all /\ all[n + k] = new[k]
  <2> TAKE k \in DOMAIN new
  <2>1. n + k \in 1 .. n + Len(new) /\ ~(n + k <= n) /\ (n + k) - n = k
    BY <1>4
  <2> QED
    BY <1>4, <2>1
<1>7. \A i \in DOMAIN all : i \in DOMAIN old \/ \E k \in DOMAIN new : i = n + k
  <2> TAKE i \in DOMAIN all
  <2>1. CASE i <= n
    BY <1>4, <2>1
  <2>2. CASE ~(i <= n)
    <3>1. i - n \in DOMAIN new /\ i = n + (i - n)
      BY <1>4, <2>2
    <3> QED
      BY <3>1
  <2> QED
    BY <2>1, <2>2
<1>8. \A i \in DOMAIN all : i \notin DOMAIN old => Fresh(all[i], kind)
  BY <1>6, <1>7
<1>9. \A i \in DOMAIN all : all[i].epoch \in Nat /\ all[i].score \in Nat /\ all[i].trainer \in Nat
  BY <1>5, <1>8 DEF ShapeInv, Fresh
<1>10. \A i \in DOMAIN old : i \in Live(u) <=> i \in Live(s)
  BY <1>3, <1>5 DEF Live
<1>11. ASSUME NEW i \in Live(u) PROVE Shown(u, i)
  <2>1. i \in DOMAIN all
    BY <1>3 DEF Live
  <2>2. CASE i \in DOMAIN old
    <3>1. u.trials[i] = s.trials[i] /\ Shown(s, i)
      BY <1>3, <1>5, <1>10, <2>2 DEF OwnInv
    <3>2. \A o \in DOMAIN old : o \in DOMAIN u.trials /\ u.trials[o] = s.trials[o]
      BY <1>3, <1>5
    <3>3. \A o \in DOMAIN old : Like(s, o, i) => Like(u, o, i)
      BY <3>1, <3>2 DEF Like
    <3> QED
      BY <3>1, <3>2, <3>3 DEF Shown
  <2>3. CASE i \notin DOMAIN old
    BY <1>3, <1>8, <2>1, <2>3 DEF Fresh, Shown
  <2> QED
    BY <2>2, <2>3
<1>12. ASSUME NEW j \in Live(u), u.trials[j].path # <<>>
       PROVE  j \in Live(s) /\ u.trials[j] = s.trials[j]
  <2>1. j \in DOMAIN all
    BY <1>3 DEF Live
  <2>2. j \in DOMAIN old
    BY <1>3, <1>8, <1>12, <2>1 DEF Fresh
  <2> QED
    BY <1>3, <1>5, <1>10, <2>2
<1>13. \A j \in Live(u) : ~Heir(u, j)
  BY <1>12 DEF Heir
<1>14. ASSUME NEW i \in Live(u), NEW j \in Live(u), ShowsOf(u, j, i)
       PROVE  u.trials[j].epoch <= u.trials[i].epoch
  <2>1. i = j
    BY <1>13, <1>14 DEF ShowsOf, Heir
  <2>2. u.trials[j].epoch \in Nat
    BY <1>3, <1>9 DEF Live
  <2>3. \A e \in Nat : e <= e
    OBVIOUS
  <2> QED
    BY <2>1, <2>2, <2>3, Zenon
<1>15. OwnInv(u)
  BY <1>11, <1>14 DEF OwnInv
<1> QED
  BY <1>3, <1>4, <1>5, <1>6, <1>7, <1>9, <1>13, <1>15 DEF n, More

LEMMA CalibrateKeepsWeights == WeightsInv(sup) /\ SupInv(sup) /\ Calibrate => WeightsInv(sup')
<1> SUFFICES ASSUME WeightsInv(sup), SupInv(sup), Calibrate PROVE WeightsInv(sup')
  OBVIOUS
<1> DEFINE f == Families[sup.rung + 1]
           new == NewTrial("cal", f, 0)
           s == [sup EXCEPT !.rung = @ + 1, !.trials = Append(@, new)]
           i == Len(s.trials)
<1>1. /\ sup.phase = "3A" /\ sup.rung < Len(Families)
      /\ \E r \in TrainTrial(s, i) :
            IF i \notin Live(r.s) THEN sup' = IF r.hard THEN Quarantine(r.s, f) ELSE r.s
            ELSE sup' \in Evaluate(r.s, i)
  BY DEF Calibrate
<1>2. /\ IsState(sup) /\ ShapeInv(sup) /\ OwnInv(sup) /\ KindsInv(sup)
      /\ \A j \in Live(sup) : ~Heir(sup, j)
  BY <1>1 DEF SupInv, WeightsInv, NoHeirsYet
<1>3. DOMAIN sup.trials = 1 .. sup.rung /\ sup.rung \in Nat /\ sup.rung + 1 \in 1 .. Len(Families)
  BY <1>1, <1>2, FamilyFacts DEF KindsInv, ShapeInv
<1> DEFINE more == <<new>>
<1>4. /\ DOMAIN s = SupFields /\ s.phase = sup.phase /\ s.rung = sup.rung + 1 /\ s.disk = sup.disk
      /\ s.fresh = sup.fresh /\ s.left = sup.left /\ s.group = sup.group /\ s.turn = sup.turn
      /\ s.trials = sup.trials \o more
  <2>1. Append(sup.trials, new) = sup.trials \o more
    <3> DEFINE S == {sup.trials[k] : k \in DOMAIN sup.trials} \cup {new}
    <3>1. sup.trials \in Seq({sup.trials[k] : k \in DOMAIN sup.trials}) /\ new \in S
      BY <1>2 DEF IsState, IsTrials
    <3>2. sup.trials \in Seq(S)
      BY <3>1, SeqMonotonic
    <3> HIDE DEF new, S
    <3> QED
      BY <3>1, <3>2, AppendIsConcat
  <2>2. DOMAIN sup = SupFields
    BY <1>2 DEF IsState
  <2> HIDE DEF new, more
  <2> QED
    BY <2>1, <2>2 DEF SupFields
<1>5. IsTrials(more) /\ DOMAIN more = 1 .. 1 /\ Len(more) = 1 /\ more[1] = new /\ \A k \in DOMAIN more : Fresh(more[k], "cal")
  <2>1. DOMAIN new = TrialFields /\ Fresh(new, "cal")
    BY NewTrialIs, NewTrialIsFresh
  <2> HIDE DEF new
  <2>2. more \in Seq({more[k] : k \in DOMAIN more}) /\ DOMAIN more = 1 .. 1 /\ Len(more) = 1 /\ more[1] = new
    OBVIOUS
  <2> HIDE DEF more
  <2> QED
    BY <2>1, <2>2 DEF IsTrials
<1>6. new.family = f /\ new.kind = "cal"
  BY DEF NewTrial
<1> HIDE DEF s, i, new, more
<1>7. More(sup, s, more)
  BY <1>2, <1>4, <1>5, MoreFresh
<1>8. /\ Len(sup.trials) \in Nat /\ DOMAIN sup.trials = 1 .. Len(sup.trials)
      /\ DOMAIN s.trials = 1 .. Len(sup.trials) + Len(more)
      /\ \A k \in DOMAIN sup.trials : k \in DOMAIN s.trials /\ s.trials[k] = sup.trials[k]
      /\ \A k \in DOMAIN more : Len(sup.trials) + k \in DOMAIN s.trials /\ s.trials[Len(sup.trials) + k] = more[k]
      /\ \A k \in DOMAIN s.trials : k \in DOMAIN sup.trials \/ \E l \in DOMAIN more : k = Len(sup.trials) + l
      /\ \A k \in DOMAIN s.trials : s.trials[k].epoch \in Nat /\ s.trials[k].score \in Nat /\ s.trials[k].trainer \in Nat
      /\ OwnInv(s) /\ \A j \in Live(s) : ~Heir(s, j)
  BY <1>7 DEF More
<1>9. Len(sup.trials) = sup.rung
  BY <1>3, <1>8
<1>10. DOMAIN s.trials = 1 .. sup.rung + 1 /\ s.trials[sup.rung + 1] = new
  BY <1>5, <1>8, <1>9
<1>11. /\ IsState(s) /\ i = sup.rung + 1 /\ i \in DOMAIN s.trials
  <2>1. \A k \in DOMAIN more : more[k].family \notin sup.blocked
    <3>1. f \notin sup.blocked
      <4> SUFFICES ASSUME f \in sup.blocked PROVE FALSE
        OBVIOUS
      <4>1. PICK k \in 1 .. sup.rung : Families[k] = f
        BY <1>1 DEF SupInv
      <4>2. k \in 1 .. Len(Families) /\ k # sup.rung + 1
        BY <1>3, FamilyFacts
      <4> QED
        BY <1>3, <4>1, <4>2, FamilyFacts
    <3> QED
      BY <1>5, <1>6, <3>1
  <2>2. s.blocked = sup.blocked
    BY <1>2 DEF s, IsState, SupFields
  <2>3. Quiet(sup)
    BY DEF SupInv
  <2>4. IsState(s)
    BY <1>2, <1>4, <1>5, <2>1, <2>2, <2>3, MoreTrials
  <2>5. Len(s.trials) = sup.rung + 1
    <3>1. s.trials \in Seq({s.trials[k] : k \in DOMAIN s.trials})
      BY <2>4 DEF IsState, IsTrials
    <3>2. Len(s.trials) \in Nat /\ DOMAIN s.trials = 1 .. Len(s.trials)
      BY <3>1, LenProperties
    <3> QED
      BY <1>3, <1>10, <3>2
  <2> QED
    BY <1>3, <1>10, <2>4, <2>5 DEF i
<1>12. WeightsInv(s)
  <2>1. ShapeInv(s)
    <3>1. s.group \in Seq(DOMAIN s.trials) /\ s.turn \in Seq(DOMAIN s.trials)
      <4>1. DOMAIN sup.trials \subseteq DOMAIN s.trials
        BY <1>8
      <4>2. sup.group \in Seq(DOMAIN s.trials) /\ sup.turn \in Seq(DOMAIN s.trials)
        BY <1>2, <4>1, SeqMonotonic DEF ShapeInv
      <4> QED
        BY <1>4, <4>2
    <3>2. s.fresh \in Nat \ {0} /\ s.rung \in Nat /\ s.left \in Int
      BY <1>2, <1>4 DEF ShapeInv
    <3> QED
      BY <1>8, <3>1, <3>2 DEF ShapeInv
  <2>2. KindsInv(s)
    <3>1. \A k \in DOMAIN s.trials : k \in DOMAIN sup.trials \/ k = sup.rung + 1
      BY <1>3, <1>10
    <3>2. ASSUME NEW k \in DOMAIN s.trials
          PROVE s.trials[k].kind = "cal" /\ k \in 1 .. Len(Families) /\ s.trials[k].family = Families[k]
      <4>1. CASE k \in DOMAIN sup.trials
        BY <1>1, <1>2, <1>8, <4>1 DEF KindsInv
      <4>2. CASE k = sup.rung + 1
        BY <1>3, <1>6, <1>10, <4>2
      <4> QED
        BY <3>1, <4>1, <4>2
    <3>3. DOMAIN s.trials = 1 .. s.rung /\ s.phase = "3A"
      BY <1>1, <1>4, <1>10
    <3> QED
      BY <3>2, <3>3 DEF KindsInv
  <2> QED
    BY <1>1, <1>4, <1>8, <2>1, <2>2 DEF WeightsInv, NoHeirsYet, RungsInv, GensInv
<1>13. i \in Live(s)
  <2>1. ~new.pruned
    BY DEF new, NewTrial
  <2> QED
    BY <1>10, <1>11, <2>1 DEF Live
<1>14. PICK r \in TrainTrial(s, i) :
        IF i \notin Live(r.s) THEN sup' = IF r.hard THEN Quarantine(r.s, f) ELSE r.s
        ELSE sup' \in Evaluate(r.s, i)
  BY <1>1 DEF s, i, new
<1>15. WeightsInv(r.s) /\ IsState(r.s)
  <2>1. Calm(s, r.s) \/ \E u : TrainStep(s, u, i) /\ Calm(u, r.s)
    BY <1>11, TrainTrialComes
  <2>2. CASE Calm(s, r.s)
    BY <1>12, <2>2, CalmKeepsWeights DEF Calm
  <2>3. CASE \E u : TrainStep(s, u, i) /\ Calm(u, r.s)
    <3>1. PICK u : TrainStep(s, u, i) /\ Calm(u, r.s)
      BY <2>3
    <3>2. WeightsInv(u)
      BY <1>1, <1>4, <1>12, <1>13, <3>1, StepKeepsWeights
    <3> QED
      BY <3>1, <3>2, CalmKeepsWeights DEF Calm
  <2> QED
    BY <2>1, <2>2, <2>3
<1>16. Calm(r.s, sup')
  <2>1. sup' = r.s \/ sup' = Quarantine(r.s, f) \/ sup' \in Evaluate(r.s, i)
    BY <1>14
  <2> QED
    BY <1>15, <2>1, CalmSame, QuarantineIsCalm, EvaluateIsCalm
<1> QED
  BY <1>15, <1>16, CalmKeepsWeights

LEMMA EntersWith ==
    ASSUME NEW x, DOMAIN x = SupFields, NEW phase, NEW s \in Enter(x, phase)
    PROVE  /\ DOMAIN s = SupFields /\ s.trials = x.trials /\ s.disk = x.disk /\ s.fresh = x.fresh
           /\ s.left = x.left /\ s.turn = <<>> /\ s.rung = 0 /\ s.phase = phase
BY DEF Enter, SupFields

(* The candidates of the rungs, which come after the calibrated trials.      *)
LEMMA StaticAre ==
    ASSUME NEW fs, Len(fs) \in Nat
    PROVE  /\ IsTrials(StaticCandidates(fs))
           /\ \A k \in DOMAIN StaticCandidates(fs) : Fresh(StaticCandidates(fs)[k], "asha")
<1> DEFINE n == IF fs = <<>> THEN 0 ELSE AshaTrials
           at(k) == 1 + ((k - 1) % Len(fs))
           new == StaticCandidates(fs)
<1>1. new = [k \in 1 .. n |-> NewTrial("asha", fs[at(k)], (k - 1) \div Len(fs))]
  BY DEF StaticCandidates
<1>2. n \in Int
  BY SupervisorOK
<1> HIDE DEF new
<1>3. ASSUME NEW k \in 1 .. n PROVE DOMAIN new[k] = TrialFields /\ Fresh(new[k], "asha")
  <2>1. new[k] = NewTrial("asha", fs[at(k)], (k - 1) \div Len(fs))
    BY <1>1
  <2> HIDE DEF at
  <2> QED
    BY <2>1, NewTrialIs, NewTrialIsFresh
<1>4. new = [k \in 1 .. n |-> new[k]]
  BY <1>1
<1> HIDE DEF n
<1>5. IsTrials(new) /\ DOMAIN new = 1 .. n
  BY <1>2, <1>3, <1>4, NewTrials
<1> QED
  BY <1>3, <1>5 DEF new

(* The places of new trials. *)
LEMMA NewPlaces ==
    ASSUME NEW l \in Nat, NEW m \in Nat, NEW new, DOMAIN new = 1 .. m
    PROVE  /\ [k \in DOMAIN new |-> l + k] \in Seq(l + 1 .. l + m)
           /\ IsInjective([k \in DOMAIN new |-> l + k])
           /\ ToSet([k \in DOMAIN new |-> l + k]) = l + 1 .. l + m
<1> DEFINE g == [k \in DOMAIN new |-> l + k]
<1>1. g \in [1 .. m -> l + 1 .. l + m]
  OBVIOUS
<1>2. g \in Seq(l + 1 .. l + m) /\ DOMAIN g = 1 .. m
  BY <1>1, SeqDef
<1>3. IsInjective(g)
  BY <1>2 DEF IsInjective
<1>4. ToSet(g) = l + 1 .. l + m
  <2>1. ASSUME NEW j \in l + 1 .. l + m PROVE j \in ToSet(g)
    <3>1. j - l \in 1 .. m /\ l + (j - l) = j
      OBVIOUS
    <3>2. g[j - l] = j
      BY <3>1
    <3> QED
      BY <1>2, <3>1, <3>2 DEF ToSet
  <2>2. ASSUME NEW j \in ToSet(g) PROVE j \in l + 1 .. l + m
    <3>1. PICK k \in 1 .. m : j = g[k]
      BY <1>2 DEF ToSet
    <3> QED
      BY <3>1
  <2> QED
    BY <2>1, <2>2
<1> QED
  BY <1>2, <1>3, <1>4

LEMMA StartRungsKeepsWeights == WeightsInv(sup) /\ SupInv(sup) /\ StartRungs => WeightsInv(sup')
<1> SUFFICES ASSUME WeightsInv(sup), SupInv(sup), StartRungs PROVE WeightsInv(sup')
  OBVIOUS
<1> DEFINE new == StaticCandidates(Eligible(sup))
           x == [sup EXCEPT !.trials = @ \o new]
           n == Len(sup.trials)
           group == [k \in DOMAIN new |-> n + k]
           u == sup'
<1>1. /\ sup.phase = "3A"
      /\ \E s \in Enter(x, "3B") : u = [s EXCEPT !.group = group]
  BY DEF StartRungs
<1>2. /\ IsState(sup) /\ ShapeInv(sup) /\ OwnInv(sup) /\ KindsInv(sup)
      /\ \A j \in Live(sup) : ~Heir(sup, j)
  BY <1>1 DEF SupInv, WeightsInv, NoHeirsYet
<1>3. /\ DOMAIN x = SupFields /\ x.trials = sup.trials \o new /\ x.disk = sup.disk /\ x.fresh = sup.fresh
      /\ x.left = sup.left
  BY <1>2 DEF IsState, SupFields
<1>4. IsTrials(new) /\ \A k \in DOMAIN new : Fresh(new[k], "asha")
  BY EligibleAre, StaticAre
<1> HIDE DEF new, x, group
<1>5. PICK s \in Enter(x, "3B") : u = [s EXCEPT !.group = group]
  BY <1>1
<1> HIDE DEF u
<1>6. /\ u.trials = sup.trials \o new /\ u.disk = sup.disk /\ u.fresh = sup.fresh /\ u.left = sup.left
      /\ u.turn = <<>> /\ u.rung = 0 /\ u.phase = "3B" /\ u.group = group
  <2>1. /\ DOMAIN s = SupFields /\ s.trials = x.trials /\ s.disk = x.disk /\ s.fresh = x.fresh
        /\ s.left = x.left /\ s.turn = <<>> /\ s.rung = 0 /\ s.phase = "3B"
    BY <1>3, EntersWith
  <2> QED
    BY <1>3, <1>5, <2>1 DEF SupFields
<1>7. More(sup, u, new)
  BY <1>2, <1>4, <1>6, MoreFresh
<1>8. /\ n \in Nat /\ Len(new) \in Nat /\ DOMAIN sup.trials = 1 .. n /\ DOMAIN new = 1 .. Len(new)
      /\ DOMAIN u.trials = 1 .. n + Len(new)
      /\ \A i \in DOMAIN sup.trials : u.trials[i] = sup.trials[i]
      /\ \A k \in DOMAIN new : u.trials[n + k] = new[k]
      /\ \A i \in DOMAIN u.trials : i \in DOMAIN sup.trials \/ \E k \in DOMAIN new : i = n + k
      /\ \A i \in DOMAIN u.trials : u.trials[i].epoch \in Nat /\ u.trials[i].score \in Nat /\ u.trials[i].trainer \in Nat
      /\ OwnInv(u) /\ \A j \in Live(u) : ~Heir(u, j)
  BY <1>7 DEF More
<1> HIDE DEF n
<1>9. group \in Seq(n + 1 .. n + Len(new)) /\ ToSet(group) = n + 1 .. n + Len(new)
  BY <1>8, NewPlaces DEF group
<1>10. ShapeInv(u)
  <2>1. n + 1 .. n + Len(new) \subseteq DOMAIN u.trials
    BY <1>8
  <2>2. group \in Seq(DOMAIN u.trials)
    BY <1>9, <2>1, SeqMonotonic
  <2>3. <<>> \in Seq(DOMAIN u.trials) /\ 0 \in Nat
    OBVIOUS
  <2>4. sup.fresh \in Nat \ {0} /\ sup.left \in Int
    BY <1>2 DEF ShapeInv
  <2> QED
    BY <1>6, <1>8, <2>2, <2>3, <2>4 DEF ShapeInv
<1>11. ASSUME NEW i \in DOMAIN u.trials
       PROVE  \/ /\ i \in DOMAIN sup.trials /\ u.trials[i].kind = "cal"
                 /\ i \in 1 .. Len(Families) /\ u.trials[i].family = Families[i]
              \/ i \in n + 1 .. n + Len(new) /\ u.trials[i].kind = "asha" /\ u.trials[i].epoch = 0
  <2>1. CASE i \in DOMAIN sup.trials
    BY <1>1, <1>2, <1>8, <2>1 DEF KindsInv
  <2>2. CASE \E k \in DOMAIN new : i = n + k
    <3>1. PICK k \in DOMAIN new : i = n + k
      BY <2>2
    <3>2. u.trials[i].kind = "asha" /\ u.trials[i].epoch = 0
      BY <1>4, <1>8, <3>1 DEF Fresh
    <3>3. i \in n + 1 .. n + Len(new)
      BY <1>8, <3>1
    <3> QED
      BY <3>2, <3>3
  <2> QED
    BY <1>8, <2>1, <2>2
<1>12. KindsInv(u)
  BY <1>6, <1>11 DEF KindsInv
<1>13. \A i \in Candidates(u) : i \in n + 1 .. n + Len(new) /\ u.trials[i].epoch = 0
  BY <1>11 DEF Candidates, Live
<1>14. RungsInv(u)
  <2>1. 0 \in 0 .. Len(Resources)
    BY ResourcesAre
  <2>2. BetweenRungs(u)
    BY <1>6, <1>13, <2>1 DEF BetweenRungs
  <2>3. Candidates(u) \subseteq ToSet(u.group)
    BY <1>6, <1>9, <1>13
  <2> QED
    BY <1>6, <2>2, <2>3 DEF RungsInv
<1>15. WeightsInv(u)
  BY <1>6, <1>8, <1>10, <1>12, <1>14 DEF WeightsInv, NoHeirsYet, GensInv
<1> QED
  BY <1>15 DEF u

-----------------------------------------------------------------------------
(* The population of the search.                                             *)

LEMMA LeadersAre ==
    ASSUME NEW S, NEW q \in Seq(S), IsInjective(q), NEW m \in Nat, m <= Len(q)
    PROVE  /\ SubSeq(q, 1, m) \in Seq(S) /\ Len(SubSeq(q, 1, m)) = m /\ IsInjective(SubSeq(q, 1, m))
<1> DEFINE p == SubSeq(q, 1, m)
<1>1. Len(q) \in Nat /\ DOMAIN q = 1 .. Len(q) /\ \A k \in 1 .. m : q[k] \in S
  BY LenProperties, ElementOfSeq
<1>2. p \in Seq(S) /\ Len(p) = (IF 1 <= m THEN m - 1 + 1 ELSE 0) /\ \A k \in 1 .. m - 1 + 1 : p[k] = q[1 + k - 1]
  BY <1>1, SubSeqProperties
<1> HIDE DEF p
<1>3. Len(p) = m /\ DOMAIN p = 1 .. m
  <2>1. Len(p) = m
    BY <1>2
  <2> QED
    BY <1>2, <2>1, LenProperties
<1>4. \A k \in 1 .. m : p[k] = q[k] /\ k \in DOMAIN q
  BY <1>1, <1>2
<1>5. IsInjective(p)
  BY <1>3, <1>4 DEF IsInjective
<1> QED
  BY <1>2, <1>3, <1>5 DEF p

LEMMA JoinedAre ==
    ASSUME NEW S, NEW T, S \cap T = {}, NEW a \in Seq(S), NEW b \in Seq(T), IsInjective(a), IsInjective(b)
    PROVE  a \o b \in Seq(S \cup T) /\ IsInjective(a \o b)
<1> DEFINE c == a \o b
<1>1. a \in Seq(S \cup T) /\ b \in Seq(S \cup T)
  BY SeqMonotonic
<1>2. /\ c \in Seq(S \cup T) /\ Len(c) = Len(a) + Len(b)
      /\ \A i \in 1 .. Len(a) + Len(b) : c[i] = IF i <= Len(a) THEN a[i] ELSE b[i - Len(a)]
  <2> HIDE DEF c
  <2> QED
    BY <1>1, ConcatProperties DEF c
<1>3. Len(a) \in Nat /\ Len(b) \in Nat /\ DOMAIN a = 1 .. Len(a) /\ DOMAIN b = 1 .. Len(b)
  BY LenProperties
<1> HIDE DEF c
<1>4. DOMAIN c = 1 .. Len(a) + Len(b)
  BY <1>2, LenProperties
<1>5. ASSUME NEW i \in DOMAIN c
      PROVE  \/ i <= Len(a) /\ i \in DOMAIN a /\ c[i] = a[i] /\ a[i] \in S
             \/ ~(i <= Len(a)) /\ i - Len(a) \in DOMAIN b /\ c[i] = b[i - Len(a)] /\ b[i - Len(a)] \in T
  <2>1. CASE i <= Len(a)
    <3>1. i \in DOMAIN a /\ c[i] = a[i]
      BY <1>2, <1>3, <1>4, <2>1
    <3> QED
      BY <1>3, <2>1, <3>1, ElementOfSeq
  <2>2. CASE ~(i <= Len(a))
    <3>1. i - Len(a) \in DOMAIN b /\ c[i] = b[i - Len(a)]
      BY <1>2, <1>3, <1>4, <2>2
    <3> QED
      BY <1>3, <2>2, <3>1, ElementOfSeq
  <2> QED
    BY <2>1, <2>2
<1>6. ASSUME NEW i \in DOMAIN c, NEW j \in DOMAIN c, c[i] = c[j] PROVE i = j
  <2>1. CASE i <= Len(a)
    <3>1. j <= Len(a)
      BY <1>5, <1>6, <2>1
    <3> QED
      BY <1>5, <1>6, <2>1, <3>1 DEF IsInjective
  <2>2. CASE ~(i <= Len(a))
    <3>1. ~(j <= Len(a))
      BY <1>5, <1>6, <2>2
    <3>2. i - Len(a) = j - Len(a)
      BY <1>5, <1>6, <2>2, <3>1 DEF IsInjective
    <3> QED
      BY <1>3, <1>4, <3>2
  <2> QED
    BY <2>1, <2>2
<1>7. IsInjective(c)
  BY <1>6 DEF IsInjective
<1> QED
  BY <1>2, <1>7 DEF c

(* A ranking of some of a state's trials. *)
LEMMA RankedTrials ==
    ASSUME NEW s, IsState(s), ShapeInv(s), NEW who, who \subseteq DOMAIN s.trials
    PROVE  LET r == Ranked(s, who, AllTrials(s))
           IN  r \in Seq(who) /\ IsInjective(r) /\ Len(r) \in Nat
<1> DEFINE list == AllTrials(s)
<1>1. PICK l \in Nat : DOMAIN s.trials = 1 .. l
  BY LenProperties DEF IsState, IsTrials
<1>2. list = [i \in 1 .. l |-> i]
  BY <1>1 DEF AllTrials
<1>3. list \in Seq(1 .. l) /\ DOMAIN list = 1 .. l
  <2>1. list \in [1 .. l -> 1 .. l]
    BY <1>2
  <2> QED
    BY <2>1, SeqDef
<1>4. who \subseteq ToSet(list)
  BY <1>1, <1>2, <1>3 DEF ToSet
<1>5. IsFiniteSet(who)
  BY FiniteMembers
<1>6. \A i \in who : s.trials[i].score \in Nat
  BY DEF ShapeInv
<1> HIDE DEF list
<1>7. /\ Ranked(s, who, list) \in Seq(who) /\ Len(Ranked(s, who, list)) = Cardinality(who)
      /\ IsInjective(Ranked(s, who, list)) /\ Cardinality(who) \in Nat
  BY <1>3, <1>4, <1>5, <1>6, RankedAre
<1> QED
  BY <1>7 DEF list

(* What the population of the search looks like when it starts: survivors of *)
(* the rungs, or calibrated trials with the seeds after them.                *)
SeededWith(s, u, from, fs, c, new, some) ==
    /\ c \in Nat /\ from \subseteq {i \in Live(s) : s.trials[i].path # <<>>}
    /\ \/ new = <<>> /\ from \subseteq Candidates(s)
       \/ from \cap Candidates(s) = {}
    /\ some \in Seq(from) /\ IsInjective(some)
    /\ IsTrials(new) /\ (\A k \in DOMAIN new : Fresh(new[k], "seed") /\ new[k].family = fs[c + k])
    /\ \A j, k \in DOMAIN new : fs[c + j] = fs[c + k] => j = k
    /\ u.trials = s.trials \o new /\ u.disk = s.disk /\ u.fresh = s.fresh
    /\ u.left = s.left /\ u.turn = <<>> /\ u.rung = 0 /\ u.phase = "3C"
    /\ u.group = some \o [k \in DOMAIN new |-> Len(s.trials) + k]
Seeded(s, u) == \E from, fs, c, new, some : SeededWith(s, u, from, fs, c, new, some)

LEMMA SearchIsSeeded == WeightsInv(sup) /\ SupInv(sup) /\ StartSearch => Seeded(sup, sup')
<1> SUFFICES ASSUME WeightsInv(sup), SupInv(sup), StartSearch PROVE Seeded(sup, sup')
  OBVIOUS
<1> DEFINE fs == Eligible(sup)
           ready(t) == t.path # <<>> /\ t.family \notin sup.blocked
           who == {i \in Live(sup) : ready(sup.trials[i])}
           left == {i \in who : sup.trials[i].kind = "asha"}
           from == IF left # {} THEN left ELSE who
           seen == Ranked(sup, from, AllTrials(sup))
           m == IF Len(seen) < PbtPopulation THEN Len(seen) ELSE PbtPopulation
           some == SubSeq(seen, 1, m)
           want == IF left # {} THEN 0 ELSE IF Len(fs) < PbtPopulation THEN Len(fs) ELSE PbtPopulation
           c == Len(some)
           n == want - c
           new == [k \in 1 .. n |-> NewTrial("seed", fs[c + k], 0)]
           x == [sup EXCEPT !.trials = @ \o new]
           group == some \o [k \in DOMAIN new |-> Len(sup.trials) + k]
           u == sup'
<1>1. IsState(sup) /\ ShapeInv(sup)
  BY DEF SupInv, WeightsInv
<1>2. \E s \in Enter(x, "3C") : u = [s EXCEPT !.group = group]
  BY Zenon DEF StartSearch
<1>3. /\ DOMAIN x = SupFields /\ x.trials = sup.trials \o new /\ x.disk = sup.disk /\ x.fresh = sup.fresh
      /\ x.left = sup.left
  BY <1>1 DEF IsState, SupFields
<1>4. from \subseteq {i \in Live(sup) : sup.trials[i].path # <<>>} /\ from \subseteq DOMAIN sup.trials
  BY DEF Live
<1>5. (left # {} /\ from \subseteq Candidates(sup)) \/ (from \cap Candidates(sup) = {})
  BY DEF Candidates
<1>6. PbtPopulation \in Nat /\ Len(fs) \in Nat /\ \A j, k \in 1 .. Len(fs) : fs[j] = fs[k] => j = k
  BY EligibleAre, SupervisorOK
<1>7. left # {} => want = 0
  OBVIOUS
<1> HIDE DEF fs, left
<1>8. want \in Nat /\ want <= Len(fs)
  BY <1>6
<1> HIDE DEF from, left, want, fs
<1>9. seen \in Seq(from) /\ IsInjective(seen) /\ Len(seen) \in Nat
  BY <1>1, <1>4, RankedTrials
<1> HIDE DEF seen
<1>10. m \in Nat /\ m <= Len(seen)
  BY <1>6, <1>9
<1> HIDE DEF m
<1>11. some \in Seq(from) /\ c = m /\ IsInjective(some)
  BY <1>9, <1>10, LeadersAre
<1> HIDE DEF some, c
<1>12. n \in Int /\ c \in Nat
  BY <1>8, <1>10, <1>11
<1>13. IsTrials(new) /\ DOMAIN new = 1 .. n /\ \A k \in DOMAIN new : Fresh(new[k], "seed") /\ new[k].family = fs[c + k]
  <2>1. \A k \in 1 .. n : new[k] = NewTrial("seed", fs[c + k], 0)
    OBVIOUS
  <2>2. new = [k \in 1 .. n |-> new[k]]
    OBVIOUS
  <2> HIDE DEF n, new
  <2>3. \A k \in 1 .. n : DOMAIN new[k] = TrialFields /\ Fresh(new[k], "seed") /\ new[k].family = fs[c + k]
    BY <2>1, NewTrialIs, NewTrialIsFresh
  <2>4. IsTrials(new) /\ DOMAIN new = 1 .. n
    BY <1>12, <2>2, <2>3, NewTrials
  <2> QED
    BY <2>3, <2>4
<1>14. left # {} => new = <<>>
  <2> HAVE left # {}
  <2>1. n <= 0
    BY <1>7, <1>12
  <2>2. 1 .. n = {}
    BY <1>12, <2>1
  <2> HIDE DEF n
  <2>3. new = [k \in {} |-> NewTrial("seed", fs[c + k], 0)]
    BY <2>2
  <2> HIDE DEF new
  <2>4. DOMAIN new = {} /\ new \in Seq({new[i] : i \in DOMAIN new})
    BY <1>13, <2>2 DEF IsTrials
  <2>5. Len(new) = 0
    <3>1. Len(new) \in Nat /\ DOMAIN new = 1 .. Len(new)
      BY <2>4, LenProperties
    <3> QED
      BY <2>4, <3>1
  <2> QED
    BY <2>4, <2>5, EmptySeq
<1>15. \A j, k \in DOMAIN new : fs[c + j] = fs[c + k] => j = k
  <2> TAKE j, k \in DOMAIN new
  <2>1. j \in 1 .. n /\ k \in 1 .. n
    BY <1>13
  <2>2. c + j \in 1 .. Len(fs) /\ c + k \in 1 .. Len(fs) /\ j \in Int /\ k \in Int
    BY <1>6, <1>8, <1>12, <2>1
  <2>3. fs[c + j] = fs[c + k] => c + j = c + k
    BY <1>6, <2>2
  <2> QED
    BY <1>12, <2>2, <2>3
<1> HIDE DEF n, new, group, x, u
<1>16. PICK s \in Enter(x, "3C") : u = [s EXCEPT !.group = group]
  BY <1>2
<1>17. /\ DOMAIN s = SupFields /\ s.trials = x.trials /\ s.disk = x.disk /\ s.fresh = x.fresh
       /\ s.left = x.left /\ s.turn = <<>> /\ s.rung = 0 /\ s.phase = "3C"
  BY <1>3, EntersWith
<1>18. /\ u.trials = sup.trials \o new /\ u.disk = sup.disk /\ u.fresh = sup.fresh
       /\ u.left = sup.left /\ u.turn = <<>> /\ u.rung = 0 /\ u.phase = "3C" /\ u.group = group
  BY <1>16, <1>3, <1>17 DEF SupFields
<1>19. u.group = some \o [k \in DOMAIN new |-> Len(sup.trials) + k]
  BY <1>18 DEF group
<1>20. (new = <<>> /\ from \subseteq Candidates(sup)) \/ (from \cap Candidates(sup) = {})
  BY <1>5, <1>14
<1>21. Seeded(sup, u)
  <2> HIDE DEF ready, who
  <2>1. SeededWith(sup, u, from, fs, c, new, some)
    BY <1>4, <1>11, <1>12, <1>13, <1>15, <1>18, <1>19, <1>20 DEF SeededWith
  <2> QED
    BY <2>1, Zenon DEF Seeded
<1> QED
  BY <1>21 DEF u

LEMMA SeededKeepsWeights ==
    ASSUME NEW s, WeightsInv(s), SupInv(s), s.phase = "3B", s.turn = <<>>, NEW u, Seeded(s, u)
    PROVE  WeightsInv(u)
<1>1. PICK from, fs, c, new, some : SeededWith(s, u, from, fs, c, new, some)
  BY DEF Seeded
<1> DEFINE n == Len(s.trials)
           places == [k \in DOMAIN new |-> n + k]
<1>2. /\ IsState(s) /\ ShapeInv(s) /\ OwnInv(s) /\ KindsInv(s) /\ BetweenRungs(s)
      /\ \A j \in Live(s) : ~Heir(s, j)
  BY DEF SupInv, WeightsInv, NoHeirsYet, RungsInv
<1>3. /\ u.trials = s.trials \o new /\ u.disk = s.disk /\ u.fresh = s.fresh
      /\ u.left = s.left /\ u.turn = <<>> /\ u.rung = 0 /\ u.phase = "3C"
      /\ u.group = some \o places
  BY <1>1 DEF SeededWith
<1>4. /\ c \in Nat /\ from \subseteq {i \in Live(s) : s.trials[i].path # <<>>}
      /\ (new = <<>> /\ from \subseteq Candidates(s)) \/ (from \cap Candidates(s) = {})
      /\ some \in Seq(from) /\ IsInjective(some)
      /\ IsTrials(new) /\ (\A k \in DOMAIN new : Fresh(new[k], "seed") /\ new[k].family = fs[c + k])
      /\ \A j, k \in DOMAIN new : fs[c + j] = fs[c + k] => j = k
  BY <1>1 DEF SeededWith
<1>5. More(s, u, new)
  <2>1. \A k \in DOMAIN new : Fresh(new[k], "seed")
    BY <1>4
  <2> QED
    BY <1>2, <1>3, <1>4, <2>1, MoreFresh
<1>6. /\ n \in Nat /\ Len(new) \in Nat /\ DOMAIN s.trials = 1 .. n /\ DOMAIN new = 1 .. Len(new)
      /\ DOMAIN u.trials = 1 .. n + Len(new)
      /\ \A i \in DOMAIN s.trials : u.trials[i] = s.trials[i]
      /\ \A k \in DOMAIN new : u.trials[n + k] = new[k]
      /\ \A i \in DOMAIN u.trials : i \in DOMAIN s.trials \/ \E k \in DOMAIN new : i = n + k
      /\ \A i \in DOMAIN u.trials : u.trials[i].epoch \in Nat /\ u.trials[i].score \in Nat /\ u.trials[i].trainer \in Nat
      /\ OwnInv(u) /\ \A j \in Live(u) : ~Heir(u, j)
  BY <1>5 DEF More
<1> HIDE DEF n
<1>7. places \in Seq(n + 1 .. n + Len(new)) /\ ToSet(places) = n + 1 .. n + Len(new) /\ IsInjective(places)
  BY <1>6, NewPlaces
<1> HIDE DEF places
<1>8. from \subseteq DOMAIN s.trials /\ from \subseteq Live(s)
  BY <1>4 DEF Live
<1> DEFINE all == from \cup (n + 1 .. n + Len(new))
<1>9. u.group \in Seq(all) /\ IsInjective(u.group)
  <2>1. from \cap (n + 1 .. n + Len(new)) = {}
    <3>1. (1 .. n) \cap (n + 1 .. n + Len(new)) = {}
      BY <1>6
    <3> QED
      BY <1>6, <1>8, <3>1
  <2> DEFINE T == n + 1 .. n + Len(new)
  <2>2. some \in Seq(from) /\ places \in Seq(T) /\ IsInjective(some) /\ IsInjective(places) /\ from \cap T = {}
    BY <1>4, <1>7, <2>1
  <2>3. all = from \cup T
    OBVIOUS
  <2> HIDE DEF T, all
  <2>4. some \o places \in Seq(from \cup T) /\ IsInjective(some \o places)
    BY <2>2, JoinedAre
  <2> QED
    BY <1>3, <2>3, <2>4
<1>10. all \subseteq DOMAIN u.trials
  <2>1. 1 .. n \subseteq 1 .. n + Len(new) /\ n + 1 .. n + Len(new) \subseteq 1 .. n + Len(new)
    BY <1>6
  <2> QED
    BY <1>6, <1>8, <2>1
<1>11. Members(u) \subseteq all
  BY <1>9, ElementOfSeq, LenProperties DEF Members, ToSet
<1> HIDE DEF all
<1>12. ShapeInv(u)
  <2>1. u.group \in Seq(DOMAIN u.trials)
    BY <1>9, <1>10, SeqMonotonic
  <2>2. <<>> \in Seq(DOMAIN u.trials) /\ 0 \in Nat
    OBVIOUS
  <2>3. s.fresh \in Nat \ {0} /\ s.left \in Int
    BY <1>2 DEF ShapeInv
  <2> QED
    BY <1>3, <1>6, <2>1, <2>2, <2>3 DEF ShapeInv
<1>13. ASSUME NEW i \in DOMAIN u.trials, i \notin DOMAIN s.trials
       PROVE  \E k \in DOMAIN new : i = n + k /\ u.trials[i] = new[k] /\ u.trials[i].kind = "seed"
                                    /\ u.trials[i].family = fs[c + k]
  <2>1. PICK k \in DOMAIN new : i = n + k
    BY <1>6, <1>13
  <2>2. u.trials[i] = new[k] /\ Fresh(new[k], "seed") /\ new[k].family = fs[c + k]
    BY <1>4, <1>6, <2>1
  <2> QED
    BY <2>1, <2>2 DEF Fresh
<1>14. KindsInv(u)
  <2>1. ASSUME NEW i \in DOMAIN u.trials, u.trials[i].kind = "cal"
        PROVE  i \in 1 .. Len(Families) /\ u.trials[i].family = Families[i]
    <3>1. i \in DOMAIN s.trials
      BY <1>13, <2>1
    <3> QED
      BY <1>2, <1>6, <2>1, <3>1 DEF KindsInv
  <2> QED
    BY <1>3, <2>1 DEF KindsInv
<1>15. Placed(u)
  <2>1. IsInjective(<<>>)
    BY DEF IsInjective
  <2> QED
    BY <1>3, <1>6, <1>9, <2>1 DEF Placed
<1>16. \A i : EndsAt(u, i) = u.trials[i].epoch + 0
  BY <1>3 DEF EndsAt, Due
<1>17. ASSUME NEW i \in Members(u) PROVE Even(u, i) \/ Lone(u, i)
  <2>1. CASE new = <<>> /\ from \subseteq Candidates(s)
    <3>1. n + 1 .. n + Len(new) = {}
      <4>1. Len(new) = 0
        BY <2>1, EmptySeq
      <4> QED
        BY <1>6, <4>1
    <3>2. \A j \in Members(u) : j \in Candidates(s) /\ j \in DOMAIN s.trials
      BY <1>8, <1>11, <2>1, <3>1 DEF all
    <3>3. \A j \in Members(u) : u.trials[j].epoch = u.trials[i].epoch
      BY <1>2, <1>6, <1>17, <3>2 DEF BetweenRungs
    <3>4. Even(u, i)
      BY <1>16, <3>3 DEF Even, Class
    <3> QED
      BY <3>4
  <2>2. CASE from \cap Candidates(s) = {}
    <3>1. ASSUME NEW j \in Members(u)
          PROVE  \/ j \in DOMAIN s.trials /\ j \in 1 .. Len(Families) /\ u.trials[j].family = Families[j]
                 \/ j \notin DOMAIN s.trials /\ \E k \in DOMAIN new : j = n + k /\ u.trials[j].family = fs[c + k]
      <4>1. j \in DOMAIN u.trials
        BY <1>10, <1>11
      <4>2. CASE j \in DOMAIN s.trials
        <5>1. j \in from
          <6>1. j \notin n + 1 .. n + Len(new)
            BY <1>6, <4>2
          <6> QED
            BY <1>11, <6>1 DEF all
        <5>2. s.trials[j].kind # "asha" /\ s.trials[j].kind \in {"cal", "asha"}
          BY <1>2, <1>8, <2>2, <4>2, <5>1 DEF Candidates, KindsInv
        <5>3. s.trials[j].kind = "cal"
          BY <5>2
        <5> QED
          BY <1>2, <1>6, <4>2, <5>3 DEF KindsInv
      <4>3. CASE j \notin DOMAIN s.trials
        BY <1>13, <4>1, <4>3
      <4> QED
        BY <4>2, <4>3
    <3>2. ASSUME NEW j \in Members(u), NEW k \in Members(u), u.trials[j].family = u.trials[k].family,
                 j \in DOMAIN s.trials <=> k \in DOMAIN s.trials
          PROVE  j = k
      <4>1. CASE j \in DOMAIN s.trials
        BY <3>1, <3>2, <4>1, FamilyFacts
      <4>2. CASE j \notin DOMAIN s.trials
        <5>1. PICK a \in DOMAIN new : j = n + a /\ u.trials[j].family = fs[c + a]
          BY <3>1, <4>2
        <5>2. PICK b \in DOMAIN new : k = n + b /\ u.trials[k].family = fs[c + b]
          BY <3>1, <3>2, <4>2
        <5>3. a = b
          BY <1>4, <3>2, <5>1, <5>2
        <5> QED
          BY <5>1, <5>2, <5>3
      <4> QED
        BY <4>1, <4>2
    <3>3. \A j \in Class(u, i) : j \in Members(u) /\ u.trials[j].family = u.trials[i].family
      BY DEF Class, Like, Compatible
    <3>4. ASSUME NEW j \in Class(u, i) \ {i}, NEW k \in Class(u, i) \ {i} PROVE j = k
      <4>1. /\ j \in Members(u) /\ u.trials[j].family = u.trials[i].family
            /\ k \in Members(u) /\ u.trials[k].family = u.trials[i].family
        BY <3>3, <3>4
      <4>2. ~(j \in DOMAIN s.trials <=> i \in DOMAIN s.trials) /\ ~(k \in DOMAIN s.trials <=> i \in DOMAIN s.trials)
        BY <1>17, <3>2, <3>4, <4>1
      <4> QED
        BY <3>2, <4>1, <4>2
    <3>5. \A j \in Class(u, i) : ~Heir(u, j)
      BY <1>6, <3>3 DEF Members
    <3>6. Lone(u, i)
      BY <3>4, <3>5 DEF Lone
    <3> QED
      BY <3>6
  <2> QED
    BY <1>4, <2>1, <2>2
<1>18. Level(u)
  BY <1>17 DEF Level
<1>19. Lowest(u)
  BY <1>6 DEF Lowest, Members
<1> QED
  BY <1>3, <1>6, <1>12, <1>14, <1>15, <1>18, <1>19 DEF WeightsInv, NoHeirsYet, RungsInv, GensInv

LEMMA StartSearchKeepsWeights == WeightsInv(sup) /\ SupInv(sup) /\ StartSearch => WeightsInv(sup')
<1>1. StartSearch => sup.phase = "3B" /\ sup.turn = <<>>
  BY DEF StartSearch
<1> QED
  BY <1>1, SearchIsSeeded, SeededKeepsWeights

LEMMA StartChampionKeepsWeights == WeightsInv(sup) /\ SupInv(sup) /\ StartChampion => WeightsInv(sup')
<1> SUFFICES ASSUME WeightsInv(sup), SupInv(sup), StartChampion PROVE WeightsInv(sup')
  OBVIOUS
<1> DEFINE some == {i \in Live(sup) : sup.trials[i].path # <<>>}
           mature == {i \in some : sup.trials[i].epoch >= MatureEpochs}
           who == IF mature # {} THEN mature ELSE some
           from == Ranked(sup, who, AllTrials(sup))
           m == IF from = <<>> THEN 0 ELSE 1
           group == SubSeq(from, 1, m)
           u == sup'
<1>1. \E s \in Enter(sup, "3D") : u = [s EXCEPT !.group = group]
  BY DEF StartChampion
<1>2. IsState(sup) /\ ShapeInv(sup) /\ DOMAIN sup = SupFields
  BY DEF SupInv, WeightsInv, IsState
<1>3. who \subseteq DOMAIN sup.trials
  BY DEF Live
<1> HIDE DEF who
<1>4. from \in Seq(who) /\ IsInjective(from) /\ Len(from) \in Nat
  BY <1>2, <1>3, RankedTrials
<1> HIDE DEF from
<1>5. m \in Nat /\ m <= Len(from)
  <2>1. CASE from = <<>>
    BY <1>4, <2>1
  <2>2. CASE from # <<>>
    <3>1. Len(from) # 0
      BY <1>4, <2>2, EmptySeq
    <3> QED
      BY <1>4, <2>2, <3>1
  <2> QED
    BY <2>1, <2>2
<1> HIDE DEF m
<1>6. group \in Seq(DOMAIN sup.trials)
  <2>1. group \in Seq(who)
    BY <1>4, <1>5, LeadersAre
  <2> QED
    BY <1>3, <2>1, SeqMonotonic
<1> HIDE DEF group, u
<1>7. PICK s \in Enter(sup, "3D") : u = [s EXCEPT !.group = group]
  BY <1>1
<1>8. /\ DOMAIN s = SupFields /\ s.trials = sup.trials /\ s.disk = sup.disk /\ s.fresh = sup.fresh
      /\ s.left = sup.left /\ s.turn = <<>> /\ s.rung = 0 /\ s.phase = "3D"
  BY <1>2, EntersWith
<1>9. /\ SameTrials(sup, u) /\ u.fresh = sup.fresh /\ u.left = sup.left /\ u.turn = <<>> /\ u.rung = 0
      /\ u.phase = "3D" /\ u.group = group
  BY <1>7, <1>8 DEF SupFields, SameTrials
<1>10. 0 \in Nat /\ sup.left \in Int /\ <<>> \in Seq(DOMAIN sup.trials)
  BY <1>2 DEF ShapeInv
<1>11. WeightsInv(u)
  BY <1>6, <1>9, <1>10, LateKeepsWeights
<1> QED
  BY <1>11 DEF u

LEMMA FinalKeepsWeights == WeightsInv(sup) /\ SupInv(sup) /\ Final => WeightsInv(sup')
<1> SUFFICES ASSUME WeightsInv(sup), SupInv(sup), Final PROVE WeightsInv(sup')
  OBVIOUS
<1>1. \E last : sup' = [sup EXCEPT !.phase = "done", !.group = <<>>, !.final = last]
  BY DEF Final
<1>2. PICK last : sup' = [sup EXCEPT !.phase = "done", !.group = <<>>, !.final = last]
  BY <1>1
<1>3. ShapeInv(sup) /\ DOMAIN sup = SupFields
  BY DEF SupInv, WeightsInv, IsState
<1>4. /\ SameTrials(sup, sup') /\ sup'.fresh = sup.fresh /\ sup'.left = sup.left /\ sup'.turn = sup.turn
      /\ sup'.rung = sup.rung /\ sup'.phase = "done" /\ sup'.group = <<>>
  BY <1>2, <1>3 DEF SupFields, SameTrials
<1>5. /\ sup.rung \in Nat /\ sup.left \in Int /\ <<>> \in Seq(DOMAIN sup.trials)
      /\ sup.turn \in Seq(DOMAIN sup.trials)
  BY <1>3 DEF ShapeInv
<1> QED
  BY <1>4, <1>5, LateKeepsWeights

-----------------------------------------------------------------------------
(* Between two turns of a round, when the turn may also have gone to nobody. *)

Passing(s) ==
    /\ ShapeInv(s) /\ OwnInv(s) /\ KindsInv(s) /\ NoHeirsYet(s)
    /\ s.phase = "3B" => Candidates(s) \subseteq ToSet(s.group) /\ InRung(s)
    /\ s.phase = "3C" => Placed(s) /\ Level(s) /\ Lowest(s)

LEMMA PassingIs ==
    ASSUME NEW s
    PROVE  /\ WeightsInv(s) /\ s.turn # <<>> => Passing(s)
           /\ Passing(s) /\ s.turn # <<>> => WeightsInv(s)
BY DEF Passing, WeightsInv, RungsInv, GensInv

LEMMA CalmKeepsPassing == ASSUME NEW s, Passing(s), NEW u, Calm(s, u) PROVE Passing(u)
<1>1. ShapeInv(s) /\ OwnInv(s) /\ KindsInv(s) /\ NoHeirsYet(s)
  BY DEF Passing
<1>2. ShapeInv(u)
  BY <1>1, CalmKeepsShape
<1>3. OwnInv(u)
  BY <1>1, CalmKeepsOwn
<1>4. KindsInv(u) /\ NoHeirsYet(u)
  BY <1>1, CalmKeepsKinds
<1>5. u.group = s.group /\ (u.phase = s.phase \/ u.phase = "failed")
  BY DEF Calm, SameFrame
<1>6. u.phase = "3B" => Candidates(u) \subseteq ToSet(u.group) /\ InRung(u)
  BY <1>5, CalmKeepsRungs DEF Passing
<1>7. u.phase = "3C" => Placed(u) /\ Level(u) /\ Lowest(u)
  BY <1>5, CalmKeepsGens DEF Passing
<1> QED
  BY <1>2, <1>3, <1>4, <1>6, <1>7 DEF Passing

(* The trial whose turn it is does not train, and is pruned.                 *)
LEMMA DropKeepsGens ==
    ASSUME NEW s, NEW x, NEW u, NEW i, ShapeInv(s),
           Placed(s), Level(s), Lowest(s), s.turn # <<>>, i = s.turn[1], s.left > 0,
           x.trials = s.trials, x.group = s.group, x.turn = s.turn, x.open = s.open, x.left = s.left - 1,
           Calm(x, u), i \notin Live(u)
    PROVE  Placed(u) /\ Level(u) /\ Lowest(u)
<1>1. /\ Live(x) = Live(s) /\ Members(x) = Members(s)
      /\ \A j : Class(x, j) = Class(s, j) /\ (Heir(x, j) <=> Heir(s, j))
  BY DEF Live, Members, Class, Heir, Like
<1>2. x.left \in Nat
  BY DEF ShapeInv
<1>3. Placed(x) /\ Lowest(x)
  <2>1. Placed(x)
    BY <1>1, <1>2 DEF Placed
  <2>2. Lowest(x)
    BY <1>1 DEF Lowest
  <2> QED
    BY <2>1, <2>2
<1>4. Placed(u) /\ Lowest(u)
  BY <1>3, CalmKeepsGens
<1>5. u.group = s.group /\ u.turn = s.turn /\ u.open = s.open
  BY DEF Calm, SameFrame
<1>6. Members(u) \subseteq Members(s) /\ Live(u) \subseteq Live(s) /\ Live(s) \subseteq DOMAIN s.trials
  BY <1>1, <1>5, CalmLive DEF Members
<1>7. \A j \in Members(u) : Class(u, j) \subseteq Class(s, j) /\ Class(u, j) \subseteq Members(u) /\ j \in Class(u, j)
  BY <1>1, <1>6, CalmLive, LikeIs DEF Class, Members, Like
<1>8. \A j \in Members(u) : EndsAt(u, j) = EndsAt(s, j) /\ (Heir(u, j) <=> Heir(s, j))
  <2> TAKE j \in Members(u)
  <2>1. j # i /\ j \in DOMAIN s.trials
    BY <1>6 DEF Members
  <2>2. u.trials[j].epoch = s.trials[j].epoch /\ u.trials[j].path = s.trials[j].path
    BY <2>1, CalmLive
  <2>3. Due(u, j) = Due(s, j)
    BY <1>5, <2>1 DEF Due
  <2> QED
    BY <2>2, <2>3 DEF EndsAt, Heir
<1>9. Level(u)
  <2> SUFFICES ASSUME u.open, NEW j \in Members(u) PROVE Even(u, j) \/ Lone(u, j)
    BY DEF Level
  <2>1. Even(s, j) \/ Lone(s, j)
    BY <1>5, <1>6 DEF Level
  <2>2. Even(s, j) => Even(u, j)
    BY <1>7, <1>8 DEF Even
  <2>3. Lone(s, j) => Lone(u, j)
    <3>1. \A k \in Class(u, j) : k \in Class(s, j) /\ (Heir(u, k) <=> Heir(s, k))
      BY <1>7, <1>8
    <3> QED
      BY <3>1 DEF Lone
  <2> QED
    BY <2>1, <2>2, <2>3
<1> QED
  BY <1>4, <1>9

(* An epoch in turn, of a live trial that wants more.                        *)
LEMMA EpochKeepsWeights ==
    ASSUME NEW s, IsState(s), Passing(s), s.turn # <<>>, NEW i, i = Head(s.turn), i \in Live(s),
           s.phase = "3B" => s.trials[i].epoch < Resources[s.rung], s.phase = "3C" => s.left > 0,
           s.phase \in {"3B", "3C"},
           NEW x, IsState(x), x = [s EXCEPT !.left = @ - 1], NEW r \in TrainTrial(x, i)
    PROVE  WeightsInv(r.s)
<1>1. /\ x.trials = s.trials /\ x.disk = s.disk /\ x.group = s.group /\ x.turn = s.turn /\ x.open = s.open
      /\ x.left = s.left - 1 /\ x.rung = s.rung /\ x.fresh = s.fresh /\ x.phase = s.phase
  BY DEF IsState, SupFields
<1>2. ShapeInv(s) /\ OwnInv(s) /\ KindsInv(s) /\ NoHeirsYet(s) /\ i \in DOMAIN s.trials
  BY DEF Passing, Live
<1>3. i = s.turn[1]
  BY <1>2, HeadTailProperties DEF ShapeInv
<1>4. SameTrials(s, x)
  BY <1>1 DEF SameTrials
<1>5. ShapeInv(x) /\ OwnInv(x) /\ KindsInv(x) /\ NoHeirsYet(x)
  <2>1. ShapeInv(x)
    BY <1>1, <1>2 DEF ShapeInv
  <2>2. OwnInv(x)
    BY <1>2, <1>4, SameTrialsKeep
  <2>3. KindsInv(x)
    BY <1>1, <1>2 DEF KindsInv
  <2>4. NoHeirsYet(x)
    BY <1>1, <1>2, <1>4, SameTrialsKeep DEF NoHeirsYet
  <2> QED
    BY <2>1, <2>2, <2>3, <2>4
<1>6. Live(x) = Live(s) /\ Candidates(x) = Candidates(s) /\ i \in DOMAIN x.trials
  BY <1>1, <1>2, <1>4, SameTrialsKeep
<1>7. x.phase = "3B" => Candidates(x) \subseteq ToSet(x.group) /\ InRung(x)
  BY <1>1, <1>6 DEF Passing, InRung
<1> HIDE DEF Passing
<1>8. CASE Calm(x, r.s) /\ (i \in Live(r.s) => r.s.phase = "failed")
  <2> DEFINE u == r.s
  <2>1. ShapeInv(u)
    BY <1>5, <1>8, CalmKeepsShape
  <2>2. OwnInv(u)
    BY <1>5, <1>8, CalmKeepsOwn
  <2>3. KindsInv(u) /\ NoHeirsYet(u)
    BY <1>5, <1>8, CalmKeepsKinds
  <2>4. u.group = x.group /\ u.turn = x.turn /\ u.phase \in {x.phase, "failed"}
    BY <1>8 DEF Calm, SameFrame
  <2>5. u.phase = "3B" => Candidates(u) \subseteq ToSet(u.group) /\ InRung(u)
    BY <1>7, <1>8, <2>4, CalmKeepsRungs
  <2>6. u.phase = "3C" => Placed(u) /\ Level(u) /\ Lowest(u)
    <3> HAVE u.phase = "3C"
    <3>1. s.phase = "3C" /\ i \notin Live(u) /\ Calm(x, u)
      BY <1>1, <1>8, <2>4
    <3>2. Placed(s) /\ Level(s) /\ Lowest(s) /\ s.left > 0
      BY <3>1 DEF Passing
    <3> HIDE DEF u
    <3> QED
      BY <1>1, <1>2, <1>3, <3>1, <3>2, DropKeepsGens
  <2>7. Passing(u)
    BY <2>1, <2>2, <2>3, <2>5, <2>6 DEF Passing
  <2> QED
    BY <1>1, <2>4, <2>7, PassingIs
<1>9. CASE \E v : TrainStep(x, v, i) /\ Calm(v, r.s)
  <2>1. PICK v : TrainStep(x, v, i) /\ Calm(v, r.s)
    BY <1>9
  <2>2. ShapeInv(v)
    BY <1>2, <1>5, <1>6, <2>1, StepKeepsShape
  <2>3. OwnInv(v)
    BY <1>2, <1>5, <1>6, <2>1, StepKeepsOwn
  <2>4. KindsInv(v) /\ NoHeirsYet(v)
    BY <1>2, <1>5, <1>6, <2>1, StepKeepsKinds
  <2>5. v.group = x.group /\ v.turn = x.turn /\ v.phase = x.phase
    BY <2>1 DEF TrainStep
  <2>6. v.phase = "3B" => Candidates(v) \subseteq ToSet(v.group) /\ InRung(v)
    <3> HAVE v.phase = "3B"
    <3>1. InRung(x) /\ x.trials[i].epoch < Resources[x.rung] /\ i \in Live(x)
      BY <1>1, <1>6, <1>7, <2>5
    <3>2. InRung(v) /\ Candidates(v) = Candidates(x)
      BY <1>5, <1>6, <2>1, <3>1, StepKeepsRungs
    <3> QED
      BY <1>7, <2>5, <3>2
  <2>7. v.phase = "3C" => Placed(v) /\ Level(v) /\ Lowest(v)
    <3> HAVE v.phase = "3C"
    <3>1. s.phase = "3C"
      BY <1>1, <2>5
    <3>2. Placed(s) /\ Level(s) /\ Lowest(s) /\ s.left > 0
      BY <3>1 DEF Passing
    <3> QED
      BY <1>1, <1>2, <1>3, <1>5, <2>1, <3>2, StepKeepsGens
  <2>8. Passing(v)
    BY <2>2, <2>3, <2>4, <2>6, <2>7 DEF Passing
  <2>9. WeightsInv(v)
    BY <1>1, <2>5, <2>8, PassingIs
  <2> QED
    BY <2>1, <2>9, CalmKeepsWeights
<1> QED
  BY <1>6, <1>8, <1>9, TrainTrialComes

(* The turn passes on. *)
LEMMA NextIsPassing ==
    ASSUME NEW s, IsState(s), Passing(s), s.turn # <<>>, s.phase \in {"3B", "3C"},
           s.phase = "3C" /\ s.open /\ Head(s.turn) \in Live(s) => ~(s.left > 0),
           NEW x, x = [s EXCEPT !.turn = Tail(@), !.left = Perturb]
    PROVE  Passing(x)
<1>1. /\ x.trials = s.trials /\ x.disk = s.disk /\ x.group = s.group /\ x.turn = Tail(s.turn) /\ x.open = s.open
      /\ x.left = Perturb /\ x.rung = s.rung /\ x.fresh = s.fresh /\ x.phase = s.phase
  BY DEF IsState, SupFields
<1>2. ShapeInv(s) /\ OwnInv(s) /\ KindsInv(s) /\ NoHeirsYet(s)
  BY DEF Passing
<1>3. Head(s.turn) = s.turn[1] /\ x.turn \in Seq(DOMAIN s.trials)
  <2>1. s.turn \in Seq(DOMAIN s.trials) /\ s.turn # <<>>
    BY <1>2 DEF ShapeInv
  <2>2. Head(s.turn) = s.turn[1] /\ Tail(s.turn) \in Seq(DOMAIN s.trials)
    <3> DEFINE S == DOMAIN s.trials
               q == s.turn
    <3>1. q \in Seq(S) /\ q # <<>>
      BY <2>1
    <3> HIDE DEF S, q
    <3>2. Head(q) = q[1] /\ Tail(q) \in Seq(S)
      BY <3>1, HeadTailProperties, ElementOfSeq
    <3> QED
      BY <3>2 DEF S, q
  <2> QED
    BY <1>1, <2>2
<1>4. SameTrials(s, x)
  BY <1>1 DEF SameTrials
<1>5. Perturb \in Nat
  BY SupervisorOK
<1>6. ShapeInv(x)
  BY <1>1, <1>2, <1>3, <1>5 DEF ShapeInv
<1>7. OwnInv(x)
  BY <1>2, <1>4, SameTrialsKeep
<1>8. KindsInv(x)
  BY <1>1, <1>2 DEF KindsInv
<1>9. NoHeirsYet(x)
  BY <1>1, <1>2, <1>4, SameTrialsKeep DEF NoHeirsYet
<1>10. x.phase = "3B" => Candidates(x) \subseteq ToSet(x.group) /\ InRung(x)
  BY <1>1, <1>4, SameTrialsKeep DEF Passing, InRung
<1>11. x.phase = "3C" => Placed(x) /\ Level(x) /\ Lowest(x)
  <2> HAVE x.phase = "3C"
  <2>1. Placed(s) /\ Level(s) /\ Lowest(s) /\ (s.open /\ s.turn[1] \in Live(s) => ~(s.left > 0))
    BY <1>1, <1>3 DEF Passing
  <2> QED
    BY <1>1, <1>2, <2>1, PassKeepsGens
<1> QED
  BY <1>6, <1>7, <1>8, <1>9, <1>10, <1>11 DEF Passing

(* The end of a rung. *)
LEMMA RungEndKeepsWeights ==
    ASSUME NEW s, IsState(s), Passing(s), s.phase = "3B", s.turn = <<>>
    PROVE  WeightsInv(RungEnd(s))
<1> DEFINE live == ToSet(s.group) \cap Live(s)
           kept == Promoted(s, live)
           R == Resources[s.rung]
           failed == [s EXCEPT !.phase = "failed"]
           x == PruneAll(s, ToSet(s.group) \ kept)
           g == Among(s.group, kept)
           u == [x EXCEPT !.group = g]
<1>1. RungEnd(s) = failed \/ ((\A i \in live : ~(s.trials[i].epoch < R)) /\ RungEnd(s) = [x EXCEPT !.group = Among(@, kept)])
  BY Zenon DEF RungEnd
<1>2. ShapeInv(s) /\ OwnInv(s) /\ KindsInv(s) /\ NoHeirsYet(s) /\ Candidates(s) \subseteq ToSet(s.group) /\ InRung(s)
  BY DEF Passing
<1>3. CASE RungEnd(s) = failed
  <2>1. DOMAIN failed = SupFields /\ SameFrame(s, failed) /\ failed.phase = "failed" /\ failed.trials = s.trials
    BY DEF IsState, SupFields, SameFrame
  <2> HIDE DEF failed
  <2>2. Calm(s, failed)
    BY <2>1, CalmPlain
  <2>3. Passing(failed)
    BY <2>2, CalmKeepsPassing
  <2>4. WeightsInv(failed)
    BY <2>1, <2>3 DEF Passing, WeightsInv, RungsInv, GensInv
  <2> QED
    BY <1>3, <2>4
<1>4. CASE (\A i \in live : ~(s.trials[i].epoch < R)) /\ RungEnd(s) = [x EXCEPT !.group = Among(@, kept)]
  <2>1. Calm(s, x) /\ IsState(x)
    BY PrunesCalmly DEF Calm
  <2>2. Passing(x) /\ x.group = s.group /\ x.turn = <<>> /\ x.phase \in {"3B", "failed"}
    BY <2>1, CalmKeepsPassing DEF Calm, SameFrame
  <2>3. \A i \in Live(x) : i \in ToSet(s.group) => i \in kept
    <3> DEFINE away == ToSet(s.group) \ kept
               new == [i \in DOMAIN s.trials |-> IF i \in away THEN Prune(s.trials[i]) ELSE s.trials[i]]
    <3>1. x = [s EXCEPT !.trials = new]
      BY DEF PruneAll
    <3> HIDE DEF new, x, away
    <3>2. x.trials = new
      BY <3>1 DEF IsState, SupFields
    <3>3. ASSUME NEW i \in Live(x) PROVE i \notin away
      <4> SUFFICES ASSUME i \in away PROVE FALSE
        OBVIOUS
      <4>1. i \in DOMAIN new /\ ~new[i].pruned
        BY <3>2 DEF Live
      <4>2. i \in DOMAIN s.trials /\ new[i] = Prune(s.trials[i])
        BY <4>1 DEF new
      <4>3. DOMAIN s.trials[i] = TrialFields
        BY <4>2 DEF IsState, IsTrials
      <4> QED
        BY <4>1, <4>2, <4>3 DEF Prune, TrialFields
    <3> QED
      BY <3>3 DEF away
  <2> HIDE DEF x, kept
  <2>4. g \in Seq(DOMAIN s.trials) /\ ToSet(g) = ToSet(s.group) \cap kept
    BY <1>2, AmongAre DEF ShapeInv
  <2> HIDE DEF g
  <2>5. /\ u.trials = x.trials /\ u.disk = x.disk /\ u.group = g /\ u.turn = x.turn
        /\ u.rung = x.rung /\ u.left = x.left /\ u.fresh = x.fresh /\ u.phase = x.phase /\ RungEnd(s) = u
    BY <1>4, <2>1, <2>2 DEF IsState, SupFields, g
  <2> HIDE DEF u
  <2>6. SameTrials(x, u)
    BY <2>5 DEF SameTrials
  <2>7. ShapeInv(x) /\ OwnInv(x) /\ KindsInv(x) /\ NoHeirsYet(x)
    BY <2>2 DEF Passing
  <2>8. ShapeInv(u)
    <3>1. DOMAIN x.trials = DOMAIN s.trials
      BY <2>1 DEF Calm
    <3> QED
      BY <2>4, <2>5, <2>7, <3>1 DEF ShapeInv
  <2>9. OwnInv(u)
    BY <2>6, <2>7, SameTrialsKeep
  <2>10. KindsInv(u)
    BY <2>5, <2>7 DEF KindsInv
  <2>11. NoHeirsYet(u)
    BY <2>5, <2>6, <2>7, SameTrialsKeep DEF NoHeirsYet
  <2>12. RungsInv(u)
    <3>1. Candidates(u) = Candidates(x) /\ Candidates(x) \subseteq Candidates(s)
      BY <2>1, <2>6, SameTrialsKeep, CalmKeepsRungs
    <3>2. ASSUME NEW i \in Candidates(u)
          PROVE  i \in ToSet(g) /\ s.trials[i].epoch \in Nat /\ ~(s.trials[i].epoch < R)
                 /\ u.trials[i].epoch = s.trials[i].epoch
      <4>1. i \in Live(x) /\ i \in Candidates(s) /\ i \in ToSet(s.group) /\ i \in Live(s) /\ i \in DOMAIN s.trials
        BY <1>2, <3>1, <3>2 DEF Candidates, Live
      <4>2. i \in kept
        BY <2>3, <4>1
      <4>3. u.trials[i].epoch = s.trials[i].epoch
        BY <2>1, <2>5, <4>1, CalmLive
      <4> QED
        BY <1>2, <1>4, <2>4, <4>1, <4>2, <4>3 DEF ShapeInv
    <3>3. R \in Nat /\ s.rung \in 1 .. Len(Resources) /\ u.rung = s.rung
      BY <1>2, <2>1, <2>5, ResourcesAre DEF InRung, Calm, SameFrame
    <3>4. s.rung \in 0 .. Len(Resources)
      BY <3>3, ResourcesAre
    <3>5. ASSUME NEW i \in Candidates(u), NEW j \in Candidates(u) PROVE u.trials[i].epoch = u.trials[j].epoch
      <4>1. \/ s.trials[i].epoch = s.trials[j].epoch
            \/ s.trials[i].epoch <= R /\ s.trials[j].epoch <= R
        BY <1>2, <3>1 DEF InRung
      <4>2. /\ s.trials[i].epoch \in Nat /\ ~(s.trials[i].epoch < R) /\ u.trials[i].epoch = s.trials[i].epoch
            /\ s.trials[j].epoch \in Nat /\ ~(s.trials[j].epoch < R) /\ u.trials[j].epoch = s.trials[j].epoch
        BY <3>2
      <4> HIDE DEF R
      <4> QED
        BY <3>3, <4>1, <4>2
    <3>6. BetweenRungs(u)
      BY <3>3, <3>4, <3>5 DEF BetweenRungs
    <3>7. Candidates(u) \subseteq ToSet(u.group)
      BY <2>5, <3>2
    <3> QED
      BY <2>2, <2>5, <3>6, <3>7 DEF RungsInv
  <2>13. u.phase \in {"3B", "failed"}
    BY <2>2, <2>5
  <2> QED
    BY <2>5, <2>8, <2>9, <2>10, <2>11, <2>12, <2>13 DEF WeightsInv, GensInv
<1> QED
  BY <1>1, <1>3, <1>4

(* The end of a generation. *)
LEMMA ExploitKeepsWeights ==
    ASSUME NEW s, IsState(s), Passing(s), s.phase = "3C", s.turn = <<>>
    PROVE  WeightsInv(Exploit(s))
<1> DEFINE u == Exploit(s)
<1>1. ShapeInv(s) /\ OwnInv(s) /\ KindsInv(s) /\ Placed(s) /\ Level(s) /\ Lowest(s)
  BY DEF Passing
<1>2. \E heirs, donor : Copies(s, u, heirs, donor)
  BY <1>1, ExploitCopies
<1> HIDE DEF u
<1>3. PICK heirs, donor : Copies(s, u, heirs, donor)
  BY <1>2
<1>4. ShapeInv(u)
  BY <1>1, <1>3, CopiesKeepShape
<1>5. OwnInv(u)
  BY <1>1, <1>3, CopiesKeepOwn
<1>6. Placed(u) /\ Level(u)
  BY <1>1, <1>3, CopiesKeepGens
<1>7. DOMAIN u.trials = DOMAIN s.trials /\ u.phase = "3C" /\ u.turn = <<>>
  BY <1>3 DEF Copies, SameFrame
<1>8. KindsInv(u)
  <2>1. \A i \in DOMAIN s.trials : u.trials[i].kind = s.trials[i].kind /\ u.trials[i].family = s.trials[i].family
    BY <1>3, CopiesLive
  <2> QED
    BY <1>1, <1>7, <2>1 DEF KindsInv
<1>9. u.open => Lowest(u)
  BY <1>4, <1>6, <1>7, LevelIsLow
<1>10. WeightsInv(u)
  BY <1>4, <1>5, <1>6, <1>7, <1>8, <1>9 DEF WeightsInv, NoHeirsYet, RungsInv, GensInv
<1> QED
  BY <1>10 DEF u

(* An evaluation does not end the run. *)
LEMMA EvaluateKeepsPhase ==
    ASSUME NEW s, IsState(s), NEW i, NEW u \in Evaluate(s, i) PROVE u.phase = s.phase
<1>1. \/ u = s
      \/ \E x \in TrialScores : u = [s EXCEPT !.trials[i].score = x, !.trials[i].scored = TRUE]
      \/ u = PruneAll([s EXCEPT !.troubles = @ + 1], {i})
  BY Zenon DEF Evaluate, Rejected, Measured
<1>2. DOMAIN s = SupFields
  BY DEF IsState
<1>3. ASSUME NEW x, u = [s EXCEPT !.trials[i].score = x, !.trials[i].scored = TRUE] PROVE u.phase = s.phase
  BY <1>2, <1>3 DEF SupFields
<1>4. ASSUME u = PruneAll([s EXCEPT !.troubles = @ + 1], {i}) PROVE u.phase = s.phase
  <2> DEFINE x == [s EXCEPT !.troubles = @ + 1]
             new == [k \in DOMAIN x.trials |-> IF k \in {i} THEN Prune(x.trials[k]) ELSE x.trials[k]]
  <2>1. DOMAIN x = SupFields /\ x.phase = s.phase
    BY <1>2 DEF SupFields
  <2>2. u = [x EXCEPT !.trials = new]
    BY <1>4 DEF PruneAll
  <2> HIDE DEF x, new
  <2> QED
    BY <2>1, <2>2 DEF SupFields
<1> QED
  BY <1>1, <1>3, <1>4

LEMMA ScoredKeepsPhase ==
    ASSUME NEW s, IsState(s), NEW group, NEW u \in Scored(s, group) PROVE u.phase = s.phase
<1>1. \E new : u = [s EXCEPT !.trials = new]
  BY DEF Scored
<1> QED
  BY <1>1 DEF IsState, SupFields

LEMMA TrainTurnKeepsWeights == WeightsInv(sup) /\ SupInv(sup) /\ TrainTurn => WeightsInv(sup')
<1> SUFFICES ASSUME WeightsInv(sup), SupInv(sup), TrainTurn PROVE WeightsInv(sup')
  OBVIOUS
<1> DEFINE i == Head(sup.turn)
           more == IF sup.phase = "3B" THEN sup.trials[i].epoch < Resources[sup.rung] ELSE sup.left > 0
           next == [sup EXCEPT !.turn = Tail(@), !.left = Perturb]
           now == [sup EXCEPT !.left = @ - 1]
<1>1. /\ sup.phase \in {"3B", "3C"} /\ sup.turn # <<>>
      /\ IF more /\ ~sup.trials[i].pruned /\ sup.open
         THEN \E r \in TrainTrial(now, i) : sup' = r.s
         ELSE \E e \in Evaluate(next, i) :
                 IF e.turn # <<>> THEN sup' = e
                 ELSE \E s \in Scored(e, sup.group) :
                         sup' = IF sup.phase = "3B" THEN RungEnd(s) ELSE Exploit(s)
  BY Zenon DEF TrainTurn
<1>2. IsState(sup) /\ DOMAIN sup = SupFields /\ Passing(sup)
  BY <1>1, PassingIs DEF SupInv, IsState
<1>3. i \in DOMAIN sup.trials
  <2>1. sup.turn \in Seq(DOMAIN sup.trials) /\ sup.turn # <<>>
    BY <1>1, <1>2 DEF Passing, ShapeInv
  <2> QED
    BY <2>1, HeadTailProperties
<1>4. IsState(next) /\ IsState(now) /\ next.phase = sup.phase
  <2>1. DOMAIN next = SupFields /\ next.trials = sup.trials /\ next.phase = sup.phase
    BY <1>2 DEF SupFields
  <2>2. DOMAIN now = SupFields /\ now.trials = sup.trials
    BY <1>2 DEF SupFields
  <2> HIDE DEF next, now
  <2> QED
    BY <1>2, <2>1, <2>2 DEF IsState
<1>5. i \in Live(sup) <=> ~sup.trials[i].pruned
  BY <1>3 DEF Live
<1>6. CASE more /\ ~sup.trials[i].pruned /\ sup.open
  <2>1. \E r \in TrainTrial(now, i) : sup' = r.s
    BY <1>1, <1>6
  <2>2. /\ sup.phase = "3B" => sup.trials[i].epoch < Resources[sup.rung]
        /\ sup.phase = "3C" => sup.left > 0
    BY <1>6
  <2>3. i = Head(sup.turn) /\ now = [sup EXCEPT !.left = @ - 1] /\ i \in Live(sup)
    BY <1>5, <1>6
  <2> HIDE DEF now, i, more
  <2>4. PICK r \in TrainTrial(now, i) : sup' = r.s
    BY <2>1
  <2>5. WeightsInv(r.s)
    BY <1>1, <1>2, <1>4, <2>2, <2>3, EpochKeepsWeights
  <2> QED
    BY <2>4, <2>5
<1>7. CASE ~(more /\ ~sup.trials[i].pruned /\ sup.open)
  <2>1. \E e \in Evaluate(next, i) :
           IF e.turn # <<>> THEN sup' = e
           ELSE \E s \in Scored(e, sup.group) :
                   sup' = IF sup.phase = "3B" THEN RungEnd(s) ELSE Exploit(s)
    BY <1>1, <1>7
  <2>2. sup.phase = "3C" /\ sup.open /\ i \in Live(sup) => ~(sup.left > 0)
    BY <1>5, <1>7
  <2>3. next = [sup EXCEPT !.turn = Tail(@), !.left = Perturb]
    OBVIOUS
  <2>4. Passing(next)
    <3> HIDE DEF next, more
    <3> QED
      BY <1>1, <1>2, <2>2, <2>3, NextIsPassing
  <2> HIDE DEF next, now, i, more
  <2>5. PICK e \in Evaluate(next, i) :
           IF e.turn # <<>> THEN sup' = e
           ELSE \E s \in Scored(e, sup.group) :
                   sup' = IF sup.phase = "3B" THEN RungEnd(s) ELSE Exploit(s)
    BY <2>1
  <2>6. Calm(next, e)
    BY <1>4, EvaluateIsCalm
  <2>7. Passing(e) /\ IsState(e) /\ e.phase \in {sup.phase, "failed"}
    BY <1>4, <2>4, <2>6, CalmKeepsPassing DEF Calm
  <2>8. CASE e.turn # <<>>
    BY <2>5, <2>7, <2>8, PassingIs
  <2>9. CASE e.turn = <<>>
    <3>1. PICK s \in Scored(e, sup.group) : sup' = IF sup.phase = "3B" THEN RungEnd(s) ELSE Exploit(s)
      BY <2>5, <2>9
    <3>2. Calm(e, s)
      BY <2>7, ScoredIsCalm
    <3>3. Passing(s) /\ IsState(s) /\ s.turn = <<>> /\ s.phase \in {e.phase, "failed"}
      BY <2>7, <2>9, <3>2, CalmKeepsPassing DEF Calm, SameFrame
    <3>4. s.phase = sup.phase
      <4>1. e.phase = next.phase
        BY <1>4, EvaluateKeepsPhase
      <4>2. s.phase = e.phase
        BY <2>7, ScoredKeepsPhase
      <4> QED
        BY <1>4, <4>1, <4>2
    <3> QED
      BY <1>1, <3>1, <3>3, <3>4, RungEndKeepsWeights, ExploitKeepsWeights
  <2> QED
    BY <2>8, <2>9
<1> QED
  BY <1>6, <1>7

LEMMA WeightsStart == SupervisorInit => WeightsInv(sup)
<1> SUFFICES ASSUME SupervisorInit PROVE WeightsInv(sup)
  OBVIOUS
<1>1. /\ sup.trials = <<>> /\ sup.phase = "3A" /\ sup.rung = 0 /\ sup.left = 0 /\ sup.fresh = 1
      /\ sup.group = <<>> /\ sup.turn = <<>>
  BY DEF SupervisorInit
<1>2. DOMAIN sup.trials = {} /\ DOMAIN sup.trials = 1 .. 0
  BY <1>1
<1>3. ShapeInv(sup)
  <2>1. <<>> \in Seq(DOMAIN sup.trials)
    OBVIOUS
  <2> QED
    BY <1>1, <1>2, <2>1 DEF ShapeInv
<1>4. Live(sup) = {}
  BY <1>2 DEF Live
<1>5. OwnInv(sup)
  BY <1>4 DEF OwnInv
<1>6. KindsInv(sup)
  BY <1>1, <1>2 DEF KindsInv
<1>7. NoHeirsYet(sup)
  BY <1>4 DEF NoHeirsYet
<1> QED
  BY <1>1, <1>3, <1>5, <1>6, <1>7 DEF WeightsInv, RungsInv, GensInv

LEMMA OwnIsShown == ASSUME NEW s, OwnInv(s) PROVE
    \A i \in Live(s) :
       /\ s.trials[i].trainer # 0 => s.disk[s.trials[i].path] = s.trials[i].trainer
       /\ s.trials[i].path # <<>> => Compatible(s.trials[s.trials[i].path[1]], s.trials[i])
<1> TAKE i \in Live(s)
<1>1. Shown(s, i)
  BY DEF OwnInv
<1>2. CASE s.trials[i].path = <<>>
  BY <1>1, <1>2 DEF Shown
<1>3. CASE s.trials[i].path # <<>>
  <2>1. PICK o \in DOMAIN s.trials : /\ s.trials[i].path = <<o, s.trials[i].epoch>> /\ Like(s, o, i)
                                     /\ s.disk[s.trials[i].path] = s.trials[i].trainer
    BY <1>1, <1>3 DEF Shown
  <2>2. s.trials[i].path[1] = o
    BY <2>1
  <2> QED
    BY <2>1, <2>2 DEF Like
<1> QED
  BY <1>2, <1>3

(* A live trial trains on the weights that it shows, and they come from a    *)
(* trial whose networks are like its own: for any families, rungs,           *)
(* populations, generations and troubles, through pruning, the exploits of   *)
(* the search and the names of checkpoints that come round again.            *)
THEOREM WeightsAreItsOwnHolds == SupervisorSpec => []WeightsAreItsOwn
<1> DEFINE Inv == WeightsInv(sup) /\ SupInv(sup)
<1>1. SupervisorInit => Inv
  BY WeightsStart, SupervisorStarts
<1>2. Inv /\ [SupervisorNext]_sup => Inv'
  <2>1. Inv /\ UNCHANGED sup => Inv'
    <3> SUFFICES ASSUME Inv, sup' = sup PROVE WeightsInv(sup') /\ SupInv(sup')
      BY Zenon DEF SupInv, IsState, Quiet, WeightsInv, ShapeInv, OwnInv, KindsInv, NoHeirsYet, RungsInv, GensInv
    <3> QED
      BY Zenon
  <2>2. Inv /\ SupervisorNext => Inv'
    <3> SUFFICES ASSUME Inv, SupervisorNext PROVE Inv'
      OBVIOUS
    <3>1. SupInv(sup)'
      BY CalibrateKeeps, StartRungsKeeps, StartSearchKeeps, TrainTurnKeeps, TrainChampionKeeps, OthersKeep
         DEF SupervisorNext
    <3>2. WeightsInv(sup')
      BY DeadlineKeepsWeights, CalibrateKeepsWeights, StartRungsKeepsWeights, StartRoundKeepsWeights,
         TrainTurnKeepsWeights, StartSearchKeepsWeights, StartChampionKeepsWeights, TrainChampionKeepsWeights,
         FinalKeepsWeights DEF SupervisorNext
    <3>3. WeightsInv(sup)'
      BY <3>2
    <3> QED
      BY <3>1, <3>3
  <2> QED
    BY <2>1, <2>2
<1>3. Inv => WeightsAreItsOwn
  <2> SUFFICES ASSUME Inv PROVE WeightsAreItsOwn
    OBVIOUS
  <2>1. OwnInv(sup)
    BY DEF WeightsInv
  <2> QED
    BY <2>1, OwnIsShown DEF WeightsAreItsOwn, TrainsWhatItShows, HeirsFit
<1> QED
  BY <1>1, <1>2, <1>3, PTL DEF SupervisorSpec
=============================================================================
