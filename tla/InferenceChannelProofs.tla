---------------------- MODULE InferenceChannelProofs ----------------------
(* Proofs about the inference server, for every number of workers, every     *)
(* batch limit and every set of workers that time out or die: what a worker *)
(* is told, the service it implements, what the server survives, which       *)
(* weights it ends up with, and that a batch hands every row its answer.     *)
EXTENDS InferenceChannel, ServerLifecycle, BatchLayout, SequenceTheorems, FiniteSetTheorems, TLAPS

USE DEF Workers, Ids, Modes, WorkerPCs, ServerPCs, Mode

LEMMA CountsArePositive == \A n \in Counts : n \in Nat /\ n > 0
BY ConstantsOK

LEMMA CountsAreNat == Counts \cup {0} \subseteq Nat
BY ConstantsOK

(* The sequence number of the next request is again a number of the field.   *)
LEMMA NextIdIsAnId == \A id \in Ids : NextId(id) \in Ids
BY ConstantsOK DEF NextId

(* What the server adds up while it drains or builds stays a number. *)
LEMMA TotalsAddUp ==
    ASSUME TypeOK, NEW w \in Workers
    PROVE  total + reqCount[w] \in Nat
<1>1. reqCount[w] \in Nat
      BY CountsAreNat DEF TypeOK
<1>2. total \in Nat
      BY DEF TypeOK
<1> QED
    BY <1>1, <1>2

(* Every state variable keeps its type along every behaviour. *)
LEMMA TypeStep == TypeOK /\ [Next]_vars => TypeOK'
<1> SUFFICES ASSUME TypeOK, [Next]_vars PROVE TypeOK'
    OBVIOUS
<1> USE ConstantsOK, CountsAreNat DEF TypeOK, Goto, callVars, slotVars, serverVars
<1>1. ASSUME NEW w \in Workers, BeginCall(w) PROVE TypeOK'
  <2>1. NextId(wreq[w]) \in Ids
        BY NextIdIsAnId
  <2>2. wreq' \in [Workers -> Ids]
        BY <1>1, <2>1 DEF BeginCall
  <2>3. wcount' \in [Workers -> Counts \cup {0}]
        BY <1>1 DEF BeginCall
  <2> QED
      BY <1>1, <2>2, <2>3 DEF BeginCall
<1>2. ASSUME NEW w \in Workers, WritePayload(w) PROVE TypeOK'
      BY <1>2 DEF WritePayload
<1>3. ASSUME NEW w \in Workers, WriteHeader(w) PROVE TypeOK'
      BY <1>3 DEF WriteHeader
<1>4. ASSUME NEW w \in Workers, RingDoorbell(w) PROVE TypeOK'
      BY <1>4 DEF RingDoorbell
<1>5. ASSUME NEW w \in Workers, WakeUp(w) PROVE TypeOK'
      BY <1>5 DEF WakeUp
<1>6. ASSUME NEW w \in Workers, GiveUp(w) PROVE TypeOK'
      BY <1>6 DEF GiveUp
<1>7. ASSUME NEW w \in Workers, AcknowledgeAnswer(w) PROVE TypeOK'
      BY <1>7 DEF AcknowledgeAnswer
<1>8. ASSUME NEW w \in Workers, FinishRead(w) PROVE TypeOK'
      BY <1>8 DEF FinishRead
<1>9. ASSUME NEW w \in Workers, Respawn(w) PROVE TypeOK'
      BY <1>9 DEF Respawn
<1>10. CASE Poll
      BY <1>10, SMTT(60) DEF Poll
<1>11. CASE DrainTake
  <2>1. cur \in Workers /\ cur + 1 \in 0 .. NumWorkers
        BY <1>11 DEF DrainTake
  <2>2. total' = total + reqCount[cur]
        BY <1>11 DEF DrainTake
  <2>3. total' \in Nat
        BY <2>1, <2>2, TotalsAddUp
  <2> QED
      BY <1>11, <2>1, <2>3 DEF DrainTake
<1>12. CASE DrainSkip
  <2>1. cur \in Workers /\ cur + 1 \in 0 .. NumWorkers
        BY <1>12 DEF DrainSkip
  <2>2. reqReady' \in [Workers -> BOOLEAN]
        BY <1>12, <2>1 DEF DrainSkip
  <2> QED
      BY <1>12, <2>1, <2>2 DEF DrainSkip
<1>13. CASE DrainEnd
  <2>1. CASE ready = {}
        BY <1>13, <2>1 DEF DrainEnd
  <2>2. CASE ready # {}
        BY <1>13, <2>2 DEF DrainEnd, SameModeAs, IsFirst
  <2> QED
      BY <2>1, <2>2
<1>14. ASSUME NEW w \in Workers, Build(w) PROVE TypeOK'
  <2>1. total' = total + reqCount[w]
        BY <1>14 DEF Build
  <2>2. total' \in Nat
        BY <2>1, TotalsAddUp
  <2>3. got' \in [Workers -> Ids]
        BY <1>14 DEF Build
  <2> QED
      BY <1>14, <2>2, <2>3 DEF Build, Advance
<1>15. ASSUME NEW w \in Workers, ClearDoorbell(w) PROVE TypeOK'
      BY <1>15 DEF ClearDoorbell, Advance
<1>16. CASE Forward
      BY <1>16 DEF Forward
<1>17. ASSUME NEW w \in Workers, Scatter(w) PROVE TypeOK'
      BY <1>17 DEF Scatter, Advance
<1>18. ASSUME NEW w \in Workers, Signal(w) PROVE TypeOK'
      BY <1>18 DEF Signal
<1>19. CASE Die
      BY <1>19 DEF Die
<1>20. CASE UNCHANGED vars
      BY <1>20 DEF vars
<1> QED
    BY <1>1, <1>2, <1>3, <1>4, <1>5, <1>6, <1>7, <1>8, <1>9, <1>10, <1>11,
       <1>12, <1>13, <1>14, <1>15, <1>16, <1>17, <1>18, <1>19, <1>20
    DEF Next, ServerStep, WorkerStep

THEOREM TypeCorrect == Spec => []TypeOK
<1>1. Init => TypeOK
      BY ConstantsOK DEF Init, TypeOK
<1> QED
    BY <1>1, TypeStep, PTL DEF Spec

-----------------------------------------------------------------------------
(* The inductive invariant, one lemma per action.                            *)

InStep(w) == SlotOK(w) /\ BatchOK(w) /\ WaitsForSomething(w)

LEMMA BeginCallKeeps ==
    ASSUME IInv, TypeOK', NEW w \in Workers, BeginCall(w)
    PROVE  IInv'
<1> USE ConstantsOK DEF IInv, TypeOK, Goto, callVars, slotVars, serverVars
<1>1. LoopOK'
      BY DEF BeginCall, LoopOK
<1>2. ASSUME NEW v \in Workers, ~gaveUp'[v] PROVE InStep(v)'
  <2>1. ~gaveUp[v] /\ InStep(v) /\ LoopOK
        BY <1>2 DEF BeginCall, InStep
  <2>2. SlotOK(v)'
    <3>1. CASE v = w
          BY <3>1, <1>2, <2>1 DEF BeginCall, InStep, SlotOK, BatchOK, LoopOK
    <3>2. CASE v # w
          BY <3>2, <1>2, <2>1 DEF BeginCall, InStep, SlotOK, BatchOK, LoopOK
    <3> QED
        BY <3>1, <3>2
  <2>3. BatchOK(v)'
    <3>1. CASE v = w
          BY <3>1, <1>2, <2>1 DEF BeginCall, InStep, SlotOK, BatchOK, LoopOK
    <3>2. CASE v # w
          BY <3>2, <1>2, <2>1 DEF BeginCall, InStep, SlotOK, BatchOK, LoopOK
    <3> QED
        BY <3>1, <3>2
  <2>4. WaitsForSomething(v)'
        BY <1>2, <2>1 DEF BeginCall, InStep, SlotOK, BatchOK, LoopOK, WaitsForSomething, InFlight
  <2> QED
      BY <2>2, <2>3, <2>4 DEF InStep
<1> QED
    BY <1>1, <1>2 DEF InStep

LEMMA WritePayloadKeeps ==
    ASSUME IInv, TypeOK', NEW w \in Workers, WritePayload(w)
    PROVE  IInv'
<1> USE ConstantsOK DEF IInv, TypeOK, Goto, callVars, slotVars, serverVars
<1>1. LoopOK'
      BY DEF WritePayload, LoopOK
<1>2. ASSUME NEW v \in Workers, ~gaveUp'[v] PROVE InStep(v)'
  <2>1. ~gaveUp[v] /\ InStep(v) /\ LoopOK
        BY <1>2 DEF WritePayload, InStep
  <2>2. SlotOK(v)'
        BY <1>2, <2>1 DEF WritePayload, InStep, SlotOK, BatchOK, LoopOK
  <2>3. BatchOK(v)'
        BY <1>2, <2>1 DEF WritePayload, InStep, SlotOK, BatchOK, LoopOK
  <2>4. WaitsForSomething(v)'
        BY <1>2, <2>1 DEF WritePayload, InStep, SlotOK, BatchOK, LoopOK, WaitsForSomething, InFlight
  <2> QED
      BY <2>2, <2>3, <2>4 DEF InStep
<1> QED
    BY <1>1, <1>2 DEF InStep

LEMMA WriteHeaderKeeps ==
    ASSUME IInv, TypeOK', NEW w \in Workers, WriteHeader(w)
    PROVE  IInv'
<1> USE ConstantsOK DEF IInv, TypeOK, Goto, callVars, slotVars, serverVars
<1>1. LoopOK'
      BY DEF WriteHeader, LoopOK
<1>2. ASSUME NEW v \in Workers, ~gaveUp'[v] PROVE InStep(v)'
  <2>1. ~gaveUp[v] /\ InStep(v) /\ LoopOK
        BY <1>2 DEF WriteHeader, InStep
  <2>2. SlotOK(v)'
        BY <1>2, <2>1, SMTT(60) DEF WriteHeader, InStep, SlotOK, BatchOK, LoopOK
  <2>3. BatchOK(v)'
        BY <1>2, <2>1, SMTT(60) DEF WriteHeader, InStep, SlotOK, BatchOK, LoopOK
  <2>4. WaitsForSomething(v)'
        BY <1>2, <2>1 DEF WriteHeader, InStep, SlotOK, BatchOK, LoopOK, WaitsForSomething, InFlight
  <2> QED
      BY <2>2, <2>3, <2>4 DEF InStep
<1> QED
    BY <1>1, <1>2 DEF InStep

LEMMA RingDoorbellKeeps ==
    ASSUME IInv, TypeOK', NEW w \in Workers, RingDoorbell(w)
    PROVE  IInv'
<1> USE ConstantsOK DEF IInv, TypeOK, Goto, callVars, slotVars, serverVars
<1>1. LoopOK'
      BY DEF RingDoorbell, LoopOK
<1>2. ASSUME NEW v \in Workers, ~gaveUp'[v] PROVE InStep(v)'
  <2>1. ~gaveUp[v] /\ InStep(v) /\ LoopOK
        BY <1>2 DEF RingDoorbell, InStep
  <2>2. SlotOK(v)'
    <3>1. CASE v = w
          BY <3>1, <1>2, <2>1 DEF RingDoorbell, InStep, SlotOK, BatchOK, LoopOK
    <3>2. CASE v # w
          BY <3>2, <1>2, <2>1 DEF RingDoorbell, InStep, SlotOK, BatchOK, LoopOK
    <3> QED
        BY <3>1, <3>2
  <2>3. BatchOK(v)'
    <3>1. CASE v = w
          BY <3>1, <1>2, <2>1 DEF RingDoorbell, InStep, SlotOK, BatchOK, LoopOK
    <3>2. CASE v # w
          BY <3>2, <1>2, <2>1 DEF RingDoorbell, InStep, SlotOK, BatchOK, LoopOK
    <3> QED
        BY <3>1, <3>2
  <2>4. WaitsForSomething(v)'
        BY <1>2, <2>1 DEF RingDoorbell, InStep, SlotOK, BatchOK, LoopOK, WaitsForSomething, InFlight
  <2> QED
      BY <2>2, <2>3, <2>4 DEF InStep
<1> QED
    BY <1>1, <1>2 DEF InStep

LEMMA WakeUpKeeps ==
    ASSUME IInv, TypeOK', NEW w \in Workers, WakeUp(w)
    PROVE  IInv'
<1> USE ConstantsOK DEF IInv, TypeOK, Goto, callVars, slotVars, serverVars
<1>1. LoopOK'
      BY DEF WakeUp, LoopOK
<1>2. ASSUME NEW v \in Workers, ~gaveUp'[v] PROVE InStep(v)'
  <2>1. ~gaveUp[v] /\ InStep(v) /\ LoopOK
        BY <1>2 DEF WakeUp, InStep
  <2>2. SlotOK(v)'
        BY <1>2, <2>1 DEF WakeUp, InStep, SlotOK, BatchOK, LoopOK
  <2>3. BatchOK(v)'
        BY <1>2, <2>1, SMTT(60) DEF WakeUp, InStep, SlotOK, BatchOK, LoopOK
  <2>4. WaitsForSomething(v)'
        BY <1>2, <2>1 DEF WakeUp, InStep, SlotOK, BatchOK, LoopOK, WaitsForSomething, InFlight
  <2> QED
      BY <2>2, <2>3, <2>4 DEF InStep
<1> QED
    BY <1>1, <1>2 DEF InStep

LEMMA GiveUpKeeps ==
    ASSUME IInv, TypeOK', NEW w \in Workers, GiveUp(w)
    PROVE  IInv'
<1> USE ConstantsOK DEF IInv, TypeOK, Goto, callVars, slotVars, serverVars
<1>1. LoopOK'
      BY DEF GiveUp, LoopOK
<1>2. ASSUME NEW v \in Workers, ~gaveUp'[v] PROVE InStep(v)'
  <2>1. ~gaveUp[v] /\ InStep(v) /\ LoopOK
        BY <1>2 DEF GiveUp, InStep
  <2>2. SlotOK(v)'
        BY <1>2, <2>1 DEF GiveUp, InStep, SlotOK, BatchOK, LoopOK
  <2>3. BatchOK(v)'
        BY <1>2, <2>1 DEF GiveUp, InStep, SlotOK, BatchOK, LoopOK
  <2>4. WaitsForSomething(v)'
        BY <1>2, <2>1 DEF GiveUp, InStep, SlotOK, BatchOK, LoopOK, WaitsForSomething, InFlight
  <2> QED
      BY <2>2, <2>3, <2>4 DEF InStep
<1> QED
    BY <1>1, <1>2 DEF InStep

LEMMA AcknowledgeAnswerKeeps ==
    ASSUME IInv, TypeOK', NEW w \in Workers, AcknowledgeAnswer(w)
    PROVE  IInv'
<1> USE ConstantsOK DEF IInv, TypeOK, Goto, callVars, slotVars, serverVars
<1>1. LoopOK'
      BY DEF AcknowledgeAnswer, LoopOK
<1>2. ASSUME NEW v \in Workers, ~gaveUp'[v] PROVE InStep(v)'
  <2>1. ~gaveUp[v] /\ InStep(v) /\ LoopOK
        BY <1>2 DEF AcknowledgeAnswer, InStep
  <2>2. SlotOK(v)'
    <3>1. CASE v = w
          BY <3>1, <1>2, <2>1 DEF AcknowledgeAnswer, InStep, SlotOK
    <3>2. CASE v # w
          BY <3>2, <1>2, <2>1 DEF AcknowledgeAnswer, InStep, SlotOK
    <3> QED
        BY <3>1, <3>2
  <2>3. BatchOK(v)'
    <3>1. CASE v = w
          BY <3>1, <1>2, <2>1 DEF AcknowledgeAnswer, InStep, SlotOK, BatchOK, LoopOK
    <3>2. CASE v # w
          BY <3>2, <1>2, <2>1 DEF AcknowledgeAnswer, InStep, SlotOK, BatchOK, LoopOK
    <3> QED
        BY <3>1, <3>2
  <2>4. WaitsForSomething(v)'
        BY <1>2, <2>1 DEF AcknowledgeAnswer, InStep, SlotOK, BatchOK, LoopOK, WaitsForSomething, InFlight
  <2> QED
      BY <2>2, <2>3, <2>4 DEF InStep
<1> QED
    BY <1>1, <1>2 DEF InStep

LEMMA FinishReadKeeps ==
    ASSUME IInv, TypeOK', NEW w \in Workers, FinishRead(w)
    PROVE  IInv'
<1> USE ConstantsOK DEF IInv, TypeOK, Goto, callVars, slotVars, serverVars
<1>1. LoopOK'
      BY DEF FinishRead, LoopOK
<1>2. ASSUME NEW v \in Workers, ~gaveUp'[v] PROVE InStep(v)'
  <2>1. ~gaveUp[v] /\ InStep(v) /\ LoopOK
        BY <1>2 DEF FinishRead, InStep
  <2>2. SlotOK(v)'
        BY <1>2, <2>1 DEF FinishRead, InStep, SlotOK, BatchOK, LoopOK
  <2>3. BatchOK(v)'
        BY <1>2, <2>1 DEF FinishRead, InStep, SlotOK, BatchOK, LoopOK
  <2>4. WaitsForSomething(v)'
        BY <1>2, <2>1 DEF FinishRead, InStep, SlotOK, BatchOK, LoopOK, WaitsForSomething, InFlight
  <2> QED
      BY <2>2, <2>3, <2>4 DEF InStep
<1> QED
    BY <1>1, <1>2 DEF InStep

LEMMA RespawnKeeps ==
    ASSUME IInv, TypeOK', NEW w \in Workers, Respawn(w)
    PROVE  IInv'
<1> USE ConstantsOK DEF IInv, TypeOK, Goto, callVars, slotVars, serverVars
<1>1. LoopOK'
      BY DEF Respawn, LoopOK
<1>2. ASSUME NEW v \in Workers, ~gaveUp'[v] PROVE InStep(v)'
  <2>1. ~gaveUp[v] /\ InStep(v) /\ LoopOK
        BY <1>2 DEF Respawn, InStep
  <2>2. SlotOK(v)'
        BY <1>2, <2>1 DEF Respawn, InStep, SlotOK, BatchOK, LoopOK
  <2>3. BatchOK(v)'
        BY <1>2, <2>1 DEF Respawn, InStep, SlotOK, BatchOK, LoopOK
  <2>4. WaitsForSomething(v)'
        BY <1>2, <2>1 DEF Respawn, InStep, SlotOK, BatchOK, LoopOK, WaitsForSomething, InFlight
  <2> QED
      BY <2>2, <2>3, <2>4 DEF InStep
<1> QED
    BY <1>1, <1>2 DEF InStep

LEMMA PollKeeps ==
    ASSUME IInv, TypeOK', Poll
    PROVE  IInv'
<1> USE ConstantsOK DEF IInv, TypeOK, Goto, callVars, slotVars, serverVars
<1>1. LoopOK'
      BY DEF Poll, LoopOK
<1>2. ASSUME NEW v \in Workers, ~gaveUp'[v] PROVE InStep(v)'
  <2>1. ~gaveUp[v] /\ InStep(v) /\ LoopOK
        BY <1>2 DEF Poll, InStep
  <2>2. SlotOK(v)'
        BY <1>2, <2>1 DEF Poll, InStep, SlotOK, BatchOK, LoopOK
  <2>3. BatchOK(v)'
        BY <1>2, <2>1 DEF Poll, InStep, SlotOK, BatchOK, LoopOK
  <2>4. WaitsForSomething(v)'
        BY <1>2, <2>1 DEF Poll, InStep, SlotOK, BatchOK, LoopOK, WaitsForSomething, InFlight
  <2> QED
      BY <2>2, <2>3, <2>4 DEF InStep
<1> QED
    BY <1>1, <1>2 DEF InStep

LEMMA DrainTakeKeeps ==
    ASSUME IInv, TypeOK', DrainTake
    PROVE  IInv'
<1> USE ConstantsOK DEF IInv, TypeOK, Goto, callVars, slotVars, serverVars
<1>1. LoopOK'
      BY DEF DrainTake, LoopOK
<1>2. ASSUME NEW v \in Workers, ~gaveUp'[v] PROVE InStep(v)'
  <2>1. ~gaveUp[v] /\ InStep(v) /\ LoopOK
        BY <1>2 DEF DrainTake, InStep
  <2>2. SlotOK(v)'
        BY <1>2, <2>1 DEF DrainTake, InStep, SlotOK, BatchOK, LoopOK
  <2>3. BatchOK(v)'
        BY <1>2, <2>1 DEF DrainTake, InStep, SlotOK, BatchOK, LoopOK
  <2>4. WaitsForSomething(v)'
        BY <1>2, <2>1 DEF DrainTake, InStep, SlotOK, BatchOK, LoopOK, WaitsForSomething, InFlight
  <2> QED
      BY <2>2, <2>3, <2>4 DEF InStep
<1> QED
    BY <1>1, <1>2 DEF InStep

LEMMA DrainSkipKeeps ==
    ASSUME IInv, TypeOK', DrainSkip
    PROVE  IInv'
<1> USE ConstantsOK DEF IInv, TypeOK, Goto, callVars, slotVars, serverVars
<1>1. LoopOK'
      BY DEF DrainSkip, LoopOK
<1>2. ASSUME NEW v \in Workers, ~gaveUp'[v] PROVE InStep(v)'
  <2>1. ~gaveUp[v] /\ InStep(v) /\ LoopOK
        BY <1>2 DEF DrainSkip, InStep
  <2>2. reqReady'[v] = reqReady[v]
    <3>1. reqReady[v] => reqCount[v] \in Counts
          BY <2>1 DEF InStep, SlotOK
    <3> QED
        BY <3>1, CountsArePositive DEF DrainSkip
  <2>3. SlotOK(v)'
        BY <2>1, <2>2 DEF DrainSkip, InStep, SlotOK
  <2>4. BatchOK(v)'
        BY <2>1, <2>2 DEF DrainSkip, InStep, BatchOK
  <2>5. WaitsForSomething(v)'
        BY <2>1, <2>2 DEF DrainSkip, InStep, WaitsForSomething, InFlight
  <2> QED
      BY <2>3, <2>4, <2>5 DEF InStep
<1> QED
    BY <1>1, <1>2 DEF InStep

LEMMA DrainedNobodyKeeps ==
    ASSUME IInv, TypeOK', DrainEnd, ready = {}
    PROVE  IInv'
<1> USE ConstantsOK DEF IInv, TypeOK, Goto, callVars, slotVars, serverVars
<1>1. LoopOK'
      BY DEF DrainEnd, LoopOK
<1>2. ASSUME NEW v \in Workers, ~gaveUp'[v] PROVE InStep(v)'
  <2>1. ~gaveUp[v] /\ InStep(v) /\ LoopOK
        BY <1>2 DEF DrainEnd, InStep
  <2>2. SlotOK(v)'
        BY <1>2, <2>1 DEF DrainEnd, InStep, SlotOK, BatchOK, LoopOK
  <2>3. BatchOK(v)'
        BY <1>2, <2>1 DEF DrainEnd, InStep, SlotOK, BatchOK, LoopOK
  <2>4. WaitsForSomething(v)'
        BY <1>2, <2>1 DEF DrainEnd, InStep, SlotOK, BatchOK, LoopOK, WaitsForSomething, InFlight
  <2> QED
      BY <2>2, <2>3, <2>4 DEF InStep
<1> QED
    BY <1>1, <1>2 DEF InStep

LEMMA DrainedSomeKeeps ==
    ASSUME IInv, TypeOK', DrainEnd, ready # {}
    PROVE  IInv'
<1> USE ConstantsOK DEF IInv, TypeOK, Goto, callVars, slotVars, serverVars
<1>1. LoopOK'
      BY DEF DrainEnd, SameModeAs, IsFirst, LoopOK
<1>2. ASSUME NEW v \in Workers, ~gaveUp'[v] PROVE InStep(v)'
  <2>1. ~gaveUp[v] /\ InStep(v) /\ LoopOK
        BY <1>2 DEF DrainEnd, InStep
  <2>2. SlotOK(v)'
        BY <1>2, <2>1 DEF DrainEnd, SameModeAs, IsFirst, InStep, SlotOK, BatchOK, LoopOK
  <2>3. BatchOK(v)'
        BY <1>2, <2>1 DEF DrainEnd, SameModeAs, IsFirst, InStep, SlotOK, BatchOK, LoopOK
  <2>4. WaitsForSomething(v)'
        BY <1>2, <2>1 DEF DrainEnd, SameModeAs, IsFirst, InStep, SlotOK, BatchOK, LoopOK, WaitsForSomething, InFlight
  <2> QED
      BY <2>2, <2>3, <2>4 DEF InStep
<1> QED
    BY <1>1, <1>2 DEF InStep

LEMMA DrainEndKeeps ==
    ASSUME IInv, TypeOK', DrainEnd
    PROVE  IInv'
BY DrainedNobodyKeeps, DrainedSomeKeeps

LEMMA BuildKeeps ==
    ASSUME IInv, TypeOK', NEW w \in Workers, Build(w)
    PROVE  IInv'
<1> USE ConstantsOK DEF IInv, TypeOK, Goto, callVars, slotVars, serverVars
<1>1. LoopOK'
      BY SMTT(60) DEF Build, Advance, IsNext, LoopOK
<1>2. ASSUME NEW v \in Workers, ~gaveUp'[v] PROVE InStep(v)'
  <2>1. ~gaveUp[v] /\ InStep(v) /\ LoopOK
        BY <1>2 DEF Build, InStep
  <2>2. SlotOK(v)'
        BY <1>2, <2>1 DEF Build, Advance, IsNext, InStep, SlotOK, BatchOK, LoopOK
  <2>3. BatchOK(v)'
    <3>1. /\ w \in todo /\ spc = "build" /\ ready' = ready
          /\ \/ spc' = "build" /\ todo' = todo \ {w} /\ todo # {w}
             \/ spc' = "clear" /\ todo' = ready /\ todo = {w}
          BY DEF Build, Advance, IsNext
    <3>2. v # w => /\ wpc'[v] = wpc[v] /\ resReady'[v] = resReady[v] /\ wreq'[v] = wreq[v]
                   /\ reqReady'[v] = reqReady[v] /\ got'[v] = got[v]
          BY DEF Build
    <3>3. /\ wpc'[w] = wpc[w] /\ resReady'[w] = resReady[w] /\ wreq'[w] = wreq[w]
          /\ reqReady[w]' = reqReady[w] /\ got'[w] = payload[w]
          BY DEF Build
    <3>4. CASE spc' = "build"
      <4>1. CASE v = w
            BY <4>1, <3>1, <3>3, <3>4, <2>1 DEF InStep, SlotOK, BatchOK, LoopOK
      <4>2. CASE v # w
            BY <4>2, <3>1, <3>2, <3>4, <2>1 DEF InStep, BatchOK, LoopOK
      <4> QED
          BY <4>1, <4>2
    <3>5. CASE spc' = "clear"
      <4>1. ASSUME v \in ready
            PROVE  wpc'[v] = "waiting" /\ ~resReady'[v] /\ got'[v] = wreq'[v] /\ reqReady'[v]
        <5>1. spc = "build" /\ wpc[v] = "waiting" /\ ~resReady[v]
              BY <4>1, <3>1, <2>1 DEF InStep, BatchOK
        <5>2. CASE v = w
          <6>1. reqReady[w] /\ payload[w] = wreq[w]
                BY <5>1, <5>2, <4>1, <3>1, <2>1 DEF InStep, SlotOK, BatchOK
          <6> QED
              BY <6>1, <5>1, <5>2, <3>3
        <5>3. CASE v # w
          <6>1. v \in ready \ todo
                BY <5>3, <4>1, <3>1, <3>5
          <6>2. got[v] = wreq[v] /\ reqReady[v]
                BY <6>1, <5>1, <2>1 DEF InStep, BatchOK
          <6> QED
              BY <6>2, <5>1, <5>3, <3>2
        <5> QED
            BY <5>2, <5>3
      <4>2. spc' = "clear" /\ ready' = ready /\ todo' = ready
            BY <3>1, <3>5
      <4> QED
          BY <4>1, <4>2 DEF BatchOK
    <3> QED
        BY <3>1, <3>4, <3>5
  <2>4. WaitsForSomething(v)'
        BY <1>2, <2>1 DEF Build, Advance, IsNext, InStep, SlotOK, BatchOK, LoopOK, WaitsForSomething, InFlight
  <2> QED
      BY <2>2, <2>3, <2>4 DEF InStep
<1> QED
    BY <1>1, <1>2 DEF InStep

LEMMA ClearDoorbellKeeps ==
    ASSUME IInv, TypeOK', NEW w \in Workers, ClearDoorbell(w)
    PROVE  IInv'
<1> USE ConstantsOK DEF IInv, TypeOK, Goto, callVars, slotVars, serverVars
<1>1. LoopOK'
      BY DEF ClearDoorbell, Advance, IsNext, LoopOK
<1>2. ASSUME NEW v \in Workers, ~gaveUp'[v] PROVE InStep(v)'
  <2>1. ~gaveUp[v] /\ InStep(v) /\ LoopOK
        BY <1>2 DEF ClearDoorbell, InStep
  <2>2. SlotOK(v)'
        BY <1>2, <2>1 DEF ClearDoorbell, Advance, IsNext, InStep, SlotOK, BatchOK, LoopOK
  <2>3. BatchOK(v)'
    <3>1. /\ w \in todo /\ spc = "clear" /\ ready' = ready
          /\ \/ spc' = "clear" /\ todo' = todo \ {w} /\ todo # {w}
             \/ spc' = "forward" /\ todo' = ready /\ todo = {w}
          BY DEF ClearDoorbell, Advance, IsNext
    <3>2. v # w => /\ wpc'[v] = wpc[v] /\ resReady'[v] = resReady[v] /\ wreq'[v] = wreq[v]
                   /\ reqReady'[v] = reqReady[v] /\ got'[v] = got[v]
          BY DEF ClearDoorbell
    <3>3. /\ wpc'[w] = wpc[w] /\ resReady'[w] = resReady[w] /\ wreq'[w] = wreq[w]
          /\ reqReady'[w] = FALSE /\ got'[w] = got[w]
          BY DEF ClearDoorbell
    <3>4. CASE spc' = "clear"
      <4>1. CASE v = w
            BY <4>1, <3>1, <3>3, <3>4, <2>1 DEF InStep, SlotOK, BatchOK, LoopOK
      <4>2. CASE v # w
            BY <4>2, <3>1, <3>2, <3>4, <2>1 DEF InStep, BatchOK, LoopOK
      <4> QED
          BY <4>1, <4>2
    <3>5. CASE spc' = "forward"
      <4>1. ASSUME v \in ready
            PROVE  wpc'[v] = "waiting" /\ ~resReady'[v] /\ got'[v] = wreq'[v] /\ ~reqReady'[v]
        <5>1. spc = "clear" /\ wpc[v] = "waiting" /\ ~resReady[v]
              BY <4>1, <3>1, <2>1 DEF InStep, BatchOK
        <5>2. CASE v = w
          <6>1. got[w] = wreq[w]
                BY <5>1, <5>2, <4>1, <3>1, <2>1 DEF InStep, BatchOK, LoopOK
          <6> QED
              BY <6>1, <5>1, <5>2, <3>3
        <5>3. CASE v # w
          <6>1. v \in ready \ todo
                BY <5>3, <4>1, <3>1, <3>5
          <6>2. got[v] = wreq[v] /\ ~reqReady[v]
                BY <6>1, <5>1, <2>1 DEF InStep, BatchOK
          <6> QED
              BY <6>2, <5>1, <5>3, <3>2
        <5> QED
            BY <5>2, <5>3
      <4>2. spc' = "forward" /\ ready' = ready /\ todo' = ready
            BY <3>1, <3>5
      <4> QED
          BY <4>1, <4>2 DEF BatchOK
    <3> QED
        BY <3>1, <3>4, <3>5
  <2>4. WaitsForSomething(v)'
        BY <1>2, <2>1 DEF ClearDoorbell, Advance, IsNext, InStep, SlotOK, BatchOK, LoopOK, WaitsForSomething, InFlight
  <2> QED
      BY <2>2, <2>3, <2>4 DEF InStep
<1> QED
    BY <1>1, <1>2 DEF InStep

LEMMA ForwardKeeps ==
    ASSUME IInv, TypeOK', Forward
    PROVE  IInv'
<1> USE ConstantsOK DEF IInv, TypeOK, Goto, callVars, slotVars, serverVars
<1>1. LoopOK'
      BY DEF Forward, LoopOK
<1>2. ASSUME NEW v \in Workers, ~gaveUp'[v] PROVE InStep(v)'
  <2>1. ~gaveUp[v] /\ InStep(v) /\ LoopOK
        BY <1>2 DEF Forward, InStep
  <2>2. SlotOK(v)'
        BY <1>2, <2>1 DEF Forward, InStep, SlotOK, BatchOK, LoopOK
  <2>3. BatchOK(v)'
        BY <1>2, <2>1 DEF Forward, InStep, SlotOK, BatchOK, LoopOK
  <2>4. WaitsForSomething(v)'
        BY <1>2, <2>1 DEF Forward, InStep, SlotOK, BatchOK, LoopOK, WaitsForSomething, InFlight
  <2> QED
      BY <2>2, <2>3, <2>4 DEF InStep
<1> QED
    BY <1>1, <1>2 DEF InStep

LEMMA ScatterKeeps ==
    ASSUME IInv, TypeOK', NEW w \in Workers, Scatter(w)
    PROVE  IInv'
<1> USE ConstantsOK DEF IInv, TypeOK, Goto, callVars, slotVars, serverVars
<1>1. LoopOK'
      BY DEF Scatter, Advance, IsNext, LoopOK
<1>2. ASSUME NEW v \in Workers, ~gaveUp'[v] PROVE InStep(v)'
  <2>1. ~gaveUp[v] /\ InStep(v) /\ LoopOK
        BY <1>2 DEF Scatter, InStep
  <2>2. SlotOK(v)'
    <3>1. CASE v = w
          BY <3>1, <1>2, <2>1 DEF Scatter, Advance, IsNext, InStep, SlotOK, BatchOK, LoopOK
    <3>2. CASE v # w
          BY <3>2, <1>2, <2>1 DEF Scatter, Advance, IsNext, InStep, SlotOK, BatchOK, LoopOK
    <3> QED
        BY <3>1, <3>2
  <2>3. BatchOK(v)'
    <3>1. CASE v = w
          BY <3>1, <1>2, <2>1 DEF Scatter, Advance, IsNext, InStep, SlotOK, BatchOK, LoopOK
    <3>2. CASE v # w
          BY <3>2, <1>2, <2>1, SMTT(60) DEF Scatter, Advance, IsNext, InStep, SlotOK, BatchOK, LoopOK
    <3> QED
        BY <3>1, <3>2
  <2>4. WaitsForSomething(v)'
        BY <1>2, <2>1 DEF Scatter, Advance, IsNext, InStep, SlotOK, BatchOK, LoopOK, WaitsForSomething, InFlight
  <2> QED
      BY <2>2, <2>3, <2>4 DEF InStep
<1> QED
    BY <1>1, <1>2 DEF InStep

LEMMA SignalKeeps ==
    ASSUME IInv, TypeOK', NEW w \in Workers, Signal(w)
    PROVE  IInv'
<1> USE ConstantsOK DEF IInv, TypeOK, Goto, callVars, slotVars, serverVars
<1>1. LoopOK'
      BY DEF Signal, IsNext, LoopOK
<1>2. ASSUME NEW v \in Workers, ~gaveUp'[v] PROVE InStep(v)'
  <2>1. ~gaveUp[v] /\ InStep(v) /\ LoopOK
        BY <1>2 DEF Signal, InStep
  <2>2. SlotOK(v)'
        BY <1>2, <2>1, SMTT(60) DEF Signal, IsNext, InStep, SlotOK, BatchOK, LoopOK
  <2>3. BatchOK(v)'
        BY <1>2, <2>1, SMTT(60) DEF Signal, IsNext, InStep, SlotOK, BatchOK, LoopOK
  <2>4. WaitsForSomething(v)'
        BY <1>2, <2>1 DEF Signal, IsNext, InStep, SlotOK, BatchOK, LoopOK, WaitsForSomething, InFlight
  <2> QED
      BY <2>2, <2>3, <2>4 DEF InStep
<1> QED
    BY <1>1, <1>2 DEF InStep

LEMMA DieKeeps ==
    ASSUME IInv, TypeOK', Die
    PROVE  IInv'
<1> USE ConstantsOK DEF IInv, TypeOK, Goto, callVars, slotVars, serverVars
<1>1. LoopOK'
      BY DEF Die, LoopOK
<1>2. ASSUME NEW v \in Workers, ~gaveUp'[v] PROVE InStep(v)'
  <2>1. ~gaveUp[v] /\ InStep(v) /\ LoopOK
        BY <1>2 DEF Die, InStep
  <2>2. SlotOK(v)'
        BY <1>2, <2>1 DEF Die, InStep, SlotOK, BatchOK, LoopOK
  <2>3. BatchOK(v)'
        BY <1>2, <2>1 DEF Die, InStep, SlotOK, BatchOK, LoopOK
  <2>4. WaitsForSomething(v)'
        BY <1>2, <2>1 DEF Die, InStep, SlotOK, BatchOK, LoopOK, WaitsForSomething, InFlight
  <2> QED
      BY <2>2, <2>3, <2>4 DEF InStep
<1> QED
    BY <1>1, <1>2 DEF InStep
-----------------------------------------------------------------------------
(* The invariant is kept by every step, and it holds along every behaviour.  *)

LEMMA InvStep == IInv /\ [Next]_vars => IInv'
<1> SUFFICES ASSUME IInv, [Next]_vars PROVE IInv'
    OBVIOUS
<1>1. TypeOK'
      BY TypeStep DEF IInv
<1>2. CASE Next
      BY <1>1, <1>2, BeginCallKeeps, WritePayloadKeeps, WriteHeaderKeeps,
         RingDoorbellKeeps, WakeUpKeeps, GiveUpKeeps, AcknowledgeAnswerKeeps,
         FinishReadKeeps, RespawnKeeps, PollKeeps, DrainTakeKeeps, DrainSkipKeeps,
         DrainEndKeeps, BuildKeeps, ClearDoorbellKeeps,
         ForwardKeeps, ScatterKeeps, SignalKeeps, DieKeeps
      DEF Next, ServerStep, WorkerStep
<1>3. CASE UNCHANGED vars
      BY <1>1, <1>3 DEF vars, callVars, slotVars, serverVars, IInv, LoopOK,
         SlotOK, BatchOK, WaitsForSomething, InFlight
<1> QED
    BY <1>2, <1>3

THEOREM Invariant == Spec => []IInv
<1>1. Init => IInv
      BY ConstantsOK DEF Init, IInv, TypeOK, LoopOK, SlotOK, BatchOK,
         WaitsForSomething, InFlight
<1> QED
    BY <1>1, InvStep, PTL DEF Spec

(* Whatever other workers and the server do, what a worker that never gave   *)
(* up reads is the evaluation of the batch it submitted.                     *)
THEOREM OwnAnswerHolds == Spec => []OwnAnswer
<1>1. IInv => OwnAnswer
      BY DEF IInv, OwnAnswer, SlotOK
<1> QED
    BY <1>1, Invariant, PTL

(* The server and such a worker are never in the same part of its slot.      *)
THEOREM NoSlotRaceHolds == Spec => []NoSlotRace
<1>1. IInv => NoSlotRace
      BY DEF IInv, NoSlotRace, BatchOK, LoopOK
<1> QED
    BY <1>1, Invariant, PTL

(* While the server lives, no request of such a worker is dropped.           *)
THEOREM NoLostRequestHolds == Spec => []NoLostRequest
<1>1. IInv => NoLostRequest
      BY DEF IInv, NoLostRequest, WaitsForSomething
<1> QED
    BY <1>1, Invariant, PTL

(* Both, as the run checks them.                                             *)
THEOREM SlotsAreSafeHolds == Spec => []SlotsAreSafe
<1>1. NoSlotRace /\ NoLostRequest => SlotsAreSafe
      BY DEF SlotsAreSafe
<1> QED
    BY <1>1, NoSlotRaceHolds, NoLostRequestHolds, PTL
-----------------------------------------------------------------------------
(* The channel implements InferenceService.                                  *)

LEMMA PhaseValues ==
    \A w \in Workers : PhaseOf(w) \in {"idle", "asked", "answered"}
BY DEF PhaseOf

(* A step that changes neither what a worker asked nor how it sees its slot  *)
(* stutters in InferenceService.                                             *)
LEMMA Stutter ==
    ASSUME UNCHANGED <<wreq, gaveUp>>,
           \A v \in Workers : PhaseOf(v)' = PhaseOf(v) /\ AnswerOf(v)' = AnswerOf(v)
    PROVE  UNCHANGED Service!vars
BY DEF Service!vars

(* A step that concerns a single worker: what the others see is unchanged.   *)
LEMMA OneWorker ==
    ASSUME NEW w \in Workers, TypeOK, TypeOK',
           \A v \in Workers \ {w} :
              PhaseOf(v)' = PhaseOf(v) /\ AnswerOf(v)' = AnswerOf(v)
    PROVE  /\ [v \in Workers |-> PhaseOf(v)]'
                = [[v \in Workers |-> PhaseOf(v)] EXCEPT ![w] = PhaseOf(w)']
           /\ [v \in Workers |-> AnswerOf(v)]'
                = [[v \in Workers |-> AnswerOf(v)] EXCEPT ![w] = AnswerOf(w)']
OBVIOUS

(* A worker that gave up is promised nothing.                                *)
LEMMA AbandonedStep ==
    ASSUME NEW w \in Workers, TypeOK, TypeOK', gaveUp[w], UNCHANGED <<wreq, gaveUp>>,
           \A v \in Workers \ {w} :
              PhaseOf(v)' = PhaseOf(v) /\ AnswerOf(v)' = AnswerOf(v)
    PROVE  Service!Next
<1>1. AnswerOf(w)' \in Ids
      BY ConstantsOK DEF AnswerOf, TypeOK
<1>2. PhaseOf(w)' \in {"idle", "asked", "answered"}
      BY DEF PhaseOf
<1>3. Service!Disturbed(w)
      BY <1>1, <1>2, OneWorker DEF Service!Disturbed, Service!Ids
<1> QED
    BY <1>3 DEF Service!Next, Service!Workers

(* A worker whose own slot and step are unchanged sees what it saw.          *)
LEMMA SameView ==
    ASSUME NEW v \in Workers, wpc'[v] = wpc[v], resReady'[v] = resReady[v],
           result'[v] = result[v]
    PROVE  PhaseOf(v)' = PhaseOf(v) /\ AnswerOf(v)' = AnswerOf(v)
BY DEF PhaseOf, AnswerOf

(* The server steps before the scatter touch nothing the worker can see. *)
LEMMA QuietStep ==
    ASSUME UNCHANGED <<wpc, resReady, result, wreq, gaveUp>>
    PROVE  UNCHANGED Service!vars
BY SameView, Stutter

LEMMA BeginCallMaps ==
    ASSUME IInv, TypeOK', NEW w \in Workers, BeginCall(w)
    PROVE  Service!Next
<1> USE DEF IInv, TypeOK, BeginCall, Goto
<1>1. \A v \in Workers \ {w} : PhaseOf(v)' = PhaseOf(v) /\ AnswerOf(v)' = AnswerOf(v)
  <2> SUFFICES ASSUME NEW v \in Workers, v # w
               PROVE  PhaseOf(v)' = PhaseOf(v) /\ AnswerOf(v)' = AnswerOf(v)
      OBVIOUS
  <2>1. wpc'[v] = wpc[v] /\ resReady'[v] = resReady[v] /\ result'[v] = result[v]
        BY DEF slotVars
  <2> QED
      BY <2>1, SameView
<1>2. PhaseOf(w) = "idle" /\ PhaseOf(w)' = "asked"
      BY DEF PhaseOf
<1>3. AnswerOf(w)' = AnswerOf(w)
      BY <1>2 DEF AnswerOf
<1>4. \E id \in Ids : wreq' = [wreq EXCEPT ![w] = id]
  <2>1. NextId(wreq[w]) \in Ids
        BY NextIdIsAnId
  <2> QED
      BY <2>1
<1>5. [v \in Workers |-> AnswerOf(v)]' = [v \in Workers |-> AnswerOf(v)]
      BY <1>1, <1>3
<1>6. [v \in Workers |-> PhaseOf(v)]'
        = [[v \in Workers |-> PhaseOf(v)] EXCEPT ![w] = "asked"]
      BY <1>1, <1>2, OneWorker
<1>7. gaveUp' = gaveUp
      OBVIOUS
<1>8. Service!Ask(w)
      BY <1>2, <1>4, <1>5, <1>6, <1>7 DEF Service!Ask, Service!Ids
<1> QED
    BY <1>8 DEF Service!Next, Service!Workers

(* Ringing is invisible to a worker in step; one that gave up may find an    *)
(* old answer waiting for it.                                                *)
LEMMA RingDoorbellMaps ==
    ASSUME IInv, TypeOK', NEW w \in Workers, RingDoorbell(w)
    PROVE  Service!Next \/ UNCHANGED Service!vars
<1> USE DEF IInv, TypeOK, RingDoorbell, Goto, callVars, slotVars
<1>1. \A v \in Workers \ {w} : PhaseOf(v)' = PhaseOf(v) /\ AnswerOf(v)' = AnswerOf(v)
      BY SameView
<1>2. CASE gaveUp[w]
      BY <1>1, <1>2, AbandonedStep
<1>3. CASE ~gaveUp[w]
  <2>1. ~resReady[w]
        BY <1>3 DEF SlotOK
  <2>2. PhaseOf(w) = "asked" /\ PhaseOf(w)' = "asked"
        BY <2>1 DEF PhaseOf
  <2>3. AnswerOf(w)' = AnswerOf(w)
        BY <2>2 DEF AnswerOf
  <2> QED
      BY <1>1, <2>2, <2>3, Stutter
<1> QED
    BY <1>2, <1>3

(* The steps inside a call that leave the worker's view of it alone. *)
LEMMA InsideCallMaps ==
    ASSUME IInv, TypeOK', NEW w \in Workers,
           WritePayload(w) \/ WriteHeader(w) \/ WakeUp(w) \/ AcknowledgeAnswer(w)
    PROVE  UNCHANGED Service!vars
<1> USE DEF IInv, TypeOK, Goto, callVars, slotVars,
            WritePayload, WriteHeader, WakeUp, AcknowledgeAnswer
<1>1. \A v \in Workers \ {w} : PhaseOf(v)' = PhaseOf(v) /\ AnswerOf(v)' = AnswerOf(v)
      BY SameView
<1>2. PhaseOf(w)' = PhaseOf(w)
      BY DEF PhaseOf
<1>3. AnswerOf(w)' = AnswerOf(w)
      BY <1>2 DEF AnswerOf
<1> QED
    BY <1>1, <1>2, <1>3, Stutter

LEMMA FinishReadMaps ==
    ASSUME IInv, TypeOK', NEW w \in Workers, FinishRead(w)
    PROVE  Service!Next
<1> USE DEF IInv, TypeOK, FinishRead, Goto, callVars, slotVars
<1>1. \A v \in Workers \ {w} : PhaseOf(v)' = PhaseOf(v) /\ AnswerOf(v)' = AnswerOf(v)
      BY SameView
<1>2. PhaseOf(w) = "answered" /\ PhaseOf(w)' = "idle"
      BY DEF PhaseOf
<1>3. AnswerOf(w)' = 0
      BY <1>2 DEF AnswerOf
<1>4. Service!Take(w)
      BY <1>1, <1>2, <1>3, OneWorker DEF Service!Take
<1> QED
    BY <1>4 DEF Service!Next, Service!Workers

LEMMA AbandonMaps ==
    ASSUME IInv, TypeOK', NEW w \in Workers, GiveUp(w) \/ Respawn(w)
    PROVE  Service!Next
<1> USE DEF IInv, TypeOK, GiveUp, Respawn, Goto, slotVars
<1>1. \A v \in Workers \ {w} : PhaseOf(v)' = PhaseOf(v) /\ AnswerOf(v)' = AnswerOf(v)
      BY SameView
<1>2. PhaseOf(w)' = "idle"
      BY DEF PhaseOf
<1>3. AnswerOf(w)' = 0
      BY <1>2 DEF AnswerOf
<1>4. Service!Abandon(w)
      BY <1>1, <1>2, <1>3, OneWorker DEF Service!Abandon
<1> QED
    BY <1>4 DEF Service!Next, Service!Workers

(* The server writes only into slots whose worker is waiting unanswered,     *)
(* unless that worker gave up.                                               *)
LEMMA ScatterMaps ==
    ASSUME IInv, TypeOK', NEW w \in Workers, Scatter(w)
    PROVE  Service!Next \/ UNCHANGED Service!vars
<1> USE DEF IInv, TypeOK, Scatter, callVars
<1>1. \A v \in Workers \ {w} : PhaseOf(v)' = PhaseOf(v) /\ AnswerOf(v)' = AnswerOf(v)
      BY SameView
<1>2. CASE gaveUp[w]
      BY <1>1, <1>2, AbandonedStep
<1>3. CASE ~gaveUp[w]
  <2>1. w \in ready /\ wpc[w] = "waiting" /\ ~resReady[w]
        BY <1>3 DEF BatchOK, LoopOK, IsNext
  <2>2. PhaseOf(w) = "asked" /\ PhaseOf(w)' = "asked"
        BY <2>1 DEF PhaseOf
  <2>3. AnswerOf(w)' = AnswerOf(w)
        BY <2>2 DEF AnswerOf
  <2> QED
      BY <1>1, <2>2, <2>3, Stutter
<1> QED
    BY <1>2, <1>3

(* Setting res_ready answers the worker's latest request. *)
LEMMA SignalMaps ==
    ASSUME IInv, TypeOK', NEW w \in Workers, Signal(w)
    PROVE  Service!Next \/ UNCHANGED Service!vars
<1> USE DEF IInv, TypeOK, Signal, callVars, slotVars
<1>1. \A v \in Workers \ {w} : PhaseOf(v)' = PhaseOf(v) /\ AnswerOf(v)' = AnswerOf(v)
      BY SameView
<1>2. CASE gaveUp[w]
      BY <1>1, <1>2, AbandonedStep
<1>3. CASE ~gaveUp[w]
  <2>1. wpc[w] = "waiting" /\ ~resReady[w] /\ result[w] = wreq[w]
        BY <1>3 DEF BatchOK, IsNext
  <2>2. PhaseOf(w) = "asked" /\ PhaseOf(w)' = "answered"
        BY <2>1 DEF PhaseOf
  <2>3. AnswerOf(w)' = wreq[w]
        BY <2>1, <2>2 DEF AnswerOf
  <2>4. Service!Answer(w)
        BY <1>1, <2>2, <2>3, OneWorker DEF Service!Answer, Service!Ids
  <2> QED
      BY <2>4 DEF Service!Next, Service!Workers
<1> QED
    BY <1>2, <1>3

(* The shared-memory channel implements the request/answer service: the      *)
(* initial state maps to the initial state, every step to a step or a        *)
(* stutter.                                                                  *)
THEOREM Implements == Spec => KeepsPromise
<1>1. Init => Service!Init
      BY DEF Init, Service!Init, Service!Workers, PhaseOf, AnswerOf
<1>2. IInv /\ IInv' /\ [Next]_vars => [Service!Next]_(Service!vars)
  <2> SUFFICES ASSUME IInv, IInv', [Next]_vars
               PROVE  Service!Next \/ UNCHANGED Service!vars
      OBVIOUS
  <2>1. TypeOK'
        BY DEF IInv
  <2>2. ASSUME Poll \/ DrainTake \/ DrainSkip \/ DrainEnd \/ Forward \/ Die
               \/ (\E w \in Workers : Build(w) \/ ClearDoorbell(w)) \/ UNCHANGED vars
        PROVE  UNCHANGED Service!vars
        BY <2>2, QuietStep DEF Poll, DrainTake, DrainSkip, DrainEnd,
           Forward, Die, Build, ClearDoorbell, vars, callVars, slotVars
  <2> QED
      BY <2>1, <2>2, BeginCallMaps, RingDoorbellMaps, InsideCallMaps, FinishReadMaps,
         AbandonMaps, ScatterMaps, SignalMaps DEF Next, ServerStep, WorkerStep
<1> QED
    BY <1>1, <1>2, Invariant, PTL DEF Spec, KeepsPromise, Service!Spec

------------------------------------------------------------------------------
(* Nothing but an abandoned request takes the server down. The positions of  *)
(* a batch are added up twice, by the drain and by the build, from counts    *)
(* that stand in shared memory. What ties the two sums together is the list  *)
(* of partial sums over the workers, in the order both loops visit them.     *)

HIDE DEF Ids, WorkerPCs, ServerPCs

Honest == \A w \in Workers : ~gaveUp[w]

Sums == [0 .. NumWorkers -> 0 .. MaxBatch]

(* g[w] is at least what the ready workers before w submit. *)
AddsUp(g) ==
    /\ \A i, j \in 0 .. NumWorkers : i <= j => g[i] <= g[j]
    /\ \A w \in ready : g[w + 1] = g[w] + reqCount[w]

(* What the drain has counted when it arrives at worker cur. *)
Drained(g) ==
    /\ AddsUp(g)
    /\ \A w \in ready : w < cur
    /\ \A i \in cur .. NumWorkers : g[i] = total

(* The build never counts more than the drain did. *)
Built(g) ==
    /\ AddsUp(g)
    /\ \A w \in todo : IsNext(w) => total <= g[w]

(* A request on its way to the server carries the mode of the architecture.  *)
Marked(w) ==
    wpc[w] = "ring" \/ reqReady[w] \/ (Graph /\ wpc[w] = "payload") => reqMode[w] = Mode

Survival ==
    Honest =>
      /\ spc # "dead"
      /\ \A w \in Workers : Marked(w)
      /\ spc \in {"build", "clear", "forward"} => kind = Mode
      /\ spc = "drain" => (ready = {} => total = 0) /\ \E g \in Sums : Drained(g)
      /\ spc = "build" => \E g \in Sums : Built(g)

LEMMA CountsArePlain ==
    ASSUME TypeOK, NEW w \in Workers
    PROVE  reqCount[w] \in Nat /\ total \in Nat
<1>1. reqCount[w] \in Counts \cup {0}
      BY DEF TypeOK
<1>2. total \in Nat
      BY DEF TypeOK
<1> QED
    BY <1>1, <1>2, CountsAreNat

LEMMA HonestBefore ==
    ASSUME TypeOK, [Next]_vars, Honest'
    PROVE  Honest /\ gaveUp' = gaveUp
<1>1. CASE UNCHANGED vars
      BY <1>1 DEF vars, callVars, Honest
<1>2. CASE ServerStep
      BY <1>2 DEF ServerStep, Poll, DrainTake, DrainSkip, DrainEnd, Forward, Die, Build,
         ClearDoorbell, Scatter, Signal, callVars, Honest
<1>3. ASSUME NEW w \in Workers, BeginCall(w) \/ WorkerStep(w)
      PROVE  Honest /\ gaveUp' = gaveUp
      BY <1>3 DEF BeginCall, WorkerStep, WritePayload, WriteHeader, RingDoorbell, WakeUp,
         AcknowledgeAnswer, FinishRead, callVars, Honest
<1>4. ASSUME NEW w \in Workers, GiveUp(w) \/ Respawn(w)
      PROVE  FALSE
      BY <1>4 DEF GiveUp, Respawn, Honest, TypeOK
<1> QED
    BY <1>1, <1>2, <1>3, <1>4 DEF Next

(* In an honest state every worker of a batch waits behind its doorbell with *)
(* the count it submitted and the mode of the architecture.                  *)
LEMMA ReadyMeans ==
    ASSUME IInv, Honest, NEW w \in Workers,
           reqReady[w] \/ (spc \in {"drain", "build"} /\ w \in ready)
    PROVE  reqReady[w] /\ wpc[w] = "waiting" /\ reqCount[w] \in 1 .. MaxBatch
<1>1. SlotOK(w) /\ BatchOK(w)
      BY DEF IInv, Honest
<1>2. reqReady[w]
      BY <1>1 DEF BatchOK
<1>3. wpc[w] = "waiting"
      BY <1>1, <1>2 DEF SlotOK
<1>4. reqCount[w] = wcount[w] /\ wcount[w] \in Counts
      BY <1>1, <1>3 DEF SlotOK
<1> QED
    BY <1>2, <1>3, <1>4, ConstantsOK

(* The worker's steps. *)
LEMMA WorkerSurvives ==
    ASSUME IInv, Survival, Honest, Honest', NEW w \in Workers, BeginCall(w) \/ WorkerStep(w)
    PROVE  Survival'
<1>1. /\ spc' = spc /\ ready' = ready /\ todo' = todo /\ total' = total /\ cur' = cur
      /\ kind' = kind
      BY DEF BeginCall, WorkerStep, WritePayload, WriteHeader, RingDoorbell, WakeUp,
         AcknowledgeAnswer, FinishRead, serverVars
<1>2. SlotOK(w) /\ TypeOK /\ Marked(w)
      BY DEF IInv, Honest, Survival
<1>3. ASSUME NEW v \in Workers PROVE Marked(v)'
  <2>1. Marked(v)
        BY DEF Survival
  <2> QED
      BY <1>2, <2>1 DEF TypeOK, Marked, BeginCall, WorkerStep, WritePayload, WriteHeader, RingDoorbell,
         WakeUp, AcknowledgeAnswer, FinishRead, SlotOK, Goto, slotVars, callVars
<1>4. \A v \in Workers : spc \in {"drain", "build"} /\ v \in ready => reqCount'[v] = reqCount[v]
  <2> SUFFICES ASSUME NEW v \in Workers, spc \in {"drain", "build"}, v \in ready
               PROVE  reqCount'[v] = reqCount[v]
      OBVIOUS
  <2>1. wpc[v] = "waiting"
        BY ReadyMeans
  <2> QED
      BY <2>1, <1>2 DEF TypeOK, BeginCall, WorkerStep, WritePayload, WriteHeader, RingDoorbell,
         WakeUp, AcknowledgeAnswer, FinishRead, slotVars
<1>5. ready \subseteq Workers
      BY <1>2 DEF TypeOK
<1>6. ASSUME NEW g \in Sums, spc = "drain", Drained(g) PROVE Drained(g)'
      BY <1>1, <1>4, <1>5, <1>6 DEF Drained, AddsUp
<1>7. ASSUME NEW g \in Sums, spc = "build", Built(g) PROVE Built(g)'
      BY <1>1, <1>4, <1>5, <1>7 DEF Built, AddsUp, IsNext
<1> QED
    BY <1>1, <1>3, <1>6, <1>7 DEF Survival

LEMMA PollSurvives ==
    ASSUME IInv, Survival, Honest, Poll
    PROVE  Survival'
<1> DEFINE g == [i \in 0 .. NumWorkers |-> 0]
<1>1. g \in Sums
      BY ConstantsOK DEF Sums
<1>2. Drained(g)'
      BY ConstantsOK DEF Poll, Drained, AddsUp
<1>3. \A w \in Workers : Marked(w)'
      BY DEF Survival, Marked, Poll, slotVars
<1>4. spc' = "drain" /\ total' = 0
      BY DEF Poll
<1> QED
    BY <1>1, <1>2, <1>3, <1>4 DEF Survival

LEMMA DrainTakeSurvives ==
    ASSUME IInv, Survival, Honest, DrainTake
    PROVE  Survival'
<1> USE ConstantsOK
<1>1. PICK g \in Sums : Drained(g)
      BY DEF Survival, DrainTake
<1>2. TypeOK /\ cur \in Workers
      BY DEF IInv, TypeOK, DrainTake
<1>3. reqCount[cur] \in 1 .. MaxBatch
      BY <1>2, ReadyMeans DEF DrainTake
<1>4. total + reqCount[cur] \in 1 .. MaxBatch
      BY <1>2, <1>3 DEF Survival, DrainTake, Fits, TypeOK
<1> DEFINE h == [i \in 0 .. NumWorkers |-> IF i <= cur THEN g[i] ELSE total + reqCount[cur]]
<1>5. h \in Sums
      BY <1>4, <1>1, <1>2 DEF Sums
<1>6. /\ spc' = spc /\ spc = "drain" /\ ready' = ready \cup {cur} /\ cur' = cur + 1
      /\ total' = total + reqCount[cur] /\ reqCount' = reqCount /\ reqMode' = reqMode
      /\ reqReady' = reqReady /\ wpc' = wpc
      BY DEF DrainTake, slotVars
<1>7. g[cur] = total /\ \A w \in ready : w < cur
      BY <1>1, <1>2 DEF Drained
<1>8. \A i, j \in 0 .. NumWorkers : i <= j => h[i] <= h[j]
  <2> SUFFICES ASSUME NEW i \in 0 .. NumWorkers, NEW j \in 0 .. NumWorkers, i <= j
               PROVE  h[i] <= h[j]
      OBVIOUS
  <2>1. g[i] \in 0 .. MaxBatch /\ g[j] \in 0 .. MaxBatch /\ g[i] <= g[j]
        BY <1>1 DEF Drained, AddsUp, Sums
  <2>2. i <= cur => g[i] <= total
        BY <1>1, <1>2, <1>7 DEF Drained, AddsUp
  <2> QED
      BY <2>1, <2>2, <1>2, <1>3 DEF TypeOK
<1>9. \A w \in ready \cup {cur} : h[w + 1] = h[w] + reqCount[w]
  <2> SUFFICES ASSUME NEW w \in ready \cup {cur} PROVE h[w + 1] = h[w] + reqCount[w]
      OBVIOUS
  <2>1. w \in Workers
        BY <1>2 DEF TypeOK
  <2>2. CASE w = cur
        BY <2>1, <2>2, <1>7
  <2>3. CASE w # cur
        BY <2>1, <2>3, <1>1, <1>2, <1>7 DEF Drained, AddsUp
  <2> QED
      BY <2>2, <2>3
<1>10. \A i \in cur + 1 .. NumWorkers : h[i] = total + reqCount[cur]
       BY <1>2
<1> HIDE DEF h
<1>11. PICK f \in Sums : Drained(f)'
  <2>1. PICK f \in Sums : f = h
        BY <1>5
  <2>2. AddsUp(f)'
        BY <2>1, <1>6, <1>8, <1>9 DEF AddsUp
  <2>3. \A w \in ready' : w < cur'
        BY <1>2, <1>6, <1>7 DEF TypeOK
  <2>4. \A i \in cur' .. NumWorkers : f[i] = total'
        BY <2>1, <1>6, <1>10
  <2> QED
      BY <2>2, <2>3, <2>4 DEF Drained
<1>12. \A w \in Workers : Marked(w)'
       BY <1>6 DEF Survival, Marked
<1>13. ready' # {} /\ spc' = "drain"
       BY <1>6
<1> QED
    BY <1>11, <1>12, <1>13 DEF Survival

LEMMA DrainSkipSurvives ==
    ASSUME IInv, Survival, Honest, DrainSkip
    PROVE  Survival'
<1> USE ConstantsOK
<1>1. PICK g \in Sums : Drained(g)
      BY DEF Survival, DrainSkip
<1>2. TypeOK /\ cur \in Workers
      BY DEF IInv, TypeOK, DrainSkip
<1>3. /\ spc' = spc /\ spc = "drain" /\ ready' = ready /\ cur' = cur + 1 /\ total' = total
      /\ reqCount' = reqCount /\ reqMode' = reqMode /\ wpc' = wpc
      BY DEF DrainSkip, slotVars
<1>4. \A w \in Workers : reqReady'[w] => reqReady[w]
      BY <1>2 DEF DrainSkip, TypeOK
<1>5. Drained(g)'
  <2>1. AddsUp(g)'
        BY <1>1, <1>3 DEF Drained, AddsUp
  <2>2. \A w \in ready' : w < cur'
        BY <1>1, <1>2, <1>3 DEF Drained, TypeOK
  <2>3. \A i \in cur' .. NumWorkers : g[i] = total'
        BY <1>1, <1>2, <1>3 DEF Drained
  <2> QED
      BY <2>1, <2>2, <2>3 DEF Drained
<1>6. \A w \in Workers : Marked(w)'
      BY <1>3, <1>4 DEF Survival, Marked
<1> QED
    BY <1>3, <1>5, <1>6 DEF Survival

LEMMA DrainEndSurvives ==
    ASSUME IInv, Survival, Honest, DrainEnd
    PROVE  Survival'
<1> USE ConstantsOK
<1>1. PICK g \in Sums : Drained(g)
      BY DEF Survival, DrainEnd
<1>2. TypeOK /\ ready \subseteq Workers
      BY DEF IInv, TypeOK
<1>3. /\ reqCount' = reqCount /\ reqMode' = reqMode /\ wpc' = wpc /\ reqReady' = reqReady
      /\ spc = "drain"
      BY DEF DrainEnd, slotVars
<1>4. \A w \in Workers : Marked(w)'
      BY <1>3 DEF Survival, Marked
<1>5. CASE ready = {}
      BY <1>4, <1>5 DEF Survival, DrainEnd
<1>6. CASE ready # {}
  <2>1. \A w \in ready : reqMode[w] = Mode
    <3> SUFFICES ASSUME NEW w \in ready PROVE reqMode[w] = Mode
        OBVIOUS
    <3>1. reqReady[w]
          BY <1>2, <1>3, ReadyMeans
    <3> QED
        BY <1>2, <3>1 DEF Survival, Marked
  <2>2. ready' = ready /\ kind' = Mode /\ spc' = "build" /\ total' = 0
        BY <1>6, <2>1 DEF DrainEnd, IsFirst, SameModeAs
  <2>3. Built(g)'
    <3>1. AddsUp(g)'
          BY <1>1, <1>3, <2>2 DEF Drained, AddsUp
    <3>2. todo' \subseteq Workers
          BY <1>6, <1>2 DEF DrainEnd, SameModeAs
    <3>3. \A w \in todo' : 0 <= g[w]
          BY <3>2 DEF Sums
    <3> QED
        BY <3>1, <3>3, <2>2 DEF Built
  <2> QED
      BY <1>4, <2>2, <2>3 DEF Survival
<1> QED
    BY <1>5, <1>6

LEMMA BuildSurvives ==
    ASSUME IInv, Survival, Honest, NEW w \in Workers, Build(w)
    PROVE  Survival'
<1> USE ConstantsOK
<1>1. PICK g \in Sums : Built(g)
      BY DEF Survival, Build
<1>2. TypeOK /\ LoopOK /\ todo \subseteq ready /\ ready \subseteq Workers
      BY DEF IInv, TypeOK, LoopOK
<1>3. /\ reqCount' = reqCount /\ reqMode' = reqMode /\ wpc' = wpc /\ reqReady' = reqReady
      /\ spc = "build" /\ ready' = ready /\ kind' = kind /\ total' = total + reqCount[w]
      /\ IsNext(w) /\ w \in todo
      BY DEF Build, slotVars, IsNext
<1>4. \A v \in Workers : Marked(v)'
      BY <1>3 DEF Survival, Marked
<1>5. kind' = Mode
      BY <1>3 DEF Survival
<1>6. CASE spc' = "clear"
      BY <1>4, <1>5, <1>6 DEF Survival
<1>7. CASE spc' = "build"
  <2>1. todo' = todo \ {w}
        BY <1>7 DEF Build, Advance
  <2>2. AddsUp(g)'
        BY <1>1, <1>3 DEF Built, AddsUp
  <2>3. total + reqCount[w] <= g[w + 1]
    <3>1. total <= g[w] /\ g[w + 1] = g[w] + reqCount[w]
          BY <1>1, <1>2, <1>3 DEF Built, AddsUp
    <3>2. g[w] \in 0 .. MaxBatch /\ reqCount[w] \in Nat /\ total \in Nat
          BY <1>2, CountsArePlain DEF Sums
    <3> QED
        BY <3>1, <3>2
  <2>4. ASSUME NEW v \in todo' PROVE total' <= g[v]
    <3>1. v \in Workers /\ w < v
          BY <2>1, <2>4, <1>2, <1>3 DEF IsNext
    <3>2. g[w + 1] <= g[v]
          BY <3>1, <1>1 DEF Built, AddsUp
    <3>3. g[w + 1] \in Int /\ g[v] \in Int /\ total + reqCount[w] \in Int
          BY <3>1, <1>2, TotalsAddUp DEF Sums
    <3> QED
        BY <3>2, <3>3, <2>3, <1>3
  <2>5. Built(g)'
        BY <2>2, <2>4 DEF Built
  <2> QED
      BY <1>4, <1>5, <1>7, <2>5 DEF Survival
<1> QED
    BY <1>6, <1>7 DEF Build, Advance

(* The batch that was drained fits, and it is of the kind the model takes.   *)
LEMMA NoDeath ==
    ASSUME IInv, Survival, Honest
    PROVE  ~Die
<1> USE ConstantsOK
<1>1. ASSUME spc = "build", NEW w \in todo, IsNext(w), total + reqCount[w] > MaxBatch
      PROVE  FALSE
  <2>1. PICK g \in Sums : Built(g)
        BY <1>1 DEF Survival
  <2>2. w \in ready /\ w \in Workers /\ TypeOK
        BY DEF IInv, TypeOK, LoopOK
  <2>3. total <= g[w] /\ g[w + 1] = g[w] + reqCount[w]
        BY <1>1, <2>1, <2>2 DEF Built, AddsUp
  <2>4. /\ g[w] \in 0 .. MaxBatch /\ g[w + 1] \in 0 .. MaxBatch
        /\ reqCount[w] \in Nat /\ total \in Nat
        BY <2>2, CountsArePlain DEF Sums
  <2> QED
      BY <1>1, <2>3, <2>4
<1>2. spc = "forward" => ModelTakes(kind)
      BY DEF Survival, ModelTakes
<1> QED
    BY <1>1, <1>2 DEF Die

(* The rest of the server's loop. *)
LEMMA LoopSurvives ==
    ASSUME IInv, Survival, Honest, NEW w \in Workers,
           ClearDoorbell(w) \/ Forward \/ Scatter(w) \/ Signal(w)
    PROVE  Survival'
<1>1. /\ spc' \in {"clear", "forward", "scatter", "signal", "poll"} /\ kind' = kind
      /\ spc' \in {"clear", "forward"} => spc \in {"clear"}
      BY DEF ClearDoorbell, Forward, Scatter, Signal, Advance
<1>2. ASSUME NEW v \in Workers PROVE Marked(v)'
  <2>1. Marked(v) /\ BatchOK(v) /\ LoopOK /\ TypeOK /\ SlotOK(v)
        BY DEF Survival, IInv, Honest
  <2>2. wpc' = wpc
        BY DEF ClearDoorbell, Forward, Scatter, Signal
  <2>3. reqReady'[v] => reqReady[v]
        BY <2>1 DEF ClearDoorbell, Forward, Scatter, Signal, TypeOK
  <2>4. reqMode'[v] = reqMode[v] \/ (Scatter(w) /\ v = w)
        BY <2>1 DEF ClearDoorbell, Forward, Scatter, Signal, TypeOK, slotVars
  <2>5. Scatter(w) => wpc[w] = "waiting" /\ ~reqReady[w]
    <3>1. Scatter(w) => spc = "scatter" /\ w \in ready
          BY <2>1 DEF Scatter, IsNext, LoopOK
    <3>2. BatchOK(w)
          BY DEF IInv, Honest
    <3> QED
        BY <3>1, <3>2 DEF BatchOK
  <2> QED
      BY <2>1, <2>2, <2>3, <2>4, <2>5 DEF Marked
<1> QED
    BY <1>1, <1>2 DEF Survival

LEMMA SurvivalStep == IInv /\ Survival /\ [Next]_vars => Survival'
<1> SUFFICES ASSUME IInv, Survival, [Next]_vars, Honest' PROVE Survival'
    BY DEF Survival
<1>1. Honest
      BY HonestBefore DEF IInv
<1>2. CASE UNCHANGED vars
      BY <1>2 DEF vars, callVars, slotVars, serverVars, Survival, Honest, Marked, Drained, Built,
         AddsUp, IsNext
<1>3. CASE ServerStep
      BY <1>1, <1>3, ConstantsOK, PollSurvives, DrainTakeSurvives, DrainSkipSurvives, DrainEndSurvives,
         BuildSurvives, NoDeath, LoopSurvives DEF ServerStep
<1>4. ASSUME NEW w \in Workers, BeginCall(w) \/ WorkerStep(w) PROVE Survival'
      BY <1>1, <1>4, WorkerSurvives
<1>5. ASSUME NEW w \in Workers, GiveUp(w) \/ Respawn(w) PROVE FALSE
      BY <1>5 DEF GiveUp, Respawn, Honest, IInv, TypeOK
<1> QED
    BY <1>2, <1>3, <1>4, <1>5 DEF Next

(* As long as no worker gave a call up, the build never exceeds the host     *)
(* buffer the drain counted for, and no batch is of the wrong kind.          *)
THEOREM ServerSurvivesHolds == Spec => []ServerSurvives
<1>1. Init => Survival
      BY DEF Init, Survival, Marked
<1>2. Survival => ServerSurvives
      BY DEF Survival, ServerSurvives, Honest
<1> QED
    BY <1>1, <1>2, SurvivalStep, Invariant, PTL DEF Spec

-----------------------------------------------------------------------------
(* The owner of the server: the newest weights win, for any room in the      *)
(* queue, any number of updates, and however slow the server starts or       *)
(* whenever it fails.                                                        *)

(* The newest of the weights that were queued or are loaded.                 *)
NewestOf(weights, pipe, buffer) ==
    IF buffer # << >> THEN Last(buffer) ELSE IF pipe # << >> THEN Last(pipe) ELSE weights

LEMMA EmptyIfNone == \A s \in Seq(Nat) : /\ Len(s) \in Nat
                                          /\ s = << >> <=> Len(s) = 0
  BY EmptySeq, LenProperties

LEMMA Concats ==
    \A s, t \in Seq(Nat) :
       /\ Len(s \o t) = Len(s) + Len(t)
       /\ \A i \in 1 .. Len(s) + Len(t) : (s \o t)[i] = IF i <= Len(s) THEN s[i] ELSE t[i - Len(s)]
  BY ConcatProperties

LEMMA AppendIsLast ==
    ASSUME NEW s \in Seq(Nat), NEW e \in Nat
    PROVE  Append(s, e) \in Seq(Nat) /\ Append(s, e) # << >> /\ Last(Append(s, e)) = e
<1>1. /\ Append(s, e) \in Seq(Nat) /\ Append(s, e) # << >>
      /\ Len(Append(s, e)) = Len(s) + 1 /\ Append(s, e)[Len(s) + 1] = e
  BY AppendProperties, Zenon
<1> QED
  BY <1>1, Zenon DEF Last

LEMMA TailIsLast ==
    ASSUME NEW b \in Seq(Nat), b # << >>
    PROVE  /\ Tail(b) \in Seq(Nat) /\ Head(b) \in Nat
           /\ IF Tail(b) = << >> THEN Last(b) = Head(b) ELSE Last(Tail(b)) = Last(b)
<1> DEFINE t == Tail(b)
<1>1. /\ t \in Seq(Nat) /\ Head(b) \in Nat /\ Len(t) = Len(b) - 1
      /\ \A i \in 1 .. Len(t) : t[i] = b[i + 1]
  BY HeadTailProperties, Zenon
<1>2. Head(b) = b[1]
  OBVIOUS
<1> HIDE DEF t
<1>3. /\ Len(b) \in Nat \ {0} /\ Len(t) \in Nat /\ (t = << >> <=> Len(t) = 0)
  BY <1>1, EmptyIfNone
<1>4. IF t = << >> THEN b[Len(b)] = b[1] ELSE t[Len(t)] = b[Len(b)]
  BY <1>1, <1>3
<1> QED
  BY <1>1, <1>2, <1>4, Zenon DEF t, Last

LEMMA NewestIsLast ==
    ASSUME NEW w \in Nat, NEW p \in Seq(Nat), NEW b \in Seq(Nat)
    PROVE  Last(<<w>> \o p \o b) = NewestOf(w, p, b)
<1>1. <<w>> \in Seq(Nat) /\ Len(<<w>>) = 1 /\ <<w>>[1] = w
  OBVIOUS
<1>2. /\ <<w>> \o p \in Seq(Nat) /\ Len(<<w>> \o p) = 1 + Len(p)
      /\ (<<w>> \o p)[1] = w
      /\ p # << >> => (<<w>> \o p)[1 + Len(p)] = p[Len(p)]
  BY <1>1, ConcatProperties, EmptySeq, LenProperties
<1> DEFINE a == <<w>> \o p
<1> HIDE DEF a
<1>3. a \in Seq(Nat) /\ Len(a) = 1 + Len(p)
  BY <1>2, Zenon DEF a
<1>4. /\ Len(a \o b) = Len(a) + Len(b)
      /\ b # << >> => (a \o b)[Len(a) + Len(b)] = b[Len(b)]
      /\ b = << >> => (a \o b)[Len(a)] = a[Len(a)]
  <2>1. /\ Len(a \o b) = Len(a) + Len(b)
        /\ \A i \in 1 .. Len(a) + Len(b) : (a \o b)[i] = IF i <= Len(a) THEN a[i] ELSE b[i - Len(a)]
    BY <1>3, Concats, Zenon
  <2>2. Len(b) \in Nat /\ Len(a) \in Nat \ {0} /\ (b = << >> <=> Len(b) = 0)
    BY <1>3, EmptyIfNone
  <2> QED
    BY <2>1, <2>2
<1>5. CASE b # << >>
  BY <1>4, <1>5 DEF Last, NewestOf, a
<1>6. CASE b = << >> /\ p # << >>
  BY <1>2, <1>3, <1>4, <1>6, EmptySeq, LenProperties DEF Last, NewestOf, a
<1>7. CASE b = << >> /\ p = << >>
  BY <1>2, <1>3, <1>4, <1>7, EmptySeq, LenProperties DEF Last, NewestOf, a
<1> QED
  BY <1>5, <1>6, <1>7

-----------------------------------------------------------------------------
QueueTyped ==
    /\ server \in [owner : {"new", "starting", "running", "failed", "stopping", "joined"},
                   shared : BOOLEAN, child : {"none", "loading", "serving", "exited"}, ready : BOOLEAN,
                   stopEvent : BOOLEAN, buffer : Seq(Nat), pipe : Seq(Nat), sent : Nat,
                   putting : BOOLEAN, weights : Nat]

(* Also while the process still loads its first weights or has ended: the    *)
(* queue keeps what it will find.                                            *)
Newest == ~server.putting => server.sent = NewestOf(server.weights, server.pipe, server.buffer)

LifecycleInv == QueueTyped /\ Newest

LEMMA LifecycleStarts == LifecycleInit => LifecycleInv
  BY DEF LifecycleInit, LifecycleInv, QueueTyped, Newest, NewestOf

(* What PutIfRoom leaves: the new weights last in the buffer, or pending.    *)
LEMMA PutIfRoomIsNewest ==
    ASSUME NEW s, s \in [owner : {"new", "starting", "running", "failed", "stopping", "joined"},
                   shared : BOOLEAN, child : {"none", "loading", "serving", "exited"}, ready : BOOLEAN,
                   stopEvent : BOOLEAN, buffer : Seq(Nat), pipe : Seq(Nat), sent : Nat,
                   putting : BOOLEAN, weights : Nat],
           server' = PutIfRoom(s)
    PROVE  LifecycleInv'
<1>1. CASE Queued(s) < WeightRoom
  <2> DEFINE b == Append(s.buffer, s.sent)
  <2>1. server' = [s EXCEPT !.buffer = b, !.putting = FALSE]
    BY <1>1 DEF PutIfRoom
  <2>2. b \in Seq(Nat) /\ b # << >> /\ Last(b) = s.sent
    <3>1. s.buffer \in Seq(Nat) /\ s.sent \in Nat
      OBVIOUS
    <3>2. b \in Seq(Nat) /\ b # << >>
      BY <3>1, AppendIsLast, Zenon
    <3> QED
      BY <3>1, <3>2, AppendIsLast, Zenon
  <2> HIDE DEF b
  <2>3. QueueTyped'
    BY <2>1, <2>2 DEF QueueTyped
  <2>4. server'.buffer = b /\ server'.sent = s.sent
    BY <2>1
  <2> QED
    BY <2>2, <2>3, <2>4 DEF LifecycleInv, Newest, NewestOf
<1>2. CASE ~(Queued(s) < WeightRoom)
  <2>1. server' = [s EXCEPT !.putting = TRUE]
    BY <1>2 DEF PutIfRoom
  <2> QED
    BY <2>1 DEF LifecycleInv, QueueTyped, Newest
<1> QED
  BY <1>1, <1>2

LEMMA LifecycleStep == LifecycleInv /\ [LifecycleNext]_server => LifecycleInv'
<1> SUFFICES ASSUME LifecycleInv, [LifecycleNext]_server PROVE LifecycleInv'
  OBVIOUS
<1> USE DEF LifecycleInv
<1>1. CASE UNCHANGED server
  BY <1>1 DEF QueueTyped, Newest
<1>2. CASE \/ StartServer \/ StartReturns \/ StartTimesOut \/ StopServer \/ JoinServer
           \/ ChildReady \/ ChildStops \/ ChildFails
  BY <1>2 DEF StartServer, StartReturns, StartTimesOut, StopServer, JoinServer, ChildReady,
              ChildStops, ChildFails, QueueTyped, Newest
<1>3. CASE UpdateWeights
  <2>1. PICK k \in 0 .. Len(server.pipe) :
           server' = PutIfRoom([server EXCEPT !.pipe = Dropped(@, k), !.sent = @ + 1])
    BY <1>3 DEF UpdateWeights
  <2>2. server.pipe \in Seq(Nat) /\ server.sent + 1 \in Nat
    BY DEF QueueTyped
  <2>3. Dropped(server.pipe, k) \in Seq(Nat)
    <3>1. \A i \in (k + 1) .. Len(server.pipe) : server.pipe[i] \in Nat
      BY <2>2, LenProperties, ElementOfSeq
    <3> QED
      BY <2>2, <3>1, SubSeqProperties DEF Dropped
  <2> QED
    BY <2>1, <2>2, <2>3, PutIfRoomIsNewest DEF QueueTyped
<1>4. CASE PutWakes
  BY <1>4, PutIfRoomIsNewest DEF PutWakes, QueueTyped
<1>5. CASE FeedWeights
  <2> DEFINE b == server.buffer
             p == Append(server.pipe, Head(b))
  <2>1. b \in Seq(Nat) /\ b # << >> /\ server.pipe \in Seq(Nat)
    BY <1>5 DEF FeedWeights, QueueTyped
  <2>2. /\ Tail(b) \in Seq(Nat) /\ Head(b) \in Nat
        /\ IF Tail(b) = << >> THEN Last(b) = Head(b) ELSE Last(Tail(b)) = Last(b)
    BY <2>1, TailIsLast, Zenon
  <2>3. p \in Seq(Nat) /\ p # << >> /\ Last(p) = Head(b)
    BY <2>1, <2>2, AppendIsLast, Zenon
  <2>4. server' = [server EXCEPT !.buffer = Tail(b), !.pipe = p]
    BY <1>5 DEF FeedWeights
  <2>5. NewestOf(server.weights, p, Tail(b)) = Last(b)
    BY <2>2, <2>3, Zenon DEF NewestOf
  <2> HIDE DEF p
  <2>6. QueueTyped'
    BY <2>2, <2>3, <2>4 DEF QueueTyped
  <2>7. /\ server'.buffer = Tail(b) /\ server'.pipe = p /\ server'.sent = server.sent
        /\ server'.putting = server.putting /\ server'.weights = server.weights
    BY <2>4 DEF QueueTyped
  <2>8. ~server.putting => server.sent = Last(b)
    BY <2>1 DEF Newest, NewestOf
  <2> QED
    BY <2>5, <2>6, <2>7, <2>8 DEF Newest
<1>6. CASE PollWeights
  <2> DEFINE w == Last(server.pipe)
  <2>1. server.pipe \in Seq(Nat) /\ server.pipe # << >> /\ server' = [server EXCEPT !.pipe = << >>, !.weights = w]
    BY <1>6 DEF PollWeights, QueueTyped
  <2>2. w \in Nat
    BY <2>1, ElementOfSeq, EmptyIfNone DEF Last
  <2>3. NewestOf(server.weights, server.pipe, server.buffer) = NewestOf(w, << >>, server.buffer)
    BY <2>1 DEF NewestOf
  <2> HIDE DEF w
  <2>4. QueueTyped'
    <3>1. << >> \in Seq(Nat)
      OBVIOUS
    <3> QED
      BY <2>1, <2>2, <3>1 DEF QueueTyped
  <2>5. /\ server'.pipe = << >> /\ server'.weights = w /\ server'.buffer = server.buffer
        /\ server'.sent = server.sent /\ server'.putting = server.putting
    BY <2>1 DEF QueueTyped
  <2> QED
    BY <2>3, <2>4, <2>5 DEF Newest
<1> QED
  BY <1>1, <1>2, <1>3, <1>4, <1>5, <1>6 DEF LifecycleNext

(* The shape of the queue, and that its newest entry is the last update.     *)
THEOREM LifecycleInvariant == LifecycleSpec => []LifecycleInv
<1> QED
  BY LifecycleStarts, LifecycleStep, PTL DEF LifecycleSpec

(* Whatever update_weights drops to make room, and however far the feeder    *)
(* thread and _poll_weight_updates are: the weights that a serving process   *)
(* has or will load last are those of the last update that was put.          *)
THEOREM NewestWeightsWinHolds == LifecycleSpec => []NewestWeightsWin
<1>1. LifecycleInv => NewestWeightsWin
  BY NewestIsLast DEF LifecycleInv, QueueTyped, Newest, NewestWeightsWin
<1> QED
  BY <1>1, LifecycleInvariant, PTL

-----------------------------------------------------------------------------
(* Numbers, and definitions by recursion on them. *)

(* Induction, for sets. *)
LEMMA NatSetInduction ==
    ASSUME NEW S, 0 \in S, \A n \in Nat : n \in S => n + 1 \in S
    PROVE  Nat \subseteq S
<1> SUFFICES ASSUME NEW N \in Nat, N \notin S PROVE FALSE
  OBVIOUS
<1> DEFINE T == S \cap (0 .. N)
           f == [n \in T |-> n + 1]
<1>1. IsFiniteSet(T) /\ IsFiniteSet(T \ {0}) /\ Cardinality(T) \in Nat
  <2>1. IsFiniteSet(0 .. N)
    BY FS_Interval
  <2>2. IsFiniteSet(T)
    BY <2>1, FS_Subset
  <2> QED
    BY <2>2, FS_Subset, FS_CardinalityType
<1>2. Cardinality(T \ {0}) = Cardinality(T) - 1
  <2>1. 0 \in T
    OBVIOUS
  <2> HIDE DEF T
  <2> QED
    BY <1>1, <2>1, FS_RemoveElement
<1>3. f \in Injection(T, T \ {0})
  <2>1. f \in [T -> T \ {0}]
    OBVIOUS
  <2>2. \A a, b \in T : f[a] = f[b] => a = b
    OBVIOUS
  <2> QED
    BY <2>1, <2>2 DEF Injection, IsInjective
<1>4. Cardinality(T) <= Cardinality(T \ {0})
  BY <1>1, <1>3, FS_Injection
<1> QED
  BY <1>1, <1>2, <1>4

(* A set of numbers that has a bound has a greatest one.                     *)
LEMMA GreatestIsThere ==
    ASSUME NEW n \in Nat, NEW T \in SUBSET (0 .. n), T # {}
    PROVE  Max(T) \in T /\ \A y \in T : Max(T) >= y
<1> DEFINE S == {k \in Nat : \A U \in SUBSET (0 .. k) : U # {} => \E x \in U : \A y \in U : x >= y}
<1>1. 0 \in S
  <2>1. ASSUME NEW U \in SUBSET (0 .. 0), U # {} PROVE \E x \in U : \A y \in U : x >= y
    <3> DEFINE z == 0
    <3>1. z \in Nat /\ U \in SUBSET (z .. z)
      OBVIOUS
    <3> HIDE DEF z
    <3>2. \A y \in U : y = z
      BY <3>1
    <3>3. PICK x \in U : TRUE
      BY <2>1
    <3>4. \A y \in U : x >= y
      BY <3>1, <3>2, <3>3
    <3> QED
      BY <3>3, <3>4
  <2> QED
    BY <2>1
<1>2. ASSUME NEW k \in Nat, k \in S PROVE k + 1 \in S
  <2> SUFFICES ASSUME NEW U \in SUBSET (0 .. k + 1), U # {} PROVE \E x \in U : \A y \in U : x >= y
    OBVIOUS
  <2>1. CASE k + 1 \in U
    BY <2>1
  <2>2. CASE k + 1 \notin U
    <3>1. U \in SUBSET (0 .. k)
      BY <2>2
    <3> QED
      BY <1>2, <3>1
  <2> QED
    BY <2>1, <2>2
<1>3. n \in S
  <2> HIDE DEF S
  <2> QED
    BY <1>1, <1>2, NatSetInduction
<1>4. \E x \in T : \A y \in T : x >= y
  BY <1>3
<1> HIDE DEF S
<1> QED
  BY <1>4 DEF Max

(* What a definition by recursion over 1 .. n defines exists.                *)
Recurs(g, n, base, F) == \A i \in 1 .. n : g[i] = IF i = 1 THEN base ELSE F[<<g[i - 1], i>>]

(* By induction on n.                                                        *)
LEMMA RecursionExists ==
    ASSUME NEW n \in Nat, NEW A, NEW base \in A, NEW F \in [A \X (1 .. n) -> A]
    PROVE  \E g \in [1 .. n -> A] : Recurs(g, n, base, F)
<1> DEFINE Rule(g, i) == g[i] = IF i = 1 THEN base ELSE F[<<g[i - 1], i>>]
           Good(k) == \E g \in [1 .. k -> A] : \A i \in 1 .. k : Rule(g, i)
           S == {k \in Nat : k <= n => Good(k)}
<1>1. 0 \in S
  <2> DEFINE g == [i \in 1 .. 0 |-> base]
  <2>1. g \in [1 .. 0 -> A] /\ \A i \in 1 .. 0 : Rule(g, i)
    OBVIOUS
  <2> QED
    BY <2>1
<1>2. ASSUME NEW k \in Nat, k \in S PROVE k + 1 \in S
  <2> SUFFICES ASSUME k + 1 <= n PROVE Good(k + 1)
    OBVIOUS
  <2>1. k <= n
    OBVIOUS
  <2>2. PICK g \in [1 .. k -> A] : \A i \in 1 .. k : Rule(g, i)
    BY <1>2, <2>1
  <2> DEFINE m == k + 1
             last == IF m = 1 THEN base ELSE F[<<g[k], m>>]
             h == [i \in 1 .. m |-> IF i = m THEN last ELSE g[i]]
  <2>3. last \in A
    <3>1. CASE m = 1
      BY <3>1
    <3>2. CASE m # 1
      <4>1. k \in 1 .. k /\ m \in 1 .. n
        BY <3>2
      <4>2. <<g[k], m>> \in A \X (1 .. n)
        BY <4>1
      <4> QED
        BY <3>2, <4>2
    <3> QED
      BY <3>1, <3>2
  <2> HIDE DEF last
  <2>4. h \in [1 .. m -> A]
    BY <2>3
  <2>5. h[m] = last /\ \A i \in 1 .. k : h[i] = g[i]
    OBVIOUS
  <2> HIDE DEF h
  <2>6. ASSUME NEW i \in 1 .. m PROVE Rule(h, i)
    <3>1. CASE i = m
      <4>1. i = 1 => Rule(h, i)
        BY <2>5, <3>1 DEF last
      <4>2. i # 1 => k \in 1 .. k /\ i - 1 = k
        BY <3>1
      <4>3. i # 1 => Rule(h, i)
        BY <2>5, <3>1, <4>2 DEF last
      <4> QED
        BY <4>1, <4>3
    <3>2. CASE i # m
      <4>1. i \in 1 .. k /\ (i # 1 => i - 1 \in 1 .. k)
        BY <3>2
      <4>2. h[i] = g[i] /\ (i # 1 => h[i - 1] = g[i - 1])
        BY <2>5, <4>1
      <4>3. Rule(g, i)
        BY <2>2, <4>1
      <4> QED
        BY <4>2, <4>3
    <3> QED
      BY <3>1, <3>2
  <2> HIDE DEF Rule
  <2> QED
    BY <2>4, <2>6
<1>3. n \in S
  <2> HIDE DEF S
  <2> QED
    BY <1>1, <1>2, NatSetInduction
<1>4. Good(n)
  BY <1>3
<1> QED
  BY <1>4, Zenon DEF Recurs

(* The order of a batch: every worker of it has a place, which is its own.   *)
LEMMA OrderIs ==
    ASSUME NEW P, P \subseteq Nat, IsFiniteSet(P)
    PROVE  /\ Cardinality(P) \in Nat
           /\ \A w \in P : Place(P, w) \in 1 .. Cardinality(P) /\ Order(P)[Place(P, w)] = w
           /\ \A i \in 1 .. Cardinality(P) : Order(P)[i] \in P
<1> DEFINE Below(k) == {v \in P : v < k}
           c == Cardinality(P)
           f == [k \in P |-> Cardinality(Below(k)) + 1]
<1>1. c \in Nat
  BY FS_CardinalityType
<1>2. ASSUME NEW k \in P
      PROVE  IsFiniteSet(Below(k)) /\ Cardinality(Below(k)) \in 0 .. c - 1
  <2> DEFINE B == Below(k)
             Q == P \ {k}
  <2>1. IsFiniteSet(Q) /\ Cardinality(Q) = c - 1
    BY FS_RemoveElement
  <2>2. B \in SUBSET Q
    OBVIOUS
  <2> HIDE DEF B, Q
  <2>3. IsFiniteSet(B) /\ Cardinality(B) <= Cardinality(Q) /\ Cardinality(B) \in Nat
    BY <2>1, <2>2, FS_Subset, FS_CardinalityType
  <2> QED
    BY <1>1, <2>1, <2>3 DEF B
<1>3. ASSUME NEW k \in P, NEW l \in P, k < l
      PROVE  Cardinality(Below(k)) # Cardinality(Below(l))
  <2> DEFINE A == Below(k)
             B == Below(l)
  <2>1. A \in SUBSET B /\ k \in B /\ k \notin A
    <3>1. \A v \in P : v \in Nat
      OBVIOUS
    <3>2. \A v \in P : v < k => v < l
      BY <1>3, <3>1
    <3>3. ~ k < k
      BY <3>1
    <3> QED
      BY <1>3, <3>2, <3>3, Zenon
  <2>2. IsFiniteSet(B)
    BY <1>2
  <2> HIDE DEF A, B
  <2>3. Cardinality(A) # Cardinality(B)
    BY <2>1, <2>2, FS_Subset
  <2> QED
    BY <2>3 DEF A, B
<1>4. ASSUME NEW k \in P, NEW l \in P, Cardinality(Below(k)) = Cardinality(Below(l)) PROVE k = l
  <2>1. k = l \/ k < l \/ l < k
    OBVIOUS
  <2> HIDE DEF Below
  <2> QED
    BY <1>3, <1>4, <2>1, Zenon
<1> HIDE DEF Below, c
<1>5. f \in [P -> 1 .. c]
  <2>1. \A k \in P : Cardinality(Below(k)) + 1 \in 1 .. c
    BY <1>1, <1>2
  <2> QED
    BY <2>1
<1>6. \A k \in P : f[k] = Cardinality(Below(k)) + 1
  OBVIOUS
<1>7. ASSUME NEW k \in P, NEW l \in P, f[k] = f[l] PROVE k = l
  <2>1. Cardinality(Below(k)) = Cardinality(Below(l))
    BY <1>2, <1>6, <1>7
  <2> QED
    BY <1>4, <2>1
<1>8. \A k \in P : Place(P, k) = f[k]
  BY <1>6, Zenon DEF Place, Below
<1> HIDE DEF f
<1>9. f \in Injection(P, 1 .. c)
  BY <1>5, <1>7 DEF Injection, IsInjective
<1>10. IsFiniteSet(1 .. c) /\ Cardinality(1 .. c) = c
  <2>1. 1 \in Int /\ c \in Int
    BY <1>1
  <2>2. IsFiniteSet(1 .. c) /\ Cardinality(1 .. c) = IF 1 > c THEN 0 ELSE c - 1 + 1
    BY <2>1, FS_Interval
  <2> QED
    BY <1>1, <2>2
<1>11. f \in Surjection(P, 1 .. c)
  BY <1>9, <1>10, FS_Injection DEF c
<1>12. \A i \in 1 .. c : Order(P)[i] = CHOOSE w \in P : Place(P, w) = i
  BY Zenon DEF Order, c
<1>13. ASSUME NEW i \in 1 .. c PROVE Order(P)[i] \in P /\ Place(P, Order(P)[i]) = i
  <2>1. PICK k \in P : f[k] = i
    BY <1>11 DEF Surjection
  <2>2. \E w \in P : Place(P, w) = i
    BY <1>8, <2>1
  <2> QED
    BY <1>12, <2>2, Zenon
<1>14. ASSUME NEW w \in P PROVE Place(P, w) \in 1 .. c /\ Order(P)[Place(P, w)] = w
  <2>1. Place(P, w) \in 1 .. c
    BY <1>5, <1>8
  <2>2. Order(P)[Place(P, w)] \in P /\ Place(P, Order(P)[Place(P, w)]) = Place(P, w)
    BY <1>13, <2>1
  <2>3. f[Order(P)[Place(P, w)]] = f[w]
    BY <1>8, <2>2, Zenon
  <2> QED
    BY <1>7, <2>1, <2>2, <2>3, Zenon
<1> QED
  BY <1>1, <1>13, <1>14 DEF c

(* Where the rows of sequences that are laid one after the other begin.      *)
Begins(off, s, n) ==
    /\ off \in [1 .. n -> Nat] /\ off[1] = 0
    /\ \A i \in 1 .. n : i # 1 => off[i] = off[i - 1] + Len(s[i - 1])

(* FlattenSeq lays them so.                                                  *)
LEMMA FlattenIs ==
    ASSUME NEW X, NEW n \in Nat \ {0}, NEW s \in Seq(Seq(X)), Len(s) = n, NEW off, Begins(off, s, n)
    PROVE  /\ FlattenSeq(s) \in Seq(X)
           /\ \A j \in 1 .. n : \A r \in 1 .. Len(s[j]) :
                 /\ off[j] + r \in 1 .. Len(FlattenSeq(s))
                 /\ FlattenSeq(s)[off[j] + r] = s[j][r]
<1> DEFINE F == [p \in Seq(X) \X (1 .. n) |-> p[1] \o s[p[2]]]
           body(f) == [i \in 1 .. Len(s) |-> IF i = 1 THEN s[i] ELSE f[i - 1] \o s[i]]
<1>1. /\ \A i \in 1 .. n : s[i] \in Seq(X) /\ Len(s[i]) \in Nat
      /\ n \in Nat /\ 1 \in 1 .. n
  OBVIOUS
<1>2. F \in [Seq(X) \X (1 .. n) -> Seq(X)]
  <2>1. \A p \in Seq(X) \X (1 .. n) : p[1] \o s[p[2]] \in Seq(X)
    <3> TAKE p \in Seq(X) \X (1 .. n)
    <3>1. p[1] \in Seq(X) /\ s[p[2]] \in Seq(X)
      BY <1>1
    <3> QED
      BY <3>1, ConcatProperties
  <2> QED
    BY <2>1
<1>3. \A t \in Seq(X), i \in 1 .. n : F[<<t, i>>] = t \o s[i]
  OBVIOUS
<1> HIDE DEF F
<1>4. PICK g \in [1 .. n -> Seq(X)] : \A i \in 1 .. n : g[i] = IF i = 1 THEN s[1] ELSE F[<<g[i - 1], i>>]
  <2> DEFINE A == Seq(X)
             base == s[1]
  <2>1. n \in Nat /\ base \in A /\ F \in [A \X (1 .. n) -> A]
    BY <1>1, <1>2
  <2> HIDE DEF A, base
  <2>2. \E g \in [1 .. n -> A] : Recurs(g, n, base, F)
    BY <2>1, RecursionExists
  <2> QED
    BY <2>2, Zenon DEF A, base, Recurs
<1>5. g = body(g)
  <2>1. \A i \in 1 .. n : g[i] = IF i = 1 THEN s[i] ELSE g[i - 1] \o s[i]
    <3> TAKE i \in 1 .. n
    <3>1. CASE i = 1
      BY <1>4, <3>1
    <3>2. CASE i # 1
      <4>1. i - 1 \in 1 .. n
        BY <3>2
      <4>2. g[i - 1] \in Seq(X)
        BY <4>1
      <4> QED
        BY <1>3, <1>4, <3>2, <4>2
    <3> QED
      BY <3>1, <3>2
  <2> QED
    BY <2>1
<1> DEFINE t == CHOOSE f : f = body(f)
<1>6. FlattenSeq(s) = t[n]
  <2>1. Len(s) # 0
    BY <1>1
  <2>2. FlattenSeq(s) = t[Len(s)]
    BY <2>1, Zenon DEF FlattenSeq
  <2> HIDE DEF t
  <2> QED
    BY <2>2
<1>7. t = body(t)
  <2> HIDE DEF body
  <2> QED
    BY <1>5, Zenon
<1> HIDE DEF t
<1>8. \A i \in 1 .. n : t[i] = IF i = 1 THEN s[i] ELSE t[i - 1] \o s[i]
  BY <1>7
<1> HIDE DEF body
<1> DEFINE Laid(k) == /\ t[k] \in Seq(X) /\ Len(t[k]) = off[k] + Len(s[k])
                      /\ \A j \in 1 .. k : \A r \in 1 .. Len(s[j]) :
                            off[j] + r \in 1 .. Len(t[k]) /\ t[k][off[j] + r] = s[j][r]
           S == {k \in Nat : k + 1 <= n => Laid(k + 1)}
<1>9. \A i \in 1 .. n : off[i] \in Nat
  BY DEF Begins
<1>10. 0 \in S
  <2>1. t[1] = s[1] /\ off[1] = 0
    BY <1>1, <1>8 DEF Begins
  <2>2. Laid(1)
    BY <1>1, <2>1
  <2> QED
    BY <2>2
<1>11. ASSUME NEW k \in Nat, k \in S PROVE k + 1 \in S
  <2> DEFINE a == k + 1
             b == a + 1
  <2> SUFFICES ASSUME b <= n PROVE Laid(b)
    OBVIOUS
  <2>1. a \in 1 .. n /\ b \in 1 .. n /\ b # 1 /\ b - 1 = a
    OBVIOUS
  <2>2. Laid(a)
    BY <1>11, <2>1
  <2> HIDE DEF a, b
  <2>3. t[b] = t[a] \o s[b] /\ off[b] = off[a] + Len(s[a])
    BY <1>8, <2>1 DEF Begins
  <2>4. PICK u \in Seq(X), v \in Seq(X) : u = t[a] /\ v = s[b]
    BY <1>1, <2>1, <2>2
  <2>5. /\ u \o v \in Seq(X) /\ Len(u \o v) = Len(u) + Len(v) /\ Len(u) \in Nat /\ Len(v) \in Nat
        /\ \A i \in 1 .. Len(u) : (u \o v)[i] = u[i]
        /\ \A i \in 1 .. Len(v) : (u \o v)[Len(u) + i] = v[i]
    BY ConcatProperties, LenProperties
  <2>6. Len(u) = off[b]
    BY <2>2, <2>3, <2>4
  <2>7. ASSUME NEW j \in 1 .. b, NEW r \in 1 .. Len(s[j])
        PROVE  off[j] + r \in 1 .. Len(t[b]) /\ t[b][off[j] + r] = s[j][r]
    <3>1. CASE j = b
      <4>1. r \in 1 .. Len(v) /\ off[j] + r = Len(u) + r
        BY <2>4, <2>6, <3>1
      <4>2. (u \o v)[Len(u) + r] = v[r] /\ Len(u) + r \in 1 .. Len(u \o v)
        BY <2>5, <4>1
      <4> QED
        BY <2>3, <2>4, <3>1, <4>1, <4>2
    <3>2. CASE j # b
      <4>1. j \in 1 .. a
        BY <2>1, <3>2
      <4>2. off[j] + r \in 1 .. Len(u) /\ u[off[j] + r] = s[j][r]
        BY <2>2, <2>4, <4>1
      <4>3. off[j] + r \in 1 .. Len(u \o v) /\ (u \o v)[off[j] + r] = u[off[j] + r]
        BY <2>5, <4>2
      <4> QED
        BY <2>3, <2>4, <4>2, <4>3
    <3> QED
      BY <3>1, <3>2
  <2>8. t[b] \in Seq(X) /\ Len(t[b]) = off[b] + Len(s[b])
    BY <2>3, <2>4, <2>5, <2>6
  <2> QED
    BY <2>7, <2>8
<1>12. n - 1 \in S
  <2>1. n - 1 \in Nat
    BY <1>1
  <2> HIDE DEF S
  <2> QED
    BY <1>10, <1>11, <2>1, NatSetInduction
<1>13. Laid(n)
  <2>1. n - 1 + 1 = n
    BY <1>1
  <2> HIDE DEF Laid
  <2> QED
    BY <1>12, <2>1
<1> QED
  BY <1>6, <1>13

-----------------------------------------------------------------------------
(* The layout of a batch.                                                    *)

(* A slot: its arrays have a row for every position. While a call waits, its *)
(* rows are written; once it is answered, the answers are those of its rows. *)
SlotFields == {"state", "call", "count", "k", "p", "tensor", "cands", "pairs", "policy", "sparse", "joint"}

Written(w, s) ==
    \A r \in 1 .. s.count : s.tensor[r] = <<w, s.call, r>> /\ s.cands[r] = s.k /\ s.pairs[r] = s.p

Came(w, s) ==
    \A r \in 1 .. s.count :
       /\ s.policy[r] = <<w, s.call, r>>
       /\ \A c \in 1 .. s.k : s.sparse[r][c] = <<<<w, s.call, r>>, c>>
       /\ \A c \in 1 .. s.p : s.joint[r][c] = <<<<w, s.call, r>>, c>>

SlotFits(w, s) ==
    /\ DOMAIN s = SlotFields /\ s.call \in Nat /\ s.count \in 0 .. SlotRows
    /\ s.k \in 0 .. Columns /\ s.p \in 0 .. Columns
    /\ DOMAIN s.tensor = Slots /\ DOMAIN s.policy = Slots /\ DOMAIN s.sparse = Slots /\ DOMAIN s.joint = Slots
    /\ s.cands \in [Slots -> 0 .. Columns] /\ s.pairs \in [Slots -> 0 .. Columns]
    /\ s.state = "waiting" => Written(w, s)
    /\ s.state = "answered" => Came(w, s)

LayoutInv == DOMAIN layout = BatchWorkers /\ \A w \in BatchWorkers : SlotFits(w, layout[w])

(* The constants are numbers.                                                *)
LEMMA LayoutNumbers ==
    /\ SlotRows \in Nat /\ Columns \in Nat /\ BatchWorkers \subseteq Nat /\ IsFiniteSet(BatchWorkers)
    /\ \A n \in 0 .. SlotRows : n \in Nat /\ 1 .. n \subseteq Slots
BY LayoutOK DEF Slots

(* The rows of a batch: those of a worker begin after the running offset.    *)
RowRecords == [tensor : {layout[w].tensor[r] : w \in BatchWorkers, r \in Slots},
               cands : 0 .. Columns, pairs : 0 .. Columns]

(* The rows of a slot are rows of a batch.                                   *)
LEMMA SlotRowsAre ==
    ASSUME LayoutInv, NEW w \in BatchWorkers
    PROVE  /\ SlotRowsOf(w) \in Seq(RowRecords) /\ Len(SlotRowsOf(w)) = layout[w].count
           /\ layout[w].count \in Nat
           /\ \A r \in 1 .. layout[w].count :
                 SlotRowsOf(w)[r] = [tensor |-> layout[w].tensor[r], cands |-> layout[w].cands[r],
                                     pairs |-> layout[w].pairs[r]]
<1> DEFINE s == layout[w]
           row(r) == [tensor |-> s.tensor[r], cands |-> s.cands[r], pairs |-> s.pairs[r]]
<1>1. /\ s.count \in 0 .. SlotRows /\ s.cands \in [Slots -> 0 .. Columns] /\ s.pairs \in [Slots -> 0 .. Columns]
  BY DEF LayoutInv, SlotFits
<1>2. s.count \in Nat /\ 1 .. s.count \subseteq Slots
  BY <1>1, LayoutNumbers
<1>3. \A r \in 1 .. s.count : row(r) \in RowRecords
  <2> TAKE r \in 1 .. s.count
  <2>1. r \in Slots
    BY <1>2
  <2>2. /\ s.tensor[r] \in {layout[v].tensor[q] : v \in BatchWorkers, q \in Slots}
        /\ s.cands[r] \in 0 .. Columns /\ s.pairs[r] \in 0 .. Columns
    BY <1>1, <2>1
  <2> QED
    BY <2>2 DEF RowRecords
<1>4. SlotRowsOf(w) = [r \in 1 .. s.count |-> row(r)]
  BY Zenon DEF SlotRowsOf
<1> DEFINE n == s.count
<1>5. n \in Nat /\ (\A r \in 1 .. n : row(r) \in RowRecords) /\ SlotRowsOf(w) = [r \in 1 .. n |-> row(r)]
  BY <1>2, <1>3, <1>4
<1> HIDE DEF n, row
<1>6. SlotRowsOf(w) \in Seq(RowRecords) /\ Len(SlotRowsOf(w)) = n /\ \A r \in 1 .. n : SlotRowsOf(w)[r] = row(r)
  BY <1>5
<1> QED
  BY <1>5, <1>6 DEF n, row

RowsAt(P, w) ==
    \A r \in 1 .. layout[w].count :
       /\ WorkerOffset(P, w) + r \in DOMAIN BatchRows(P)
       /\ BatchRows(P)[WorkerOffset(P, w) + r] = SlotRowsOf(w)[r]

(* The offset and the place of the rows agree, for every set of workers.     *)
LEMMA RowsAreLaid ==
    ASSUME LayoutInv, NEW P, P \subseteq BatchWorkers, P # {}
    PROVE  BatchRows(P) \in Seq(RowRecords) /\ \A w \in P : RowsAt(P, w)
<1> DEFINE n == Cardinality(P)
           order == Order(P)
           s == [i \in DOMAIN order |-> SlotRowsOf(order[i])]
           count(i) == layout[order[i]].count
<1>1. P \subseteq Nat /\ IsFiniteSet(P)
  BY LayoutNumbers, FS_Subset
<1>2. /\ n \in Nat
      /\ \A w \in P : Place(P, w) \in 1 .. n /\ order[Place(P, w)] = w
      /\ \A i \in 1 .. n : order[i] \in P
  BY <1>1, OrderIs
<1>3. DOMAIN order = 1 .. n
  BY Zenon DEF Order
<1>4. n \in Nat \ {0} /\ 1 \in 1 .. n
  <2>1. n # 0
    BY <1>1, FS_EmptySet
  <2> QED
    BY <1>2, <2>1
<1> HIDE DEF n, order
<1>5. \A i \in 1 .. n : /\ SlotRowsOf(order[i]) \in Seq(RowRecords)
                        /\ Len(SlotRowsOf(order[i])) = count(i) /\ count(i) \in Nat
  BY <1>2, SlotRowsAre
<1>6. s \in Seq(Seq(RowRecords)) /\ Len(s) = n /\ \A i \in 1 .. n : s[i] = SlotRowsOf(order[i])
  BY <1>3, <1>4, <1>5
<1>7. BatchRows(P) = FlattenSeq(s)
  BY Zenon DEF BatchRows, order
<1> HIDE DEF s
<1> DEFINE F == [p \in Nat \X (1 .. n) |-> IF p[2] = 1 THEN 0 ELSE p[1] + count(p[2] - 1)]
           body(f) == [i \in DOMAIN order |-> IF i = 1 THEN 0 ELSE f[i - 1] + count(i - 1)]
           off == CHOOSE f : f = body(f)
<1>8. F \in [Nat \X (1 .. n) -> Nat] /\ \A a \in Nat, i \in 1 .. n : i # 1 => F[<<a, i>>] = a + count(i - 1)
  <2>1. \A a \in Nat, i \in 1 .. n : i # 1 => a + count(i - 1) \in Nat
    <3> TAKE a \in Nat, i \in 1 .. n
    <3> HAVE i # 1
    <3>1. i - 1 \in 1 .. n
      BY <1>4
    <3>2. count(i - 1) \in Nat
      BY <1>5, <3>1
    <3> HIDE DEF count
    <3> QED
      BY <3>2
  <2> HIDE DEF count
  <2> QED
    BY <2>1
<1> HIDE DEF F, count
<1>9. PICK g \in [1 .. n -> Nat] : \A i \in 1 .. n : g[i] = IF i = 1 THEN 0 ELSE F[<<g[i - 1], i>>]
  <2> DEFINE A == Nat
             base == 0
  <2>1. n \in Nat /\ base \in A /\ F \in [A \X (1 .. n) -> A]
    BY <1>2, <1>8
  <2> HIDE DEF A, base
  <2>2. \E g \in [1 .. n -> A] : Recurs(g, n, base, F)
    BY <2>1, RecursionExists
  <2> QED
    BY <2>2, Zenon DEF A, base, Recurs
<1>10. g = body(g)
  <2>1. \A i \in 1 .. n : g[i] = IF i = 1 THEN 0 ELSE g[i - 1] + count(i - 1)
    <3> TAKE i \in 1 .. n
    <3>1. CASE i = 1
      BY <1>9, <3>1
    <3>2. CASE i # 1
      <4>1. i - 1 \in 1 .. n
        BY <1>4, <3>2
      <4>2. g[i - 1] \in Nat
        BY <4>1
      <4> QED
        BY <1>8, <1>9, <3>2, <4>2
    <3> QED
      BY <3>1, <3>2
  <2> QED
    BY <1>3, <2>1
<1>11. off = body(off)
  <2> HIDE DEF body
  <2> QED
    BY <1>10, Zenon
<1>12. \A w \in P : WorkerOffset(P, w) = off[Place(P, w)]
  BY Zenon DEF WorkerOffset, order, count
<1> HIDE DEF off
<1>13. \A i \in 1 .. n : off[i] = IF i = 1 THEN 0 ELSE off[i - 1] + count(i - 1)
  BY <1>3, <1>11
<1>14. DOMAIN off = 1 .. n
  BY <1>3, <1>11
<1>15. \A i \in 1 .. n : off[i] \in Nat
  <2> DEFINE S == {k \in Nat : k + 1 <= n => off[k + 1] \in Nat}
  <2>1. 0 \in S
    BY <1>4, <1>13
  <2>2. ASSUME NEW k \in Nat, k \in S PROVE k + 1 \in S
    <3> SUFFICES ASSUME k + 2 <= n PROVE off[k + 2] \in Nat
      OBVIOUS
    <3>1. off[k + 1] \in Nat /\ k + 1 \in 1 .. n /\ k + 2 \in 1 .. n /\ k + 2 # 1 /\ k + 2 - 1 = k + 1
      BY <1>4, <2>2
    <3>2. count(k + 1) \in Nat
      BY <1>5, <3>1
    <3> DEFINE j == k + 2
    <3>3. off[j] = off[j - 1] + count(j - 1)
      <4>1. j \in 1 .. n /\ j # 1
        BY <3>1
      <4> HIDE DEF j, count
      <4> QED
        BY <1>13, <4>1
    <3>4. off[k + 2] = off[k + 1] + count(k + 1)
      BY ONLY <3>1, <3>3 DEF j
    <3> QED
      BY <3>1, <3>2, <3>4
  <2>3. Nat \subseteq S
    <3> HIDE DEF S
    <3> QED
      BY <2>1, <2>2, NatSetInduction
  <2> TAKE i \in 1 .. n
  <2>4. i - 1 \in Nat /\ i - 1 + 1 = i /\ i <= n
    BY <1>4
  <2>5. i - 1 \in S
    BY <2>3, <2>4
  <2> QED
    BY <2>4, <2>5
<1>16. Begins(off, s, n)
  <2>1. off = [i \in 1 .. n |-> off[i]]
    BY <1>3, <1>11
  <2>2. off \in [1 .. n -> Nat]
    BY <1>15, <2>1
  <2>3. ASSUME NEW i \in 1 .. n, i # 1 PROVE off[i] = off[i - 1] + Len(s[i - 1])
    <3>1. i - 1 \in 1 .. n
      BY <1>4, <2>3
    <3> QED
      BY <1>5, <1>6, <1>13, <2>3, <3>1 DEF count
  <2> QED
    BY <1>4, <1>13, <2>2, <2>3 DEF Begins
<1>17. /\ FlattenSeq(s) \in Seq(RowRecords)
       /\ \A j \in 1 .. n : \A r \in 1 .. Len(s[j]) :
             off[j] + r \in 1 .. Len(FlattenSeq(s)) /\ FlattenSeq(s)[off[j] + r] = s[j][r]
  BY <1>4, <1>6, <1>16, FlattenIs
<1>18. ASSUME NEW w \in P PROVE RowsAt(P, w)
  <2> DEFINE j == Place(P, w)
  <2>1. j \in 1 .. n /\ order[j] = w /\ WorkerOffset(P, w) = off[j]
    BY <1>2, <1>12
  <2>2. s[j] = SlotRowsOf(w) /\ Len(s[j]) = layout[w].count
    BY <1>5, <1>6, <2>1 DEF count
  <2>3. DOMAIN FlattenSeq(s) = 1 .. Len(FlattenSeq(s))
    BY <1>17, LenProperties
  <2> HIDE DEF j
  <2> QED
    BY <1>7, <1>17, <2>1, <2>2, <2>3 DEF RowsAt
<1> QED
  BY <1>7, <1>17, <1>18

(* The model has a column for every candidate and every pair of its rows.    *)
LEMMA ColumnsSuffice ==
    ASSUME NEW rows, rows \in Seq(RowRecords), NEW i \in DOMAIN rows
    PROVE  LET out == ForwardRows(rows)
           IN  /\ out.policy[i] = rows[i].tensor
               /\ \A c \in 1 .. rows[i].cands :
                     c \in DOMAIN out.sparse[i] /\ out.sparse[i][c] = <<rows[i].tensor, c>>
               /\ \A c \in 1 .. rows[i].pairs :
                     c \in DOMAIN out.joint[i] /\ out.joint[i][c] = <<rows[i].tensor, c>>
<1> DEFINE ks == {0} \cup {rows[j].cands : j \in DOMAIN rows}
           ps == {0} \cup {rows[j].pairs : j \in DOMAIN rows}
           k == Max(ks)
           p == Max(ps)
           wide == IF p > 0 THEN Max({k, 1}) ELSE k
           out == ForwardRows(rows)
           logits(m, j, width) == [c \in 1 .. m |-> IF c <= width THEN <<rows[j].tensor, c>> ELSE <<>>]
<1>1. \A j \in DOMAIN rows : rows[j].cands \in 0 .. Columns /\ rows[j].pairs \in 0 .. Columns
  <2> TAKE j \in DOMAIN rows
  <2>1. rows[j] \in RowRecords
    BY LenProperties, ElementOfSeq
  <2> QED
    BY <2>1 DEF RowRecords
<1>2. Columns \in Nat
  BY LayoutNumbers
<1>3. ks \in SUBSET (0 .. Columns) /\ ks # {} /\ ps \in SUBSET (0 .. Columns) /\ ps # {}
  BY <1>1, <1>2
<1>4. rows[i].cands \in ks /\ rows[i].pairs \in ps
  OBVIOUS
<1>5. k = Widest(rows, Cands) /\ p = Widest(rows, Pairs)
  BY Zenon DEF Widest, Cands, Pairs
<1> HIDE DEF ks, ps
<1>6. k \in ks /\ p \in ps /\ k >= rows[i].cands /\ p >= rows[i].pairs
  BY <1>2, <1>3, <1>4, GreatestIsThere
<1> HIDE DEF k, p
<1>7. k \in Nat /\ p \in Nat
  <2>1. k \in 0 .. Columns /\ p \in 0 .. Columns
    BY <1>3, <1>6
  <2> QED
    BY <1>2, <2>1
<1>8. wide \in Nat /\ wide >= k
  <2> DEFINE m == IF k > 1 THEN k ELSE 1
  <2>1. m \in {k, 1} /\ m >= k /\ m >= 1 /\ m \in Nat
    BY <1>7
  <2>2. Max({k, 1}) \in {k, 1} /\ \A y \in {k, 1} : Max({k, 1}) >= y
    <3>1. \E x \in {k, 1} : \A y \in {k, 1} : x >= y
      BY <2>1
    <3> QED
      BY <3>1, Zenon DEF Max
  <2> QED
    BY <1>7, <2>2
<1> HIDE DEF wide
<1>9. /\ out.policy[i] = rows[i].tensor
      /\ out.sparse[i] = logits(wide, i, rows[i].cands)
      /\ out.joint[i] = logits(p, i, rows[i].pairs)
  <2>1. out = [policy |-> [j \in DOMAIN rows |-> rows[j].tensor],
               sparse |-> [j \in DOMAIN rows |-> logits(wide, j, rows[j].cands)],
               joint |-> [j \in DOMAIN rows |-> logits(p, j, rows[j].pairs)]]
    BY <1>5, Zenon DEF ForwardRows, Logits, Cands, Pairs, wide
  <2> HIDE DEF out, logits
  <2> QED
    BY <2>1
<1> HIDE DEF out
<1>10. rows[i].cands \in Nat /\ rows[i].pairs \in Nat
  BY <1>1, <1>2
<1>11. ASSUME NEW c \in 1 .. rows[i].cands
       PROVE  c \in DOMAIN out.sparse[i] /\ out.sparse[i][c] = <<rows[i].tensor, c>>
  <2>1. c \in 1 .. wide /\ c <= rows[i].cands
    BY <1>6, <1>7, <1>8, <1>10
  <2> QED
    BY <1>9, <2>1
<1>12. ASSUME NEW c \in 1 .. rows[i].pairs
       PROVE  c \in DOMAIN out.joint[i] /\ out.joint[i][c] = <<rows[i].tensor, c>>
  <2>1. c \in 1 .. p /\ c <= rows[i].pairs
    BY <1>6, <1>7, <1>10
  <2> QED
    BY <1>9, <2>1
<1> QED
  BY <1>9, <1>11, <1>12 DEF out

(* Answers that are those of the rows reach the columns they are for.        *)
AnswersRows(w, s, from, out) ==
    \A r \in 1 .. s.count :
       /\ out.policy[from + r] = <<w, s.call, r>>
       /\ \A c \in 1 .. s.k : /\ c \in DOMAIN out.sparse[from + r]
                              /\ out.sparse[from + r][c] = <<<<w, s.call, r>>, c>>
       /\ \A c \in 1 .. s.p : /\ c \in DOMAIN out.joint[from + r]
                              /\ out.joint[from + r][c] = <<<<w, s.call, r>>, c>>

(* The columns a row of an array holds after the scatter.                    *)
LEMMA ColumnedIs ==
    ASSUME NEW array, DOMAIN array = Slots, NEW n \in 0 .. SlotRows, NEW from, NEW out
    PROVE  /\ DOMAIN Columned(array, n, from, out) = Slots
           /\ \A r \in 1 .. n : \A c \in 1 .. Columns :
                 c \in DOMAIN out[from + r] => Columned(array, n, from, out)[r][c] = out[from + r][c]
<1>1. Columned(array, n, from, out)
        = [r \in Slots |-> IF r <= n THEN [c \in 1 .. Columns |->
                                             IF c \in DOMAIN out[from + r] THEN out[from + r][c] ELSE array[r][c]]
                           ELSE array[r]]
  BY Zenon DEF Columned, Prefixed
<1>2. \A r \in 1 .. n : r \in Slots /\ r <= n
  BY LayoutNumbers
<1> QED
  BY <1>1, <1>2

(* A slot that waited and gets the answers of its rows fits.                 *)
LEMMA ScatteredFits ==
    ASSUME NEW w, NEW s, SlotFits(w, s), NEW from, NEW out, AnswersRows(w, s, from, out)
    PROVE  SlotFits(w, Scattered(s, from, out))
<1> DEFINE t == Scattered(s, from, out)
           policy == [r \in Slots |-> IF r <= s.count THEN out.policy[from + r] ELSE s.policy[r]]
           sparse == Columned(s.sparse, s.count, from, out.sparse)
           joint == Columned(s.joint, s.count, from, out.joint)
<1>1. /\ DOMAIN s = SlotFields /\ s.call \in Nat /\ s.count \in 0 .. SlotRows
      /\ s.k \in 0 .. Columns /\ s.p \in 0 .. Columns
      /\ DOMAIN s.tensor = Slots /\ DOMAIN s.policy = Slots /\ DOMAIN s.sparse = Slots /\ DOMAIN s.joint = Slots
      /\ s.cands \in [Slots -> 0 .. Columns] /\ s.pairs \in [Slots -> 0 .. Columns]
  BY DEF SlotFits
<1>2. t = [s EXCEPT !.state = "answered", !.policy = policy, !.sparse = sparse, !.joint = joint]
  BY <1>1, Zenon DEF Scattered, Prefixed
<1>3. DOMAIN sparse = Slots /\ DOMAIN joint = Slots
  BY <1>1, ColumnedIs
<1>4. ASSUME NEW r \in 1 .. s.count
      PROVE  /\ policy[r] = <<w, s.call, r>>
             /\ \A c \in 1 .. s.k : sparse[r][c] = <<<<w, s.call, r>>, c>>
             /\ \A c \in 1 .. s.p : joint[r][c] = <<<<w, s.call, r>>, c>>
  <2>1. r \in Slots /\ r <= s.count
    BY <1>1, LayoutNumbers
  <2>2. policy[r] = out.policy[from + r]
    BY <2>1
  <2>3. (\A c \in 1 .. s.k : c \in 1 .. Columns) /\ (\A c \in 1 .. s.p : c \in 1 .. Columns)
    BY <1>1, LayoutNumbers
  <2>4. /\ \A c \in 1 .. Columns : c \in DOMAIN out.sparse[from + r] => sparse[r][c] = out.sparse[from + r][c]
        /\ \A c \in 1 .. Columns : c \in DOMAIN out.joint[from + r] => joint[r][c] = out.joint[from + r][c]
    BY <1>1, ColumnedIs
  <2> HIDE DEF policy, sparse, joint
  <2> QED
    BY <2>2, <2>3, <2>4 DEF AnswersRows
<1>5. DOMAIN policy = Slots
  OBVIOUS
<1> HIDE DEF t, policy, sparse, joint
<1>6. /\ DOMAIN t = SlotFields /\ t.state = "answered" /\ t.call = s.call /\ t.count = s.count /\ t.k = s.k /\ t.p = s.p
      /\ t.tensor = s.tensor /\ t.cands = s.cands /\ t.pairs = s.pairs
      /\ t.policy = policy /\ t.sparse = sparse /\ t.joint = joint
  BY <1>1, <1>2 DEF SlotFields
<1>7. Came(w, t)
  <2>1. ASSUME NEW r \in 1 .. s.count
        PROVE  /\ t.policy[r] = <<w, t.call, r>>
               /\ \A c \in 1 .. t.k : t.sparse[r][c] = <<<<w, t.call, r>>, c>>
               /\ \A c \in 1 .. t.p : t.joint[r][c] = <<<<w, t.call, r>>, c>>
    <3>1. t.policy[r] = policy[r] /\ t.sparse[r] = sparse[r] /\ t.joint[r] = joint[r]
      BY <1>6
    <3> QED
      BY <1>4, <1>6, <3>1
  <2> QED
    BY <1>6, <2>1 DEF Came
<1>8. t.state # "waiting"
  BY <1>6
<1> HIDE DEF t
<1>9. SlotFits(w, t)
  BY <1>1, <1>3, <1>5, <1>6, <1>7, <1>8, Zenon DEF SlotFits
<1> QED
  BY <1>9 DEF t

(* Empty slots fit.                                                          *)
LEMMA InitFits == LayoutInit => LayoutInv
<1> SUFFICES ASSUME LayoutInit, NEW w \in BatchWorkers PROVE DOMAIN layout = BatchWorkers /\ SlotFits(w, layout[w])
  BY DEF LayoutInit, LayoutInv
<1> DEFINE s == [state |-> "idle", call |-> 0, count |-> 0, k |-> 0, p |-> 0,
                 tensor |-> [r \in Slots |-> <<>>], cands |-> [r \in Slots |-> 0],
                 pairs |-> [r \in Slots |-> 0], policy |-> [r \in Slots |-> <<>>],
                 sparse |-> Blank, joint |-> Blank]
<1>1. layout = [v \in BatchWorkers |-> s]
  BY Zenon DEF LayoutInit
<1>2. layout[w] = s /\ DOMAIN layout = BatchWorkers
  BY <1>1
<1>3. 0 \in Nat /\ 0 \in 0 .. Columns /\ 0 \in 0 .. SlotRows
  BY LayoutNumbers
<1>4. /\ DOMAIN s = SlotFields /\ s.call = 0 /\ s.count = 0 /\ s.k = 0 /\ s.p = 0
      /\ DOMAIN s.tensor = Slots /\ DOMAIN s.policy = Slots /\ DOMAIN s.sparse = Slots /\ DOMAIN s.joint = Slots
      /\ s.cands = [r \in Slots |-> 0] /\ s.pairs = [r \in Slots |-> 0] /\ s.state = "idle"
  BY DEF SlotFields, Blank
<1> HIDE DEF s
<1>5. s.cands \in [Slots -> 0 .. Columns] /\ s.pairs \in [Slots -> 0 .. Columns]
  BY <1>3, <1>4
<1>6. SlotFits(w, s)
  BY <1>3, <1>4, <1>5 DEF SlotFits
<1> QED
  BY <1>2, <1>6

(* A slot alone changes.                                                     *)
LEMMA SlotChanges ==
    ASSUME LayoutInv, NEW w \in BatchWorkers, NEW t, SlotFits(w, t), layout' = [layout EXCEPT ![w] = t]
    PROVE  LayoutInv'
<1>1. DOMAIN layout = BatchWorkers /\ \A v \in BatchWorkers : SlotFits(v, layout[v])
  BY DEF LayoutInv
<1>2. DOMAIN layout' = BatchWorkers /\ layout'[w] = t /\ \A v \in BatchWorkers \ {w} : layout'[v] = layout[v]
  BY <1>1
<1>3. ASSUME NEW v \in BatchWorkers PROVE SlotFits(v, layout'[v])
  BY <1>1, <1>2
<1>4. \A v \in BatchWorkers : SlotFits(v, layout[v])'
  BY <1>3, Zenon DEF SlotFits, Written, Came
<1> QED
  BY <1>2, <1>4 DEF LayoutInv

(* A request has the rows of its own call, over whatever the slot held.      *)
LEMMA WriteRequestKeeps ==
    ASSUME LayoutInv, NEW w \in BatchWorkers, NEW count \in Slots, NEW k \in 0 .. Columns, NEW p \in 0 .. Columns,
           WriteRequest(w, count, k, p)
    PROVE  LayoutInv'
<1> DEFINE s == layout[w]
           call == s.call + 1
           tensor == [r \in Slots |-> IF r <= count THEN <<w, call, r>> ELSE s.tensor[r]]
           cands == [r \in Slots |-> IF r <= count THEN k
                                     ELSE IF k \in 1 .. Columns - 1 /\ p = 0 THEN 0 ELSE s.cands[r]]
           pairs == [r \in Slots |-> IF r <= count THEN p ELSE s.pairs[r]]
           t == [s EXCEPT !.state = "waiting", !.call = call, !.count = count, !.k = k, !.p = p,
                          !.tensor = tensor, !.cands = cands, !.pairs = pairs]
<1>1. /\ DOMAIN s = SlotFields /\ s.call \in Nat
      /\ DOMAIN s.tensor = Slots /\ DOMAIN s.policy = Slots /\ DOMAIN s.sparse = Slots /\ DOMAIN s.joint = Slots
      /\ s.cands \in [Slots -> 0 .. Columns] /\ s.pairs \in [Slots -> 0 .. Columns]
  BY DEF LayoutInv, SlotFits
<1> HIDE DEF s
<1>2. layout' = [layout EXCEPT ![w] = t]
  <2>1. /\ Prefixed(s.tensor, count, LAMBDA r : <<w, call, r>>) = tensor
        /\ Prefixed(s.pairs, count, LAMBDA r : p) = pairs
    <3>1. DOMAIN s.tensor = Slots /\ DOMAIN s.pairs = Slots
      BY <1>1
    <3> QED
      BY <3>1, Zenon DEF Prefixed
  <2>2. layout' = [layout EXCEPT ![w] =
              [s EXCEPT !.state = "waiting", !.call = call, !.count = count, !.k = k, !.p = p,
                        !.tensor = Prefixed(s.tensor, count, LAMBDA r : <<w, call, r>>),
                        !.cands = cands,
                        !.pairs = Prefixed(s.pairs, count, LAMBDA r : p)]]
    BY Zenon DEF WriteRequest, s
  <2> HIDE DEF tensor, pairs, cands, call
  <2> QED
    BY <2>1, <2>2, Zenon
<1>3. DOMAIN tensor = Slots
  OBVIOUS
<1>4. cands \in [Slots -> 0 .. Columns] /\ pairs \in [Slots -> 0 .. Columns]
  <2>1. 0 \in 0 .. Columns
    BY LayoutNumbers
  <2>2. \A r \in Slots : s.cands[r] \in 0 .. Columns /\ s.pairs[r] \in 0 .. Columns
    BY <1>1
  <2> QED
    BY <2>1, <2>2
<1>5. ASSUME NEW r \in 1 .. count PROVE tensor[r] = <<w, call, r>> /\ cands[r] = k /\ pairs[r] = p
  <2>1. r \in Slots /\ r <= count
    BY LayoutNumbers DEF Slots
  <2> QED
    BY <2>1
<1>6. call \in Nat /\ count \in 0 .. SlotRows
  BY <1>1, LayoutNumbers DEF Slots
<1> HIDE DEF t, tensor, cands, pairs, call
<1>7. /\ DOMAIN t = SlotFields /\ t.state = "waiting" /\ t.call = call /\ t.count = count /\ t.k = k /\ t.p = p
      /\ t.tensor = tensor /\ t.cands = cands /\ t.pairs = pairs
      /\ t.policy = s.policy /\ t.sparse = s.sparse /\ t.joint = s.joint
  BY <1>1 DEF SlotFields, t
<1>8. Written(w, t)
  BY <1>5, <1>7 DEF Written
<1>9. SlotFits(w, t)
  BY <1>1, <1>3, <1>4, <1>6, <1>7, <1>8 DEF SlotFits
<1> QED
  BY <1>2, <1>9, SlotChanges

(* A batch answers every row of the workers in it and touches no other slot. *)
LEMMA RunBatchKeeps ==
    ASSUME LayoutInv, NEW P \in SUBSET BatchWorkers, RunBatch(P)
    PROVE  LayoutInv'
<1> DEFINE rows == BatchRows(P)
           out == ForwardRows(rows)
<1>1. P # {} /\ \A w \in P : layout[w].state = "waiting"
  BY DEF RunBatch
<1>2. layout' = [w \in BatchWorkers |->
                   IF w \in P THEN Scattered(layout[w], WorkerOffset(P, w), out) ELSE layout[w]]
  BY Zenon DEF RunBatch
<1>3. \A w \in BatchWorkers : SlotFits(w, layout[w])
  BY DEF LayoutInv
<1>4. rows \in Seq(RowRecords) /\ \A w \in P : RowsAt(P, w)
  BY <1>1, RowsAreLaid
<1>5. ASSUME NEW w \in P PROVE AnswersRows(w, layout[w], WorkerOffset(P, w), out)
  <2> DEFINE s == layout[w]
             from == WorkerOffset(P, w)
  <2>1. \A r \in 1 .. s.count : from + r \in DOMAIN rows /\ rows[from + r] = SlotRowsOf(w)[r]
    BY <1>4 DEF RowsAt
  <2>2. Written(w, s)
    BY <1>1, <1>3 DEF SlotFits
  <2>3. \A r \in 1 .. s.count : SlotRowsOf(w)[r] = [tensor |-> s.tensor[r], cands |-> s.cands[r], pairs |-> s.pairs[r]]
    <3>1. w \in BatchWorkers
      OBVIOUS
    <3> QED
      BY <3>1, SlotRowsAre, Zenon
  <2> HIDE DEF s, from, rows
  <2>4. ASSUME NEW r \in 1 .. s.count
        PROVE  /\ rows[from + r].tensor = <<w, s.call, r>> /\ rows[from + r].cands = s.k /\ rows[from + r].pairs = s.p
    <3>1. rows[from + r] = [tensor |-> s.tensor[r], cands |-> s.cands[r], pairs |-> s.pairs[r]]
      BY <2>1, <2>3
    <3>2. s.tensor[r] = <<w, s.call, r>> /\ s.cands[r] = s.k /\ s.pairs[r] = s.p
      BY <1>1, <2>2, Zenon DEF Written, s
    <3> QED
      BY ONLY <3>1, <3>2
  <2>5. ASSUME NEW i \in DOMAIN rows
        PROVE  /\ out.policy[i] = rows[i].tensor
               /\ \A c \in 1 .. rows[i].cands :
                     c \in DOMAIN out.sparse[i] /\ out.sparse[i][c] = <<rows[i].tensor, c>>
               /\ \A c \in 1 .. rows[i].pairs :
                     c \in DOMAIN out.joint[i] /\ out.joint[i][c] = <<rows[i].tensor, c>>
    BY <1>4, ColumnsSuffice, Zenon
  <2> HIDE DEF out
  <2>6. ASSUME NEW r \in 1 .. s.count
        PROVE  /\ out.policy[from + r] = <<w, s.call, r>>
               /\ \A c \in 1 .. s.k : /\ c \in DOMAIN out.sparse[from + r]
                                      /\ out.sparse[from + r][c] = <<<<w, s.call, r>>, c>>
               /\ \A c \in 1 .. s.p : /\ c \in DOMAIN out.joint[from + r]
                                      /\ out.joint[from + r][c] = <<<<w, s.call, r>>, c>>
    <3> DEFINE i == from + r
    <3>1. i \in DOMAIN rows
      BY <2>1
    <3>2. rows[i].tensor = <<w, s.call, r>> /\ rows[i].cands = s.k /\ rows[i].pairs = s.p
      BY <2>4
    <3> HIDE DEF i
    <3>3. /\ out.policy[i] = rows[i].tensor
          /\ \A c \in 1 .. rows[i].cands :
                     c \in DOMAIN out.sparse[i] /\ out.sparse[i][c] = <<rows[i].tensor, c>>
          /\ \A c \in 1 .. rows[i].pairs :
                     c \in DOMAIN out.joint[i] /\ out.joint[i][c] = <<rows[i].tensor, c>>
      BY <2>5, <3>1
    <3>4. /\ out.policy[i] = <<w, s.call, r>>
          /\ \A c \in 1 .. s.k : c \in DOMAIN out.sparse[i] /\ out.sparse[i][c] = <<<<w, s.call, r>>, c>>
          /\ \A c \in 1 .. s.p : c \in DOMAIN out.joint[i] /\ out.joint[i][c] = <<<<w, s.call, r>>, c>>
      BY <3>2, <3>3
    <3> QED
      BY <3>4 DEF i
  <2>7. AnswersRows(w, s, from, out)
    BY <2>6, Zenon DEF AnswersRows
  <2> QED
    BY <2>7 DEF s, from
<1> HIDE DEF out
<1>6. ASSUME NEW w \in BatchWorkers PROVE SlotFits(w, layout'[w])
  <2>1. CASE w \in P
    <3>1. layout'[w] = Scattered(layout[w], WorkerOffset(P, w), out)
      BY <1>2, <2>1
    <3>2. SlotFits(w, Scattered(layout[w], WorkerOffset(P, w), out))
      BY <1>3, <1>5, <2>1, ScatteredFits
    <3> QED
      BY <3>1, <3>2
  <2>2. CASE w \notin P
    BY <1>2, <1>3, <2>2
  <2> QED
    BY <2>1, <2>2
<1>7. DOMAIN layout' = BatchWorkers
  BY <1>2
<1>8. \A w \in BatchWorkers : SlotFits(w, layout[w])'
  BY <1>6, Zenon DEF SlotFits, Written, Came
<1> QED
  BY <1>7, <1>8 DEF LayoutInv

(* A call that returns, or that is given up, leaves counts that fit.         *)
LEMMA ReturnKeeps ==
    ASSUME LayoutInv, NEW w \in BatchWorkers, ReadAnswer(w) \/ AbandonCall(w)
    PROVE  LayoutInv'
<1> DEFINE s == layout[w]
           m == IF s.k > 0 THEN s.count ELSE 0
           n == IF s.p > 0 THEN s.count ELSE 0
           cands == [r \in Slots |-> IF r <= m THEN 0 ELSE s.cands[r]]
           pairs == [r \in Slots |-> IF r <= n THEN 0 ELSE s.pairs[r]]
           t == [s EXCEPT !.state = "idle", !.cands = cands, !.pairs = pairs]
           u == [s EXCEPT !.state = "idle"]
<1>1. /\ DOMAIN s = SlotFields /\ s.call \in Nat /\ s.count \in 0 .. SlotRows
      /\ s.k \in 0 .. Columns /\ s.p \in 0 .. Columns
      /\ DOMAIN s.tensor = Slots /\ DOMAIN s.policy = Slots /\ DOMAIN s.sparse = Slots /\ DOMAIN s.joint = Slots
      /\ s.cands \in [Slots -> 0 .. Columns] /\ s.pairs \in [Slots -> 0 .. Columns]
  BY DEF LayoutInv, SlotFits
<1> HIDE DEF s
<1>2. CASE ReadAnswer(w)
  <2>1. DOMAIN s.cands = Slots /\ DOMAIN s.pairs = Slots
    BY <1>1
  <2>2. Prefixed(s.cands, m, LAMBDA r : 0) = cands /\ Prefixed(s.pairs, n, LAMBDA r : 0) = pairs
    BY <2>1, Zenon DEF Prefixed
  <2>3. layout' = [layout EXCEPT ![w] = [s EXCEPT !.state = "idle", !.cands = Prefixed(s.cands, m, LAMBDA r : 0),
                                                  !.pairs = Prefixed(s.pairs, n, LAMBDA r : 0)]]
    BY <1>2, Zenon DEF ReadAnswer, s
  <2>4. layout' = [layout EXCEPT ![w] = t]
    <3> HIDE DEF cands, pairs, m, n
    <3> QED
      BY <2>2, <2>3, Zenon
  <2>5. cands \in [Slots -> 0 .. Columns] /\ pairs \in [Slots -> 0 .. Columns]
    <3>1. 0 \in 0 .. Columns
      BY LayoutNumbers
    <3>2. \A r \in Slots : s.cands[r] \in 0 .. Columns /\ s.pairs[r] \in 0 .. Columns
      BY <1>1
    <3> HIDE DEF m, n
    <3> QED
      BY <3>1, <3>2
  <2> HIDE DEF t, cands, pairs
  <2>6. /\ DOMAIN t = SlotFields /\ t.state = "idle" /\ t.call = s.call /\ t.count = s.count /\ t.k = s.k /\ t.p = s.p
        /\ t.tensor = s.tensor /\ t.cands = cands /\ t.pairs = pairs
        /\ t.policy = s.policy /\ t.sparse = s.sparse /\ t.joint = s.joint
    BY <1>1 DEF SlotFields, t
  <2>7. SlotFits(w, t)
    BY <1>1, <2>5, <2>6 DEF SlotFits
  <2> QED
    BY <2>4, <2>7, SlotChanges
<1>3. CASE AbandonCall(w)
  <2>1. layout' = [layout EXCEPT ![w] = u]
    BY <1>3, Zenon DEF AbandonCall, s
  <2> HIDE DEF u
  <2>2. /\ DOMAIN u = SlotFields /\ u.state = "idle" /\ u.call = s.call /\ u.count = s.count /\ u.k = s.k /\ u.p = s.p
        /\ u.tensor = s.tensor /\ u.cands = s.cands /\ u.pairs = s.pairs
        /\ u.policy = s.policy /\ u.sparse = s.sparse /\ u.joint = s.joint
    BY <1>1 DEF SlotFields, u
  <2>3. SlotFits(w, u)
    BY <1>1, <2>2 DEF SlotFits
  <2> QED
    BY <2>1, <2>3, SlotChanges
<1> QED
  BY <1>2, <1>3

(* Every step keeps every slot fitting.                                      *)
LEMMA LayoutSteps == LayoutInv /\ [LayoutNext]_layout => LayoutInv'
<1>1. ASSUME LayoutInv, NEW P \in SUBSET BatchWorkers, RunBatch(P) PROVE LayoutInv'
  BY <1>1, RunBatchKeeps, Zenon
<1>2. ASSUME LayoutInv, NEW w \in BatchWorkers, ReadAnswer(w) \/ AbandonCall(w) PROVE LayoutInv'
  BY <1>2, ReturnKeeps, Zenon
<1>3. ASSUME LayoutInv, NEW w \in BatchWorkers, NEW count \in Slots, NEW k \in 0 .. Columns,
             NEW p \in 0 .. Columns, WriteRequest(w, count, k, p)
      PROVE  LayoutInv'
  BY <1>3, WriteRequestKeeps, Zenon
<1>4. LayoutInv /\ UNCHANGED layout => LayoutInv'
  <2> SUFFICES ASSUME LayoutInv, UNCHANGED layout PROVE LayoutInv'
    OBVIOUS
  <2>1. layout' = layout /\ DOMAIN layout = BatchWorkers /\ \A w \in BatchWorkers : SlotFits(w, layout[w])
    BY DEF LayoutInv
  <2>2. \A w \in BatchWorkers : SlotFits(w, layout'[w])
    BY <2>1, Zenon
  <2>3. \A w \in BatchWorkers : SlotFits(w, layout[w])'
    BY <2>2, Zenon DEF SlotFits, Written, Came
  <2> QED
    BY <2>1, <2>3 DEF LayoutInv
<1> QED
  <2> SUFFICES ASSUME LayoutInv, LayoutNext PROVE LayoutInv'
    BY <1>4, Zenon
  <2>1. \/ \E P \in SUBSET BatchWorkers : RunBatch(P)
        \/ \E w \in BatchWorkers : ReadAnswer(w) \/ AbandonCall(w)
        \/ \E w \in BatchWorkers : \E count \in Slots, k, p \in 0 .. Columns : WriteRequest(w, count, k, p)
    BY Zenon DEF LayoutNext
  <2>2. CASE \E P \in SUBSET BatchWorkers : RunBatch(P)
    BY <1>1, <2>2, Zenon
  <2>3. CASE \E w \in BatchWorkers : ReadAnswer(w) \/ AbandonCall(w)
    BY <1>2, <2>3, Zenon
  <2>4. CASE \E w \in BatchWorkers : \E count \in Slots, k, p \in 0 .. Columns : WriteRequest(w, count, k, p)
    BY <1>3, <2>4, Zenon
  <2> QED
    BY <2>1, <2>2, <2>3, <2>4, Zenon

(* An answered slot that fits holds the answers.                             *)
LEMMA LayoutFollows == LayoutInv => RowsComeBack
BY Zenon DEF LayoutInv, SlotFits, Came, RowsComeBack

(* Whatever the workers, the sizes of the slots and the calls that finished  *)
(* or were abandoned before: _build_batch lays the rows of the waiting       *)
(* workers one after the other, the running offset of _scatter_results is    *)
(* where the rows of a worker begin, and so a worker that is answered finds  *)
(* the answer to each of its rows, candidates and pairs in its own slot.     *)
THEOREM RowsComeBackHolds == LayoutSpec => []RowsComeBack
BY InitFits, LayoutSteps, LayoutFollows, PTL DEF LayoutSpec
=============================================================================
