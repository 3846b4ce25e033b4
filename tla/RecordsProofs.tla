--------------------------- MODULE RecordsProofs ---------------------------
(* Proofs about the way of a game's records, for any number of workers and   *)
(* callers, games, kills and places in the queues: SelfPlayRun from the      *)
(* workers to the replay buffer of the orchestrator, BufferProcess from its  *)
(* callers to the buffer in a process of its own, and ReplayTargets what the *)
(* positions of a game learn, for games of any length from any ply.          *)
EXTENDS SelfPlayRun, BufferProcess, ReplayTargets, SequenceTheorems, FiniteSetTheorems, TLAPS

-----------------------------------------------------------------------------
(* Sequences as queues of distinct elements.                                 *)

(* What joins the end of a queue is an element of it; a queue of distinct    *)
(* elements that lacks it stays one.                                         *)
LEMMA Joined ==
    ASSUME NEW S, NEW s \in Seq(S), NEW x \in S
    PROVE  /\ Append(s, x) \in Seq(S) /\ ToSet(Append(s, x)) = ToSet(s) \cup {x}
           /\ Append(s, x) # << >>
           /\ IsInjective(s) /\ x \notin ToSet(s) => IsInjective(Append(s, x))
<1>1. PICK a \in Seq(S) : a = Append(s, x)
  BY AppendProperties
<1>2. /\ Len(a) = Len(s) + 1 /\ a # << >>
      /\ \A i \in 1 .. Len(s) : a[i] = s[i]
      /\ a[Len(s) + 1] = x
  BY <1>1, AppendProperties
<1>3. DOMAIN a = 1 .. Len(s) + 1 /\ DOMAIN s = 1 .. Len(s) /\ Len(s) \in Nat
  BY <1>2, LenProperties
<1>4. ToSet(a) = ToSet(s) \cup {x}
  BY <1>2, <1>3 DEF ToSet
<1>5. ASSUME IsInjective(s), x \notin ToSet(s) PROVE IsInjective(a)
  <2> SUFFICES ASSUME NEW i \in DOMAIN a, NEW j \in DOMAIN a, a[i] = a[j] PROVE i = j
    BY DEF IsInjective
  <2>1. \A k \in 1 .. Len(s) : s[k] # x
    BY <1>3, <1>5 DEF ToSet
  <2>2. CASE i \in 1 .. Len(s) /\ j \in 1 .. Len(s)
    BY <1>2, <1>3, <1>5, <2>2 DEF IsInjective
  <2>3. CASE i = Len(s) + 1 \/ j = Len(s) + 1
    BY <1>2, <1>3, <2>1, <2>3
  <2> QED
    BY <1>3, <2>2, <2>3
<1> QED
  BY <1>1, <1>2, <1>4, <1>5

(* What leaves the head of a queue of distinct elements is not left in it.   *)
LEMMA Left ==
    ASSUME NEW S, NEW s \in Seq(S), s # << >>
    PROVE  /\ Head(s) \in S /\ Tail(s) \in Seq(S) /\ ToSet(s) = ToSet(Tail(s)) \cup {Head(s)}
           /\ IsInjective(s) => IsInjective(Tail(s)) /\ Head(s) \notin ToSet(Tail(s))
<1>1. PICK t \in Seq(S) : t = Tail(s)
  BY HeadTailProperties
<1>2. PICK h \in S : h = Head(s)
  BY HeadTailProperties
<1>3. Len(t) = Len(s) - 1 /\ \A i \in 1 .. Len(t) : t[i] = s[i + 1]
  BY <1>1, HeadTailProperties, Zenon
<1>4. h = s[1] /\ Len(s) \in Nat \ {0}
  BY <1>2, EmptySeq
<1>5. DOMAIN t = 1 .. Len(t) /\ DOMAIN s = 1 .. Len(s)
  BY LenProperties, Zenon
<1>6. ToSet(s) \subseteq ToSet(t) \cup {h}
  <2> SUFFICES ASSUME NEW i \in 1 .. Len(s), i # 1 PROVE s[i] \in ToSet(t)
    BY <1>4, <1>5 DEF ToSet
  <2>1. i - 1 \in 1 .. Len(t) /\ t[i - 1] = s[i]
    BY <1>3, <1>4
  <2> QED
    BY <1>5, <2>1 DEF ToSet
<1>7. ToSet(t) \cup {h} \subseteq ToSet(s)
  <2>1. \A i \in 1 .. Len(t) : i + 1 \in 1 .. Len(s)
    BY <1>3, <1>4
  <2>2. 1 \in 1 .. Len(s)
    BY <1>4
  <2> QED
    BY <1>3, <1>4, <1>5, <2>1, <2>2 DEF ToSet
<1>8. ASSUME IsInjective(s) PROVE IsInjective(t) /\ h \notin ToSet(t)
  <2>1. \A i \in 1 .. Len(t) : i + 1 \in 1 .. Len(s) /\ i \in Int /\ i + 1 # 1
    BY <1>3, <1>4
  <2>2. \A i, j \in 1 .. Len(t) : t[i] = t[j] => i + 1 = j + 1
    BY <1>3, <1>5, <1>8, <2>1 DEF IsInjective
  <2>3. \A i \in 1 .. Len(t) : t[i] # h
    BY <1>3, <1>4, <1>5, <1>8, <2>1 DEF IsInjective
  <2> QED
    BY <1>5, <2>1, <2>2, <2>3 DEF IsInjective, ToSet
<1> QED
  BY <1>1, <1>2, <1>6, <1>7, <1>8

LEMMA EmptyQueue ==
    /\ \A S : << >> \in Seq(S)
    /\ ToSet(<< >>) = {} /\ IsInjective(<< >>)
BY DEF ToSet, IsInjective

LEMMA MembersOf ==
    ASSUME NEW S, NEW s \in Seq(S)
    PROVE  ToSet(s) \subseteq S
BY LenProperties, ElementOfSeq DEF ToSet

-----------------------------------------------------------------------------
(* The run: types.                                                           *)

Rec == [by : Players, id : Nat, life : Nat, no : Nat]

PlayerPCs == {"absent", "head", "playing", "offer", "put", "leaving", "gone"}
CollectorPCs == {"check", "get", "reading", "ingest", "count", "exited"}
OrchestratorPCs == {"start", "watch", "monitor", "stop", "join", "drain", "closed"}

WorkersTyped ==
    /\ ppc \in [Players -> PlayerPCs] /\ counter \in [Players -> Nat] /\ crashes \in [Players -> Nat]
    /\ hold \in [Players -> Rec \cup {NoRecord}] /\ made \in Nat /\ life \in [Players -> Nat]

QueueTyped ==
    /\ feeder \in [Players -> Seq(Rec)] /\ pipe \in Seq(Rec) /\ room \in Nat
    /\ accepted \in SUBSET Rec /\ killed \in Seq(Seq(Rec))

CollectorTyped ==
    /\ cpc \in CollectorPCs /\ hand \in Rec \cup {NoRecord} /\ stored \in Seq(Rec)
    /\ bad \in SUBSET Rec
    /\ cpc = "ingest" => hand \in Rec

OrchestratorTyped ==
    stopEvent \in BOOLEAN /\ opc \in OrchestratorPCs /\ turn \in 0 .. PlayerCount

(* A record that a worker offers is the one of its current game.             *)
HeldIsCurrent ==
    \A w \in Players : ppc[w] \in {"offer", "put"} =>
        /\ hold[w] \in Rec
        /\ hold[w].by = w /\ hold[w].life = life[w] /\ hold[w].id = counter[w]

(* While the orchestrator joins the workers those before its turn are gone,  *)
(* and none of them comes back.                                              *)
WorkersStopped ==
    /\ opc = "join" => \A w \in Players : w < turn => ~Alive(w)
    /\ opc \in {"drain", "closed"} => \A w \in Players : ~Alive(w)

RunTyped == WorkersTyped /\ QueueTyped /\ CollectorTyped /\ OrchestratorTyped

LEMMA PlayersAreNumbers ==
    PlayerCount \in Nat /\ 0 \in 0 .. PlayerCount /\ \A w \in Players : w \in Int /\ 0 <= w /\ w < PlayerCount
BY RunConstants DEF Players

LEMMA RunStarts == RunInit => RunTyped /\ HeldIsCurrent /\ WorkersStopped
<1> SUFFICES ASSUME RunInit PROVE RunTyped /\ HeldIsCurrent /\ WorkersStopped
  OBVIOUS
<1> USE DEF RunInit, InitAt
<1>1. WorkersTyped
  BY DEF WorkersTyped, PlayerPCs
<1>2. QueueTyped
  <2>1. feeder \in [Players -> Seq(Rec)] /\ pipe \in Seq(Rec) /\ killed \in Seq(Seq(Rec))
    BY EmptyQueue
  <2>2. room \in Nat /\ accepted \in SUBSET Rec
    BY RunConstants
  <2> QED
    BY <2>1, <2>2 DEF QueueTyped
<1>3. CollectorTyped
  BY EmptyQueue DEF CollectorTyped, CollectorPCs
<1>4. OrchestratorTyped
  BY PlayersAreNumbers DEF OrchestratorTyped, OrchestratorPCs
<1>5. HeldIsCurrent /\ WorkersStopped
  BY DEF HeldIsCurrent, WorkersStopped
<1> QED
  BY <1>1, <1>2, <1>3, <1>4, <1>5 DEF RunTyped

USE DEF workerVars, queueVars, collectorVars, orchVars

(* What the steps of a worker, its feeder and its end leave alone.           *)
LEMMA WorkerSteps ==
    ASSUME RunTyped, HeldIsCurrent, WorkersStopped, NEW w \in Players,
           ProcessStep(w) \/ FinishGame(w) \/ GameInvalid(w) \/ GameRaises(w)
    PROVE  /\ WorkersTyped' /\ OrchestratorTyped' /\ HeldIsCurrent' /\ WorkersStopped'
           /\ UNCHANGED <<collectorVars, killed>>
<1> USE DEF RunTyped, WorkersTyped, OrchestratorTyped, HeldIsCurrent, WorkersStopped, PlayerPCs, Alive, WorkerAt
<1>1. CASE BeginGame(w)
  BY <1>1 DEF BeginGame
<1>2. CASE LeaveLoop(w)
  BY <1>2 DEF LeaveLoop
<1>3. CASE Offer(w)
  BY <1>3 DEF Offer
<1>4. CASE DropRecord(w)
  BY <1>4 DEF DropRecord
<1>5. CASE Put(w)
  BY <1>5 DEF Put
<1>6. CASE PutFull(w)
  BY <1>6 DEF PutFull
<1>7. CASE Exit(w)
  BY <1>7 DEF Exit
<1>8. CASE FinishGame(w)
  BY <1>8 DEF FinishGame, Rec
<1>9. CASE GameInvalid(w)
  BY <1>9 DEF GameInvalid
<1>10. CASE GameRaises(w)
  BY <1>10 DEF GameRaises
<1> QED
  BY <1>1, <1>2, <1>3, <1>4, <1>5, <1>6, <1>7, <1>8, <1>9, <1>10 DEF ProcessStep

LEMMA OrchestratorSteps ==
    ASSUME RunTyped, HeldIsCurrent, WorkersStopped,
           \/ SpawnWorker \/ Watch \/ Monitor \/ CheckEpoch \/ BeginStop \/ WorkerJoined
           \/ WorkersGone \/ CollectorJoined \/ DrainTimesOut \/ StopSignal
    PROVE  /\ WorkersTyped' /\ OrchestratorTyped' /\ HeldIsCurrent' /\ WorkersStopped'
           /\ UNCHANGED <<collectorVars, queueVars, killed>>
<1>1. OrchestratorTyped' /\ UNCHANGED <<collectorVars, queueVars, killed>>
  <2> USE RunConstants DEF RunTyped, OrchestratorTyped, OrchestratorPCs
  <2>1. CASE SpawnWorker \/ Monitor \/ WorkerJoined
    BY <2>1 DEF SpawnWorker, Monitor, WorkerJoined
  <2>2. CASE Watch \/ CheckEpoch \/ BeginStop
    BY <2>2, PlayersAreNumbers DEF Watch, CheckEpoch, BeginStop
  <2>3. CASE WorkersGone \/ CollectorJoined \/ DrainTimesOut \/ StopSignal
    BY <2>3 DEF WorkersGone, CollectorJoined, DrainTimesOut, StopSignal
  <2> QED
    BY <2>1, <2>2, <2>3
<1> USE PlayersAreNumbers
<1> USE DEF RunTyped, WorkersTyped, OrchestratorTyped, HeldIsCurrent, WorkersStopped, PlayerPCs, Alive
<1>2. ASSUME turn \in Players, Fresh(turn) PROVE WorkersTyped' /\ HeldIsCurrent'
  BY <1>2 DEF Fresh, WorkerAt
<1>3. ASSUME UNCHANGED workerVars PROVE WorkersTyped' /\ HeldIsCurrent'
  BY <1>3
<1>4. CASE SpawnWorker
  <2>1. turn \in Players
    BY <1>4 DEF SpawnWorker, Players
  <2> QED
    BY <1>1, <1>2, <1>4, <2>1 DEF SpawnWorker
<1>5. CASE Monitor
  <2>1. turn \in Players
    BY <1>5 DEF Monitor, Players
  <2> QED
    BY <1>1, <1>2, <1>3, <1>5, <2>1 DEF Monitor
<1>6. CASE Watch \/ CheckEpoch \/ BeginStop \/ CollectorJoined \/ DrainTimesOut \/ StopSignal
  BY <1>1, <1>3, <1>6 DEF Watch, CheckEpoch, BeginStop, CollectorJoined, DrainTimesOut, StopSignal
<1>7. CASE WorkerJoined
  <2>1. \A w \in Players : w < turn + 1 => w < turn \/ w = turn
    OBVIOUS
  <2> QED
    BY <1>1, <1>3, <1>7, <2>1 DEF WorkerJoined
<1>8. CASE WorkersGone
  BY <1>1, <1>3, <1>8 DEF WorkersGone
<1> QED
  BY <1>4, <1>5, <1>6, <1>7, <1>8

LEMMA VanishSteps ==
    ASSUME RunTyped, HeldIsCurrent, WorkersStopped, NEW w \in Players, Vanish(w),
           UNCHANGED orchVars \/ (opc = "join" /\ turn = w /\ turn' = turn + 1 /\ UNCHANGED <<stopEvent, opc>>)
    PROVE  WorkersTyped' /\ OrchestratorTyped' /\ HeldIsCurrent' /\ WorkersStopped'
<1> USE PlayersAreNumbers DEF RunTyped, WorkersTyped, HeldIsCurrent, OrchestratorTyped, PlayerPCs, Vanish, WorkerAt
<1>1. WorkersTyped' /\ HeldIsCurrent'
  OBVIOUS
<1>2. OrchestratorTyped'
  OBVIOUS
<1>3. ppc' = [ppc EXCEPT ![w] = "gone"]
  OBVIOUS
<1>4. \A v \in Players : Alive(v)' => v # w /\ Alive(v)
  BY <1>3 DEF Alive
<1>5. CASE UNCHANGED orchVars
  BY <1>4, <1>5 DEF WorkersStopped
<1>6. CASE opc = "join" /\ turn = w /\ turn' = turn + 1 /\ UNCHANGED <<stopEvent, opc>>
  <2>1. \A v \in Players : v < turn + 1 => v < turn \/ v = w
    BY <1>6
  <2> QED
    BY <1>4, <1>6, <2>1 DEF WorkersStopped
<1> QED
  BY <1>1, <1>2, <1>5, <1>6

-----------------------------------------------------------------------------
(* The run: ids.  A worker counts on from the id of its last record, and a   *)
(* new process of it has another life.                                       *)

IdsAreUnique ==
    /\ \A x \in accepted : x.life < life[x.by] \/ (x.life = life[x.by] /\ x.id < counter[x.by])
    /\ \A x, y \in accepted : x.by = y.by /\ x.life = y.life /\ x.id = y.id => x = y

(* The record a worker offers was not accepted before.                       *)
LEMMA HeldIsNew ==
    ASSUME RunTyped, HeldIsCurrent, IdsAreUnique, NEW w \in Players, ppc[w] \in {"offer", "put"}
    PROVE  hold[w] \in Rec /\ hold[w].by = w /\ hold[w] \notin accepted
           /\ \A y \in accepted : y.by = w /\ y.life = hold[w].life => y.id # hold[w].id
<1>1. hold[w] \in Rec /\ hold[w].by = w /\ hold[w].life = life[w] /\ hold[w].id = counter[w]
  BY DEF HeldIsCurrent
<1>2. life[w] \in Nat /\ counter[w] \in Nat /\ accepted \subseteq Rec
  BY DEF RunTyped, WorkersTyped, QueueTyped
<1>3. ASSUME NEW y \in accepted, y.by = w, y.life = life[w] PROVE y.id # counter[w]
  BY <1>2, <1>3 DEF IdsAreUnique, Rec
<1> QED
  BY <1>1, <1>3

(* Nothing is accepted and no worker counts back within one life.            *)
LEMMA IdsStay ==
    ASSUME RunTyped, RunTyped', IdsAreUnique, accepted' = accepted,
           \A w \in Players : \/ life'[w] = life[w] /\ counter'[w] \in {counter[w], counter[w] + 1}
                              \/ life'[w] = life[w] + 1
    PROVE  IdsAreUnique'
<1>1. accepted \subseteq Rec
  BY DEF RunTyped, QueueTyped
<1>2. \A w \in Players : life[w] \in Nat /\ life'[w] \in Nat /\ counter[w] \in Nat /\ counter'[w] \in Nat
  BY DEF RunTyped, WorkersTyped
<1>3. ASSUME NEW x \in accepted
      PROVE  x.life < life'[x.by] \/ (x.life = life'[x.by] /\ x.id < counter'[x.by])
  <2>1. x.by \in Players /\ x.life \in Nat /\ x.id \in Nat
    BY <1>1 DEF Rec
  <2>2. x.life < life[x.by] \/ (x.life = life[x.by] /\ x.id < counter[x.by])
    BY DEF IdsAreUnique
  <2> QED
    BY <1>2, <2>1, <2>2
<1> QED
  BY <1>3 DEF IdsAreUnique

LEMMA PutIsUnique ==
    ASSUME RunTyped, RunTyped', HeldIsCurrent, IdsAreUnique, NEW w \in Players, Put(w)
    PROVE  IdsAreUnique'
<1>1. /\ hold[w] \in Rec /\ hold[w].by = w
      /\ \A y \in accepted : y.by = w /\ y.life = hold[w].life => y.id # hold[w].id
  BY HeldIsNew DEF Put
<1>2. accepted' = accepted \cup {hold[w]} /\ life' = life /\ counter' = [counter EXCEPT ![w] = @ + 1]
  BY DEF Put
<1>3. hold[w].life = life[w] /\ hold[w].id = counter[w] /\ life[w] \in Nat /\ counter[w] \in Nat
  BY DEF Put, HeldIsCurrent, RunTyped, WorkersTyped
<1>4. accepted \subseteq Rec /\ counter \in [Players -> Nat]
  BY DEF RunTyped, QueueTyped, WorkersTyped
<1>5. ASSUME NEW x \in accepted
      PROVE  x.life < life'[x.by] \/ (x.life = life'[x.by] /\ x.id < counter'[x.by])
  <2>1. x.by \in Players /\ x.life \in Nat /\ x.id \in Nat /\ counter[x.by] \in Nat
    BY <1>4 DEF Rec
  <2>2. x.life < life[x.by] \/ (x.life = life[x.by] /\ x.id < counter[x.by])
    BY DEF IdsAreUnique
  <2> QED
    BY <1>2, <1>4, <2>1, <2>2
<1>6. hold[w].life = life'[w] /\ hold[w].id < counter'[w]
  BY <1>2, <1>3, <1>4
<1>7. \A x, y \in accepted' : x.by = y.by /\ x.life = y.life /\ x.id = y.id => x = y
  BY <1>1, <1>2 DEF IdsAreUnique
<1> QED
  BY <1>1, <1>2, <1>5, <1>6, <1>7 DEF IdsAreUnique

-----------------------------------------------------------------------------
(* The run: places.                                                          *)

InHand == IF cpc = "ingest" THEN {hand} ELSE {}

Apart(F, P, H, S, B, K) ==
    /\ F \cap P = {} /\ F \cap H = {} /\ F \cap S = {} /\ F \cap B = {} /\ F \cap K = {}
    /\ P \cap H = {} /\ P \cap S = {} /\ P \cap B = {} /\ P \cap K = {}
    /\ H \cap S = {} /\ H \cap B = {} /\ H \cap K = {}
    /\ S \cap B = {} /\ S \cap K = {} /\ B \cap K = {}

(* No queue holds a record twice, a feeder has only its worker's records,    *)
(* and one that is being written is there.                                   *)
QueuesAreDistinct ==
    /\ \A w \in Players : /\ IsInjective(feeder[w])
                          /\ \A x \in ToSet(feeder[w]) : x.by = w
                          /\ writer = w => feeder[w] # << >>
    /\ IsInjective(pipe) /\ IsInjective(stored)

(* An accepted record is in one place.                                       *)
PlacesAreApart ==
    /\ Apart(InFeeders, ToSet(pipe), InHand, ToSet(stored), bad, LostInKills)
    /\ accepted = InFeeders \cup ToSet(pipe) \cup InHand \cup ToSet(stored) \cup bad \cup LostInKills

(* A taken place of the queue belongs to a record in it or lost in a kill.   *)
RoomIsCounted ==
    /\ IsFiniteSet(InQueue \cup LostInKills)
    /\ room + Cardinality(InQueue \cup LostInKills) = QueueSize

RecordsPlaced == QueuesAreDistinct /\ PlacesAreApart /\ RoomIsCounted

RunInv == RunTyped /\ HeldIsCurrent /\ WorkersStopped /\ IdsAreUnique /\ RecordsPlaced

LEMMA RunInvStarts == RunInit => RunInv
<1> SUFFICES ASSUME RunInit PROVE RunInv
  OBVIOUS
<1> USE DEF RunInit, InitAt
<1>1. RunTyped /\ HeldIsCurrent /\ WorkersStopped
  BY RunStarts
<1>2. ToSet(pipe) = {} /\ ToSet(stored) = {} /\ InFeeders = {} /\ InHand = {} /\ LostInKills = {}
  BY EmptyQueue DEF InFeeders, InHand, LostInKills
<1>3. QueuesAreDistinct
  BY EmptyQueue, PlayersAreNumbers DEF QueuesAreDistinct, None
<1>4. PlacesAreApart
  BY <1>2 DEF PlacesAreApart, Apart
<1>5. RoomIsCounted
  <2>1. InQueue \cup LostInKills = {} /\ room = QueueSize /\ QueueSize \in Nat
    BY <1>2, RunConstants DEF InQueue
  <2> QED
    BY <2>1, FS_EmptySet DEF RoomIsCounted
<1> QED
  BY <1>1, <1>3, <1>4, <1>5 DEF RunInv, IdsAreUnique, RecordsPlaced

LEMMA PlacesStay ==
    ASSUME RecordsPlaced, UNCHANGED <<queueVars, stored, bad, killed>>, InHand' = InHand
    PROVE  RecordsPlaced'
<1>1. InFeeders' = InFeeders /\ LostInKills' = LostInKills /\ InQueue' = InQueue
  BY DEF InFeeders, LostInKills, InQueue
<1> QED
  BY <1>1 DEF RecordsPlaced, QueuesAreDistinct, PlacesAreApart, RoomIsCounted

LEMMA BeginWriteStays ==
    ASSUME RunTyped, RecordsPlaced, NEW w \in Players, BeginWrite(w)
    PROVE  RecordsPlaced'
<1>1. UNCHANGED <<feeder, pipe, room, accepted, stored, bad, killed>> /\ writer' = w /\ feeder[w] # << >>
  BY DEF BeginWrite
<1>2. InFeeders' = InFeeders /\ LostInKills' = LostInKills /\ InQueue' = InQueue /\ InHand' = InHand
  BY <1>1 DEF InFeeders, LostInKills, InQueue, InHand, BeginWrite
<1>3. QueuesAreDistinct'
  BY <1>1 DEF RecordsPlaced, QueuesAreDistinct
<1> QED
  BY <1>1, <1>2, <1>3 DEF RecordsPlaced, PlacesAreApart, RoomIsCounted

(* The feeders' records, and what is lost, after a change of one of them.    *)
LEMMA FeedersChange ==
    ASSUME feeder \in [Players -> Seq(Rec)], NEW w \in Players, NEW q, feeder' = [feeder EXCEPT ![w] = q],
           QueuesAreDistinct, ToSet(q) \subseteq ToSet(feeder[w])
    PROVE  InFeeders' = InFeeders \ (ToSet(feeder[w]) \ ToSet(q))
<1>1. \A v \in Players : ToSet(feeder'[v]) = IF v = w THEN ToSet(q) ELSE ToSet(feeder[v])
  OBVIOUS
<1>2. \A v \in Players : \A x \in ToSet(feeder[v]) : x.by = v
  BY DEF QueuesAreDistinct
<1> QED
  BY <1>1, <1>2 DEF InFeeders

LEMMA PutKeeps ==
    ASSUME RunInv, NEW w \in Players, Put(w)
    PROVE  QueueTyped' /\ RecordsPlaced'
<1> DEFINE x == hold[w]
<1>1. x \in Rec /\ x.by = w /\ x \notin accepted
  BY HeldIsNew DEF Put, RunInv
<1>2. feeder \in [Players -> Seq(Rec)] /\ room \in Nat /\ accepted \in SUBSET Rec
  BY DEF RunInv, RunTyped, QueueTyped
<1>3. /\ feeder' = [feeder EXCEPT ![w] = Append(feeder[w], x)]
      /\ room > 0 /\ room' = room - 1 /\ accepted' = accepted \cup {x}
      /\ UNCHANGED <<writer, pipe, cpc, hand, stored, bad, killed>>
  BY DEF Put
<1> HIDE DEF x
<1>4. PICK f \in Seq(Rec) : f = feeder[w]
  BY <1>2
<1>5. PICK q \in Seq(Rec) :
          /\ q = Append(f, x) /\ ToSet(q) = ToSet(f) \cup {x} /\ q # << >>
          /\ IsInjective(f) /\ x \notin ToSet(f) => IsInjective(q)
  BY <1>1, Joined
<1>6. feeder' = [feeder EXCEPT ![w] = q]
  BY <1>3, <1>4, <1>5, Zenon
<1>7. QueueTyped'
  BY <1>1, <1>2, <1>3, <1>6 DEF RunInv, RunTyped, QueueTyped
<1>8. \A v \in Players : ToSet(feeder'[v]) = IF v = w THEN ToSet(feeder[w]) \cup {x} ELSE ToSet(feeder[v])
  BY <1>2, <1>4, <1>5, <1>6
<1>9. InFeeders' = InFeeders \cup {x}
  BY <1>8 DEF InFeeders
<1>10. InHand' = InHand /\ LostInKills' = LostInKills /\ InQueue' = InQueue \cup {x}
  BY <1>3, <1>9 DEF InHand, LostInKills, InQueue
<1>11. PlacesAreApart /\ QueuesAreDistinct /\ RoomIsCounted
  BY DEF RunInv, RecordsPlaced
<1>12. x \notin ToSet(feeder[w]) /\ x \notin InQueue \cup LostInKills
  BY <1>1, <1>11 DEF PlacesAreApart, InFeeders, InQueue
<1>13. QueuesAreDistinct'
  BY <1>1, <1>2, <1>3, <1>4, <1>5, <1>6, <1>8, <1>11, <1>12 DEF QueuesAreDistinct
<1>14. PlacesAreApart'
  BY <1>1, <1>3, <1>9, <1>10, <1>11 DEF PlacesAreApart, Apart
<1>15. RoomIsCounted'
  <2> DEFINE Q == InQueue \cup LostInKills
  <2>1. (InQueue \cup LostInKills)' = Q \cup {x}
    BY <1>10
  <2>2. IsFiniteSet(Q) /\ room + Cardinality(Q) = QueueSize /\ x \notin Q
    BY <1>11, <1>12 DEF RoomIsCounted
  <2> HIDE DEF Q
  <2>3. IsFiniteSet(Q \cup {x}) /\ Cardinality(Q \cup {x}) = Cardinality(Q) + 1 /\ Cardinality(Q) \in Nat
    BY <2>2, FS_AddElement, FS_CardinalityType
  <2>4. room' + Cardinality(Q \cup {x}) = room + Cardinality(Q)
    BY <1>2, <1>3, <2>3
  <2> QED
    BY <2>1, <2>2, <2>3, <2>4, Zenon DEF RoomIsCounted
<1> QED
  BY <1>7, <1>13, <1>14, <1>15 DEF RecordsPlaced

LEMMA EndWriteKeeps ==
    ASSUME RunInv, NEW w \in Players, EndWrite(w)
    PROVE  QueueTyped' /\ RecordsPlaced'
<1>1. feeder \in [Players -> Seq(Rec)] /\ pipe \in Seq(Rec) /\ QueuesAreDistinct /\ PlacesAreApart /\ RoomIsCounted
  BY DEF RunInv, RunTyped, QueueTyped, RecordsPlaced
<1>2. feeder[w] # << >> /\ feeder[w] \in Seq(Rec) /\ IsInjective(feeder[w])
  BY <1>1 DEF QueuesAreDistinct, EndWrite
<1>3. PICK x \in Rec : x = Head(feeder[w])
  BY <1>2, Left, Zenon
<1>4. PICK q \in Seq(Rec) : q = Tail(feeder[w])
  BY <1>2, Left, Zenon
<1>5. ToSet(feeder[w]) = ToSet(q) \cup {x} /\ IsInjective(q) /\ x \notin ToSet(q)
  BY <1>2, <1>3, <1>4, Left, Zenon
<1>6. PICK p \in Seq(Rec) :
          /\ p = Append(pipe, x) /\ ToSet(p) = ToSet(pipe) \cup {x}
          /\ IsInjective(pipe) /\ x \notin ToSet(pipe) => IsInjective(p)
  BY <1>1, Joined
<1>7. /\ feeder' = [feeder EXCEPT ![w] = q] /\ pipe' = p /\ writer' = None
      /\ UNCHANGED <<room, accepted, cpc, hand, stored, bad, killed>>
  BY <1>3, <1>4, <1>6 DEF EndWrite
<1>8. QueueTyped'
  BY <1>1, <1>7 DEF RunInv, RunTyped, QueueTyped
<1>9. InFeeders' = InFeeders \ {x} /\ x \in InFeeders
  <2>1. InFeeders' = InFeeders \ (ToSet(feeder[w]) \ ToSet(q))
    BY <1>1, <1>5, <1>7, FeedersChange
  <2> QED
    BY <1>5, <2>1 DEF InFeeders
<1>10. InHand' = InHand /\ LostInKills' = LostInKills /\ ToSet(pipe') = ToSet(pipe) \cup {x}
  BY <1>6, <1>7 DEF InHand, LostInKills
<1>11. InQueue' = InQueue
  BY <1>9, <1>10 DEF InQueue
<1>12. PlacesAreApart'
  BY <1>1, <1>7, <1>9, <1>10 DEF PlacesAreApart, Apart
<1>13. IsInjective(p)
  BY <1>1, <1>6, <1>9 DEF QueuesAreDistinct, PlacesAreApart, Apart
<1>14. QueuesAreDistinct'
  <2>1. \A v \in Players : v # None
    BY PlayersAreNumbers DEF None
  <2>2. \A v \in Players : IsInjective(feeder'[v]) /\ \A y \in ToSet(feeder'[v]) : y.by = v
    BY <1>1, <1>5, <1>7 DEF QueuesAreDistinct
  <2> QED
    BY <1>1, <1>7, <1>13, <2>1, <2>2 DEF QueuesAreDistinct
<1> QED
  BY <1>1, <1>7, <1>8, <1>10, <1>11, <1>12, <1>14 DEF RecordsPlaced, RoomIsCounted

(* A kill adds its feeder's records to what was lost in kills.               *)
LEMMA KillsGrow ==
    ASSUME killed \in Seq(Seq(Rec)), NEW q \in Seq(Rec), killed' = Append(killed, q)
    PROVE  killed' \in Seq(Seq(Rec)) /\ LostInKills' = LostInKills \cup ToSet(q)
<1>1. PICK k \in Seq(Seq(Rec)) : k = Append(killed, q) /\ ToSet(k) = ToSet(killed) \cup {q}
  BY Joined
<1>2. ToSet(k) = ToSet(killed) \cup {q}
  BY <1>1
<1>3. killed' = k
  BY <1>1
<1>4. LostInKills = UNION {ToSet(z) : z \in ToSet(killed)}
  BY DEF LostInKills, ToSet
<1>5. LostInKills' = UNION {ToSet(z) : z \in ToSet(k)}
  BY <1>3 DEF LostInKills, ToSet
<1> QED
  BY <1>2, <1>3, <1>4, <1>5

LEMMA VanishKeeps ==
    ASSUME RunInv, NEW w \in Players, Vanish(w)
    PROVE  /\ QueueTyped' /\ CollectorTyped' /\ RecordsPlaced'
           /\ UNCHANGED <<accepted, life, counter>>
<1>1. /\ feeder \in [Players -> Seq(Rec)] /\ killed \in Seq(Seq(Rec))
      /\ QueuesAreDistinct /\ PlacesAreApart /\ RoomIsCounted
  BY DEF RunInv, RunTyped, QueueTyped, RecordsPlaced
<1>2. /\ feeder' = [feeder EXCEPT ![w] = << >>] /\ killed' = Append(killed, feeder[w])
      /\ writer' = IF writer = w THEN Dead ELSE writer
      /\ UNCHANGED <<counter, life, pipe, room, accepted, cpc, hand, stored, bad>>
  BY DEF Vanish
<1>3. killed' \in Seq(Seq(Rec)) /\ LostInKills' = LostInKills \cup ToSet(feeder[w])
  BY <1>1, <1>2, KillsGrow
<1>4. InFeeders' = InFeeders \ ToSet(feeder[w]) /\ ToSet(feeder[w]) \subseteq InFeeders
  <2>1. InFeeders' = InFeeders \ (ToSet(feeder[w]) \ ToSet(<< >>))
    BY <1>1, <1>2, EmptyQueue, FeedersChange
  <2> QED
    BY <2>1, EmptyQueue DEF InFeeders
<1>5. QueueTyped' /\ CollectorTyped'
  BY <1>1, <1>2, <1>3, EmptyQueue DEF RunInv, RunTyped, QueueTyped, CollectorTyped
<1>6. InHand' = InHand
  BY <1>2 DEF InHand
<1>7. PlacesAreApart'
  BY <1>1, <1>2, <1>3, <1>4, <1>6 DEF PlacesAreApart, Apart
<1>8. RoomIsCounted'
  <2>1. (InQueue \cup LostInKills)' = InQueue \cup LostInKills
    BY <1>2, <1>3, <1>4 DEF InQueue
  <2> QED
    BY <1>1, <1>2, <2>1 DEF RoomIsCounted
<1>9. QueuesAreDistinct'
  <2>1. \A v \in Players : v # Dead
    BY PlayersAreNumbers DEF Dead
  <2>2. \A v \in Players : feeder'[v] = IF v = w THEN << >> ELSE feeder[v]
    BY <1>1, <1>2
  <2>3. \A v \in Players : writer' = v => v # w /\ writer = v
    BY <1>2, <2>1
  <2> QED
    BY <1>1, <1>2, <2>2, <2>3, EmptyQueue DEF QueuesAreDistinct
<1> QED
  BY <1>2, <1>5, <1>7, <1>8, <1>9 DEF RecordsPlaced

LEMMA GetKeeps ==
    ASSUME RunInv, Get
    PROVE  QueueTyped' /\ CollectorTyped' /\ RecordsPlaced'
<1>1. /\ pipe \in Seq(Rec) /\ pipe # << >> /\ room \in Nat
      /\ QueuesAreDistinct /\ PlacesAreApart /\ RoomIsCounted
  BY DEF RunInv, RunTyped, QueueTyped, RecordsPlaced, Get
<1>2. PICK x \in Rec : x = Head(pipe)
  BY <1>1, Left, Zenon
<1>3. PICK p \in Seq(Rec) : p = Tail(pipe)
  BY <1>1, Left, Zenon
<1>4. IsInjective(pipe)
  BY <1>1 DEF QueuesAreDistinct
<1>5. ToSet(pipe) = ToSet(p) \cup {x} /\ IsInjective(p) /\ x \notin ToSet(p)
  BY <1>1, <1>2, <1>3, <1>4, Left, Zenon
<1>6. /\ hand' = x /\ pipe' = p /\ room' = room + 1 /\ cpc' = "ingest" /\ InHand = {}
      /\ UNCHANGED <<stored, bad, feeder, writer, accepted, killed>>
  BY <1>2, <1>3 DEF Get, InHand
<1>7. QueueTyped' /\ CollectorTyped'
  BY <1>1, <1>6 DEF RunInv, RunTyped, QueueTyped, CollectorTyped, CollectorPCs
<1>8. InFeeders' = InFeeders /\ InHand' = {x} /\ LostInKills' = LostInKills
  BY <1>6 DEF InFeeders, InHand, LostInKills
<1>9. PlacesAreApart'
  BY <1>1, <1>5, <1>6, <1>8 DEF PlacesAreApart, Apart
<1>10. QueuesAreDistinct'
  BY <1>1, <1>5, <1>6 DEF QueuesAreDistinct
<1>11. RoomIsCounted'
  <2> DEFINE Q == InQueue \cup LostInKills
  <2>1. (InQueue \cup LostInKills)' = Q \ {x} /\ x \in Q
    BY <1>1, <1>5, <1>6, <1>8 DEF InQueue, PlacesAreApart, Apart
  <2>2. IsFiniteSet(Q) /\ room + Cardinality(Q) = QueueSize
    BY <1>1 DEF RoomIsCounted
  <2> HIDE DEF Q
  <2>3. IsFiniteSet(Q \ {x}) /\ Cardinality(Q \ {x}) = Cardinality(Q) - 1 /\ Cardinality(Q) \in Nat
    BY <2>1, <2>2, FS_RemoveElement, FS_CardinalityType
  <2>4. room' + Cardinality(Q \ {x}) = room + Cardinality(Q)
    BY <1>1, <1>6, <2>3
  <2> QED
    BY <2>1, <2>2, <2>3, <2>4, Zenon DEF RoomIsCounted
<1> QED
  BY <1>7, <1>9, <1>10, <1>11 DEF RecordsPlaced

LEMMA StoreKeeps ==
    ASSUME RunInv, StoreGame
    PROVE  CollectorTyped' /\ RecordsPlaced'
<1>1. /\ stored \in Seq(Rec) /\ hand \in Rec /\ InHand = {hand}
      /\ QueuesAreDistinct /\ PlacesAreApart /\ RoomIsCounted
  BY DEF RunInv, RunTyped, CollectorTyped, RecordsPlaced, StoreGame, InHand
<1>2. PICK s \in Seq(Rec) : s = Append(stored, hand)
  BY <1>1, Joined, Zenon
<1>3. ToSet(s) = ToSet(stored) \cup {hand} /\ (IsInjective(stored) /\ hand \notin ToSet(stored) => IsInjective(s))
  BY <1>1, <1>2, Joined, Zenon
<1>4. stored' = s /\ cpc' = "count" /\ UNCHANGED <<hand, bad, queueVars, killed>>
  BY <1>2 DEF StoreGame
<1>5. CollectorTyped'
  BY <1>1, <1>4 DEF RunInv, RunTyped, CollectorTyped, CollectorPCs
<1>6. InFeeders' = InFeeders /\ InHand' = {} /\ LostInKills' = LostInKills /\ InQueue' = InQueue
  BY <1>4 DEF InFeeders, InHand, LostInKills, InQueue
<1>7. PlacesAreApart'
  BY <1>1, <1>3, <1>4, <1>6 DEF PlacesAreApart, Apart
<1>8. IsInjective(s)
  BY <1>1, <1>3 DEF QueuesAreDistinct, PlacesAreApart, Apart
<1> QED
  BY <1>1, <1>4, <1>5, <1>6, <1>7, <1>8 DEF RecordsPlaced, QueuesAreDistinct, RoomIsCounted

LEMMA IngestRaisesKeeps ==
    ASSUME RunInv, IngestRaises
    PROVE  CollectorTyped' /\ RecordsPlaced'
<1>1. /\ bad \in SUBSET Rec /\ hand \in Rec /\ InHand = {hand}
      /\ QueuesAreDistinct /\ PlacesAreApart /\ RoomIsCounted
  BY DEF RunInv, RunTyped, CollectorTyped, RecordsPlaced, IngestRaises, InHand
<1>2. bad' = bad \cup {hand} /\ hand' = NoRecord /\ cpc' = "check" /\ UNCHANGED <<stored, queueVars, killed>>
  BY DEF IngestRaises
<1>3. CollectorTyped'
  BY <1>1, <1>2 DEF RunInv, RunTyped, CollectorTyped, CollectorPCs
<1>4. InFeeders' = InFeeders /\ InHand' = {} /\ LostInKills' = LostInKills /\ InQueue' = InQueue
  BY <1>2 DEF InFeeders, InHand, LostInKills, InQueue
<1>5. PlacesAreApart'
  BY <1>1, <1>2, <1>4 DEF PlacesAreApart, Apart
<1> QED
  BY <1>1, <1>2, <1>3, <1>4, <1>5 DEF RecordsPlaced, QueuesAreDistinct, RoomIsCounted

(* The collector's other steps move no record.                               *)
LEMMA CollectorRests ==
    ASSUME RunInv, CollectorLeaves \/ CollectorGoesOn \/ GetTimesOut \/ GetPartial \/ CountGame
    PROVE  /\ CollectorTyped' /\ RecordsPlaced'
           /\ UNCHANGED <<workerVars, queueVars, orchVars, killed>>
<1>1. /\ UNCHANGED <<stored, bad, workerVars, queueVars, orchVars, killed>>
      /\ cpc # "ingest" /\ cpc' # "ingest" /\ cpc' \in CollectorPCs /\ hand' \in {hand, NoRecord}
  BY DEF CollectorLeaves, CollectorGoesOn, GetTimesOut, GetPartial, CountGame, CollectorPCs
<1>2. InHand' = InHand
  BY <1>1 DEF InHand
<1>3. RecordsPlaced'
  BY <1>1, <1>2, PlacesStay DEF RunInv
<1> QED
  BY <1>1, <1>3 DEF RunInv, RunTyped, CollectorTyped

-----------------------------------------------------------------------------
(* The run: the invariant.                                                   *)

(* Steps that move no record and accept none.                                *)
LEMMA NothingMoves ==
    ASSUME RunInv, WorkersTyped', OrchestratorTyped', HeldIsCurrent', WorkersStopped',
           UNCHANGED <<queueVars, collectorVars, killed>>,
           \A w \in Players : \/ life'[w] = life[w] /\ counter'[w] \in {counter[w], counter[w] + 1}
                              \/ life'[w] = life[w] + 1
    PROVE  RunInv'
<1>1. InHand' = InHand
  BY DEF InHand
<1>2. RecordsPlaced'
  BY <1>1, PlacesStay DEF RunInv
<1>3. RunTyped'
  BY DEF RunInv, RunTyped, QueueTyped, CollectorTyped
<1>4. IdsAreUnique'
  BY <1>3, IdsStay DEF RunInv
<1> QED
  BY <1>2, <1>3, <1>4 DEF RunInv

LEMMA WorkerKeeps ==
    ASSUME RunInv, NEW w \in Players,
           ProcessStep(w) \/ FinishGame(w) \/ GameInvalid(w) \/ GameRaises(w)
    PROVE  RunInv'
<1>1. /\ WorkersTyped' /\ OrchestratorTyped' /\ HeldIsCurrent' /\ WorkersStopped'
      /\ UNCHANGED <<collectorVars, killed>>
  BY WorkerSteps DEF RunInv
<1>2. CASE Put(w)
  <2>1. QueueTyped' /\ RecordsPlaced'
    BY <1>2, PutKeeps
  <2>2. RunTyped'
    BY <1>1, <2>1 DEF RunInv, RunTyped, CollectorTyped
  <2>3. IdsAreUnique'
    BY <1>2, <2>2, PutIsUnique DEF RunInv
  <2> QED
    BY <1>1, <2>1, <2>2, <2>3 DEF RunInv
<1>3. CASE ~Put(w)
  <2>1. UNCHANGED <<queueVars, life>> /\ (counter' = counter \/ counter' = [counter EXCEPT ![w] = @ + 1])
    BY <1>3 DEF ProcessStep, BeginGame, LeaveLoop, Offer, DropRecord, PutFull, Exit, FinishGame, GameInvalid,
               GameRaises
  <2>2. counter \in [Players -> Nat]
    BY DEF RunInv, RunTyped, WorkersTyped
  <2>3. \A v \in Players : counter'[v] \in {counter[v], counter[v] + 1}
    BY <2>1, <2>2
  <2> QED
    BY <1>1, <2>1, <2>3, NothingMoves
<1> QED
  BY <1>2, <1>3

LEMMA FeederKeeps ==
    ASSUME RunInv, NEW w \in Players, FeederStep(w)
    PROVE  RunInv'
<1>1. UNCHANGED <<workerVars, collectorVars, orchVars, killed, accepted>>
  BY DEF FeederStep, BeginWrite, EndWrite
<1>2. QueueTyped' /\ RecordsPlaced'
  <2>1. CASE BeginWrite(w)
    <3>1. RecordsPlaced'
      BY <2>1, BeginWriteStays DEF RunInv
    <3> QED
      BY <2>1, <3>1 DEF BeginWrite, RunInv, RunTyped, QueueTyped
  <2>2. CASE EndWrite(w)
    BY <2>2, EndWriteKeeps
  <2> QED
    BY <2>1, <2>2 DEF FeederStep
<1>3. RunTyped' /\ HeldIsCurrent' /\ WorkersStopped'
  BY <1>1, <1>2 DEF RunInv, RunTyped, WorkersTyped, CollectorTyped, OrchestratorTyped, HeldIsCurrent,
                   WorkersStopped, Alive
<1>4. IdsAreUnique'
  BY <1>1 DEF RunInv, IdsAreUnique
<1> QED
  BY <1>2, <1>3, <1>4 DEF RunInv

LEMMA VanishKeepsAll ==
    ASSUME RunInv, NEW w \in Players, Vanish(w),
           UNCHANGED orchVars \/ (opc = "join" /\ turn = w /\ turn' = turn + 1 /\ UNCHANGED <<stopEvent, opc>>)
    PROVE  RunInv'
<1>1. WorkersTyped' /\ OrchestratorTyped' /\ HeldIsCurrent' /\ WorkersStopped'
  BY VanishSteps DEF RunInv
<1>2. QueueTyped' /\ CollectorTyped' /\ RecordsPlaced' /\ UNCHANGED <<accepted, life, counter>>
  BY VanishKeeps
<1>3. IdsAreUnique'
  BY <1>2 DEF RunInv, IdsAreUnique
<1> QED
  BY <1>1, <1>2, <1>3 DEF RunInv, RunTyped

LEMMA CollectorKeeps ==
    ASSUME RunInv, CollectorStep \/ IngestRaises
    PROVE  RunInv'
<1>1. UNCHANGED <<workerVars, orchVars, killed, accepted>>
  BY DEF CollectorStep, CollectorLeaves, CollectorGoesOn, GetTimesOut, GetPartial, Get, StoreGame, CountGame,
         IngestRaises
<1>2. QueueTyped' /\ CollectorTyped' /\ RecordsPlaced'
  <2>1. CASE Get
    BY <2>1, GetKeeps
  <2>2. CASE StoreGame \/ IngestRaises
    <3>1. CollectorTyped' /\ RecordsPlaced'
      BY <2>2, StoreKeeps, IngestRaisesKeeps
    <3>2. UNCHANGED <<queueVars, killed>>
      BY <2>2 DEF StoreGame, IngestRaises
    <3> QED
      BY <3>1, <3>2 DEF RunInv, RunTyped, QueueTyped
  <2>3. CASE CollectorLeaves \/ CollectorGoesOn \/ GetTimesOut \/ GetPartial \/ CountGame
    <3>1. CollectorTyped' /\ RecordsPlaced' /\ UNCHANGED <<queueVars, killed>>
      BY <2>3, CollectorRests
    <3> QED
      BY <3>1 DEF RunInv, RunTyped, QueueTyped
  <2> QED
    BY <2>1, <2>2, <2>3 DEF CollectorStep
<1>3. RunTyped' /\ HeldIsCurrent' /\ WorkersStopped'
  BY <1>1, <1>2 DEF RunInv, RunTyped, WorkersTyped, OrchestratorTyped, HeldIsCurrent, WorkersStopped, Alive
<1>4. IdsAreUnique'
  BY <1>1 DEF RunInv, IdsAreUnique
<1> QED
  BY <1>2, <1>3, <1>4 DEF RunInv

LEMMA OrchestratorKeeps ==
    ASSUME RunInv, OrchestratorStep \/ StopSignal
    PROVE  RunInv'
<1>1. CASE WorkerTerminated
  <2>1. opc = "join" /\ turn < PlayerCount /\ Vanish(turn) /\ turn' = turn + 1 /\ UNCHANGED <<stopEvent, opc>>
    BY <1>1 DEF WorkerTerminated
  <2>2. turn \in Players
    BY <2>1, PlayersAreNumbers DEF RunInv, RunTyped, OrchestratorTyped, Players
  <2> QED
    BY <2>1, <2>2, VanishKeepsAll
<1>2. CASE ~WorkerTerminated
  <2>1. \/ SpawnWorker \/ Watch \/ Monitor \/ CheckEpoch \/ BeginStop \/ WorkerJoined
        \/ WorkersGone \/ CollectorJoined \/ DrainTimesOut \/ StopSignal
    BY <1>2 DEF OrchestratorStep
  <2>2. /\ WorkersTyped' /\ OrchestratorTyped' /\ HeldIsCurrent' /\ WorkersStopped'
        /\ UNCHANGED <<collectorVars, queueVars, killed>>
    BY <2>1, OrchestratorSteps DEF RunInv
  <2>3. \/ UNCHANGED <<life, counter>>
        \/ life' = [life EXCEPT ![turn] = @ + 1] /\ counter' = [counter EXCEPT ![turn] = 0]
    BY <2>1 DEF SpawnWorker, Watch, Monitor, CheckEpoch, BeginStop, WorkerJoined, WorkersGone, CollectorJoined,
               DrainTimesOut, StopSignal, Fresh
  <2>4. life \in [Players -> Nat] /\ counter \in [Players -> Nat]
    BY DEF RunInv, RunTyped, WorkersTyped
  <2>5. \A w \in Players : \/ life'[w] = life[w] /\ counter'[w] = counter[w]
                           \/ life'[w] = life[w] + 1
    BY <2>3, <2>4
  <2> QED
    BY <2>2, <2>5, NothingMoves
<1> QED
  BY <1>1, <1>2

LEMMA RunStep == RunInv /\ [RunNext]_runVars => RunInv'
<1> SUFFICES ASSUME RunInv, [RunNext]_runVars PROVE RunInv'
  OBVIOUS
<1>1. CASE UNCHANGED runVars
  BY <1>1 DEF runVars, RunInv, RunTyped, WorkersTyped, QueueTyped, CollectorTyped, OrchestratorTyped,
              HeldIsCurrent, WorkersStopped, Alive, IdsAreUnique, RecordsPlaced, QueuesAreDistinct, PlacesAreApart,
              RoomIsCounted, InFeeders, InHand, InQueue, LostInKills
<1>2. ASSUME NEW w \in Players, Killed(w) PROVE RunInv'
  BY <1>2, VanishKeepsAll DEF Killed
<1>3. ASSUME NEW w \in Players, FeederStep(w) PROVE RunInv'
  BY <1>3, FeederKeeps
<1>4. ASSUME NEW w \in Players, ProcessStep(w) \/ FinishGame(w) \/ GameInvalid(w) \/ GameRaises(w)
      PROVE  RunInv'
  BY <1>4, WorkerKeeps
<1>5. CASE CollectorStep \/ IngestRaises
  BY <1>5, CollectorKeeps
<1>6. CASE OrchestratorStep \/ StopSignal
  BY <1>6, OrchestratorKeeps
<1> QED
  BY <1>1, <1>2, <1>3, <1>4, <1>5, <1>6 DEF RunNext, Closed

(* Where every record of a run is, which ids are taken and which workers are *)
(* gone, together with the shape of the state: the orchestrator, its         *)
(* workers and the collector keep all of it.                                 *)
THEOREM RunInvariant == RunSpec => []RunInv
BY RunInvStarts, RunStep, PTL DEF RunSpec

LEMMA PlacedIsAccounted ==
    ASSUME RunInv
    PROVE  RecordsAccounted
<1> DEFINE places == <<InQueue, InHand, ToSet(stored), bad, LostInKills>>
<1>1. PlacesAreApart /\ RoomIsCounted /\ IsInjective(stored)
  BY DEF RunInv, RecordsPlaced, QueuesAreDistinct
<1>2. ToSet(places) = {InQueue, InHand, ToSet(stored), bad, LostInKills}
  <2>1. DOMAIN places = 1 .. 5
    OBVIOUS
  <2>2. 1 .. 5 = {1, 2, 3, 4, 5}
    OBVIOUS
  <2> QED
    BY <2>1, <2>2 DEF ToSet
<1>3. accepted = UNION ToSet(places)
  BY <1>1, <1>2 DEF PlacesAreApart, InQueue
<1>4. ASSUME NEW i \in DOMAIN places, NEW j \in DOMAIN places, i # j
      PROVE  places[i] \cap places[j] = {}
  <2>1. i \in {1, 2, 3, 4, 5} /\ j \in {1, 2, 3, 4, 5}
    OBVIOUS
  <2>2. /\ InQueue \cap InHand = {} /\ InQueue \cap ToSet(stored) = {} /\ InQueue \cap bad = {}
        /\ InQueue \cap LostInKills = {} /\ InHand \cap ToSet(stored) = {} /\ InHand \cap bad = {}
        /\ InHand \cap LostInKills = {} /\ ToSet(stored) \cap bad = {}
        /\ ToSet(stored) \cap LostInKills = {} /\ bad \cap LostInKills = {}
    BY <1>1 DEF PlacesAreApart, Apart, InQueue
  <2>3. \A X, Y : X \cap Y = {} => Y \cap X = {}
    OBVIOUS
  <2> QED
    BY <1>4, <2>1, <2>2, <2>3
<1>5. room + Cardinality(InQueue) + Cardinality(LostInKills) = QueueSize
  <2> DEFINE Q == InQueue
             K == LostInKills
  <2>1. Q \cap K = {} /\ IsFiniteSet(Q \cup K) /\ room + Cardinality(Q \cup K) = QueueSize /\ room \in Nat
    BY <1>1 DEF PlacesAreApart, Apart, RoomIsCounted, InQueue, RunInv, RunTyped, QueueTyped
  <2> HIDE DEF Q, K
  <2>2. IsFiniteSet(Q) /\ IsFiniteSet(K)
    BY <2>1, FS_Subset
  <2>3. Cardinality(Q \cup K) = Cardinality(Q) + Cardinality(K) - Cardinality({})
    BY <2>1, <2>2, FS_Union
  <2>4. Cardinality({}) = 0 /\ Cardinality(Q) \in Nat /\ Cardinality(K) \in Nat
    BY <2>2, FS_EmptySet, FS_CardinalityType
  <2>5. room + Cardinality(Q) + Cardinality(K) = QueueSize
    BY <2>1, <2>3, <2>4
  <2> QED
    BY <2>5 DEF Q, K
<1> HIDE DEF places
<1>6. places = <<InQueue, IF cpc = "ingest" THEN {hand} ELSE {}, ToSet(stored), bad, LostInKills>>
  BY DEF places, InHand
<1> QED
  BY <1>1, <1>3, <1>4, <1>5, <1>6, Zenon DEF RecordsAccounted

LEMMA StoredIdsDiffer ==
    ASSUME RunInv
    PROVE  UniqueGameIds
<1> SUFFICES ASSUME NEW i \in DOMAIN stored, NEW j \in DOMAIN stored, i # j
             PROVE  <<stored[i].by, stored[i].life, stored[i].id>> # <<stored[j].by, stored[j].life, stored[j].id>>
  BY DEF UniqueGameIds
<1>1. stored[i] # stored[j]
  BY DEF RunInv, RecordsPlaced, QueuesAreDistinct, IsInjective
<1>2. stored[i] \in ToSet(stored) /\ stored[j] \in ToSet(stored)
  BY DEF ToSet
<1>3. stored[i] \in accepted /\ stored[j] \in accepted
  BY <1>2 DEF RunInv, RecordsPlaced, PlacesAreApart
<1> QED
  BY <1>1, <1>3 DEF RunInv, IdsAreUnique

(* Only the step after a record was stored counts it.                        *)
QuotaInv == gamesDone \in Nat /\ QuotaCountsStored

LEMMA QuotaStays == QuotaInv /\ CollectorTyped /\ [RunNext]_runVars => QuotaInv'
<1> SUFFICES ASSUME QuotaInv, CollectorTyped, [RunNext]_runVars PROVE QuotaInv'
  OBVIOUS
<1>1. stored \in Seq(Rec) /\ gamesDone \in Nat /\ QuotaCountsStored
  BY DEF QuotaInv, CollectorTyped
<1>2. CASE UNCHANGED <<cpc, stored, gamesDone>>
  BY <1>1, <1>2 DEF QuotaInv, QuotaCountsStored
<1>3. CASE StoreGame
  <2>1. Len(stored') = Len(stored) + 1
    BY <1>1, <1>3 DEF StoreGame
  <2> QED
    BY <1>1, <1>3, <2>1 DEF StoreGame, QuotaInv, QuotaCountsStored
<1>4. CASE CountGame
  BY <1>1, <1>4 DEF CountGame, QuotaInv, QuotaCountsStored
<1>5. CASE CollectorLeaves \/ CollectorGoesOn \/ GetTimesOut \/ GetPartial \/ Get \/ IngestRaises
  <2>1. cpc # "count" /\ cpc' # "count" /\ UNCHANGED <<stored, gamesDone>>
    BY <1>5 DEF CollectorLeaves, CollectorGoesOn, GetTimesOut, GetPartial, Get, IngestRaises
  <2> QED
    BY <1>1, <2>1 DEF QuotaInv, QuotaCountsStored
<1>6. CASE UNCHANGED collectorVars
  BY <1>2, <1>6 DEF collectorVars
<1>7. CASE UNCHANGED runVars
  BY <1>6, <1>7 DEF runVars
<1>8. ASSUME NEW w \in Players, ProcessStep(w) \/ FeederStep(w) \/ FinishGame(w) \/ GameInvalid(w) \/ GameRaises(w) \/ Killed(w)
      PROVE  UNCHANGED collectorVars
  BY <1>8 DEF ProcessStep, BeginGame, LeaveLoop, Offer, DropRecord, Put, PutFull, Exit, FeederStep, BeginWrite,
              EndWrite, FinishGame, GameInvalid, GameRaises, Killed, Vanish, collectorVars
<1>9. ASSUME OrchestratorStep \/ StopSignal \/ Closed PROVE UNCHANGED collectorVars
  BY <1>9 DEF OrchestratorStep, SpawnWorker, Watch, Monitor, CheckEpoch, BeginStop, WorkerJoined, WorkerTerminated,
              WorkersGone, CollectorJoined, DrainTimesOut, StopSignal, Closed, Vanish, collectorVars, runVars
<1> QED
  BY <1>3, <1>4, <1>5, <1>6, <1>7, <1>8, <1>9 DEF RunNext, CollectorStep

LEMMA QuotaHolds == RunSpec => []QuotaInv
<1>1. RunInit => QuotaInv
  BY DEF RunInit, InitAt, QuotaInv, QuotaCountsStored
<1>2. RunInv => CollectorTyped
  BY DEF RunInv, RunTyped
<1> QED
  BY <1>1, <1>2, QuotaStays, RunInvariant, PTL DEF RunSpec

(* A record the queue accepted is at any moment in exactly one place, the    *)
(* free places account for those in the queue and those lost in kills, and   *)
(* games of one worker's life are stored under different ids, and the quota  *)
(* counts the stored ones: for any number of workers, games and kills and    *)
(* any size of the queue and its pipe.                                       *)
THEOREM RecordsAreKept == RunSpec => []RecordsKept
<1>1. RunInv /\ QuotaInv => RecordsKept
  BY PlacedIsAccounted, StoredIdsDiffer DEF RecordsKept, QuotaInv
<1> QED
  BY <1>1, RunInvariant, QuotaHolds, PTL

(* The join and terminate loop of stop() leaves no worker process behind,    *)
(* whatever the monitor respawned before it.                                 *)
THEOREM NoWorkerIsLeft == RunSpec => []NoWorkerOutlivesStop
<1>1. RunInv => NoWorkerOutlivesStop
  BY DEF RunInv, WorkersStopped, NoWorkerOutlivesStop
<1> QED
  BY <1>1, RunInvariant, PTL

-----------------------------------------------------------------------------
(* The buffer process: the appends on their way.                             *)

Asked == [op : {"append", "bad", "stop"}, by : Callers] \cup [op : {"sample"}, by : Callers, pipe : Nat]

Appends(q, c) == {k \in DOMAIN q : q[k].op = "append" /\ q[k].by = c}
Pending(q, c) == Cardinality(Appends(q, c))
One(r, c) == IF r.op = "append" /\ r.by = c THEN 1 ELSE 0

LEMMA PendingIsFinite ==
    ASSUME NEW q \in Seq(Asked), NEW c \in Callers
    PROVE  IsFiniteSet(Appends(q, c)) /\ Pending(q, c) \in Nat
<1>1. Appends(q, c) \subseteq 1 .. Len(q) /\ Len(q) \in Nat
  BY LenProperties DEF Appends
<1>2. IsFiniteSet(1 .. Len(q))
  BY <1>1, FS_Interval
<1> QED
  BY <1>1, <1>2, FS_Subset, FS_CardinalityType DEF Pending

LEMMA PendingJoined ==
    ASSUME NEW q \in Seq(Asked), NEW r \in Asked, NEW c \in Callers
    PROVE  Pending(Append(q, r), c) = Pending(q, c) + One(r, c)
<1>1. PICK a \in Seq(Asked) : a = Append(q, r)
  BY AppendProperties
<1>2. Len(a) = Len(q) + 1 /\ (\A i \in 1 .. Len(q) : a[i] = q[i]) /\ a[Len(q) + 1] = r
  BY <1>1, AppendProperties
<1>3. DOMAIN a = 1 .. Len(q) + 1 /\ DOMAIN q = 1 .. Len(q) /\ Len(q) \in Nat
  BY <1>2, LenProperties
<1>4. Len(q) + 1 \notin Appends(q, c)
  BY <1>3 DEF Appends
<1>5. Appends(a, c) = IF r.op = "append" /\ r.by = c THEN Appends(q, c) \cup {Len(q) + 1} ELSE Appends(q, c)
  BY <1>2, <1>3 DEF Appends
<1>6. IsFiniteSet(Appends(q, c)) /\ Pending(q, c) \in Nat
  BY PendingIsFinite
<1>7. Cardinality(Appends(q, c) \cup {Len(q) + 1}) = Cardinality(Appends(q, c)) + 1
  BY <1>4, <1>6, FS_AddElement
<1>8. Pending(a, c) = Pending(q, c) + One(r, c)
  BY <1>5, <1>6, <1>7 DEF Pending, One
<1> QED
  BY <1>1, <1>8

LEMMA PendingLeft ==
    ASSUME NEW q \in Seq(Asked), q # << >>, NEW c \in Callers
    PROVE  Pending(q, c) = Pending(Tail(q), c) + One(Head(q), c)
<1>1. PICK t \in Seq(Asked) : t = Tail(q)
  BY HeadTailProperties
<1>2. PICK h \in Asked : h = Head(q)
  BY HeadTailProperties
<1>3. Len(t) = Len(q) - 1 /\ \A i \in 1 .. Len(t) : t[i] = q[i + 1]
  BY <1>1, HeadTailProperties, Zenon
<1>4. h = q[1] /\ Len(q) \in Nat \ {0}
  BY <1>2, EmptySeq
<1>5. DOMAIN t = 1 .. Len(t) /\ DOMAIN q = 1 .. Len(q)
  BY LenProperties, Zenon
<1> DEFINE later == {k \in DOMAIN q : k # 1 /\ q[k].op = "append" /\ q[k].by = c}
           shift == [k \in Appends(t, c) |-> k + 1]
<1>6. Pending(t, c) = Cardinality(later) /\ IsFiniteSet(later) /\ Pending(t, c) \in Nat
  <2>1. \A k \in Appends(t, c) : k \in Nat /\ k + 1 \in later
    BY <1>3, <1>4, <1>5 DEF Appends
  <2>2. \A k \in later : k - 1 \in Appends(t, c) /\ shift[k - 1] = k
    BY <1>3, <1>4, <1>5 DEF Appends
  <2>3. \A i, j \in Appends(t, c) : shift[i] = shift[j] => i = j
    BY <2>1
  <2>4. shift \in [Appends(t, c) -> later]
    BY <2>1
  <2>5. shift \in Bijection(Appends(t, c), later)
    BY <2>2, <2>3, <2>4 DEF Bijection, Injection, Surjection, IsInjective
  <2>6. ExistsBijection(Appends(t, c), later)
    BY <2>5 DEF ExistsBijection
  <2> QED
    BY <2>6, PendingIsFinite, FS_Bijection DEF Pending
<1>7. 1 \notin later
  OBVIOUS
<1>8. Appends(q, c) = IF h.op = "append" /\ h.by = c THEN later \cup {1} ELSE later
  BY <1>4, <1>5 DEF Appends
<1> HIDE DEF later
<1>9. Cardinality(later \cup {1}) = Cardinality(later) + 1
  BY <1>6, <1>7, FS_AddElement
<1>10. Pending(q, c) = Pending(t, c) + One(h, c)
  BY <1>6, <1>8, <1>9 DEF Pending, One
<1> QED
  BY <1>1, <1>2, <1>10

LEMMA NothingPending ==
    ASSUME NEW q \in Seq(Asked), NEW c \in Callers, \A k \in DOMAIN q : ~(q[k].op = "append" /\ q[k].by = c)
    PROVE  Pending(q, c) = 0
<1>1. Appends(q, c) = {}
  BY DEF Appends
<1> QED
  BY <1>1, FS_EmptySet DEF Pending

-----------------------------------------------------------------------------
(* The buffer process: the invariant.                                        *)

Pipes == [state : {"idle", "waits", "answered"}, seen : Nat]

OwnedTyped ==
    owned \in [running : BOOLEAN, stopping : BOOLEAN, queue : Seq(Asked), stored : [Callers -> Nat],
               unsent : [Callers -> Seq(Asked)], put : [Callers -> Nat], calls : [Callers -> Nat],
               pipe : [Callers -> Pipes], serial : [Callers -> Nat]]

(* What a caller put is stored or on its way.                                *)
AppendsCounted ==
    \A c \in Callers :
        owned.put[c] = owned.stored[c] + Pending(owned.queue, c) + Pending(owned.unsent[c], c)

IsLive(r, c) == r.op = "sample" /\ r.by = c /\ r.pipe = owned.serial[c]

(* A feeder has requests of its caller only, and no pipe is numbered ahead.  *)
RequestsAreOwn ==
    /\ \A c \in Callers : \A k \in DOMAIN owned.unsent[c] : owned.unsent[c][k].by = c
    /\ \A c \in Callers : \A k \in DOMAIN owned.unsent[c] :
          owned.unsent[c][k].op = "sample" => owned.unsent[c][k].pipe <= owned.serial[c]
    /\ \A k \in DOMAIN owned.queue :
          owned.queue[k].op = "sample" => owned.queue[k].pipe <= owned.serial[owned.queue[k].by]

(* The request a caller waits for is the last it made.                       *)
LiveIsLast ==
    \A c \in Callers : owned.pipe[c].state = "waits" =>
        /\ \A k \in DOMAIN owned.unsent[c] : IsLive(owned.unsent[c][k], c) => k = Len(owned.unsent[c])
        /\ \A k \in DOMAIN owned.queue : IsLive(owned.queue[k], c) =>
              owned.unsent[c] = << >> /\ \A j \in DOMAIN owned.queue : j > k => owned.queue[j].by # c

OwnedInv == OwnedTyped /\ AppendsCounted /\ RequestsAreOwn /\ LiveIsLast /\ ReadsItsAppends

LEMMA OwnedFields ==
    ASSUME OwnedTyped
    PROVE  /\ owned.queue \in Seq(Asked) /\ owned.stored \in [Callers -> Nat]
           /\ owned.unsent \in [Callers -> Seq(Asked)] /\ owned.put \in [Callers -> Nat]
           /\ owned.calls \in [Callers -> Nat] /\ owned.pipe \in [Callers -> Pipes]
           /\ owned.serial \in [Callers -> Nat]
BY DEF OwnedTyped

(* One of the counts a caller has rises. *)
LEMMA Raised ==
    ASSUME NEW f \in [Callers -> Nat], NEW c \in Callers, NEW n \in Nat
    PROVE  [f EXCEPT ![c] = @ + n] \in [Callers -> Nat]
OBVIOUS

LEMMA BufferStarts == BufferInit => OwnedInv
<1> SUFFICES ASSUME BufferInit PROVE OwnedInv
  OBVIOUS
<1>1. OwnedTyped
  BY EmptyQueue DEF BufferInit, OwnedTyped, Pipes, Idle
<1>2. AppendsCounted
  <2>1. \A c \in Callers : Pending(<< >>, c) = 0
    BY FS_EmptySet DEF Pending, Appends
  <2> QED
    BY <2>1 DEF BufferInit, AppendsCounted
<1> QED
  BY <1>1, <1>2 DEF BufferInit, OwnedInv, RequestsAreOwn, LiveIsLast, ReadsItsAppends, Idle

(* A caller that waits for nothing makes a request.                          *)
LEMMA AskKeeps ==
    ASSUME OwnedInv, OwnedTyped', NEW c \in Callers, NEW r \in Asked, r.by = c, owned.pipe[c].state = "idle",
           owned'.queue = owned.queue, owned'.stored = owned.stored,
           owned'.unsent = [owned.unsent EXCEPT ![c] = Append(@, r)],
           owned'.put = [owned.put EXCEPT ![c] = @ + One(r, c)],
           \/ r.op # "sample" /\ owned'.pipe = owned.pipe /\ owned'.serial = owned.serial
           \/ /\ r.op = "sample" /\ r.pipe = owned.serial[c] + 1
              /\ owned'.pipe = [owned.pipe EXCEPT ![c] = [state |-> "waits", seen |-> 0]]
              /\ owned'.serial = [owned.serial EXCEPT ![c] = @ + 1]
    PROVE  OwnedInv'
<1>1. /\ owned.queue \in Seq(Asked) /\ owned.stored \in [Callers -> Nat]
      /\ owned.unsent \in [Callers -> Seq(Asked)] /\ owned.put \in [Callers -> Nat]
      /\ owned.pipe \in [Callers -> Pipes] /\ owned.serial \in [Callers -> Nat]
  BY OwnedFields DEF OwnedInv
<1>2. PICK u \in Seq(Asked) : u = owned.unsent[c]
  BY <1>1
<1>3. PICK a \in Seq(Asked) : a = Append(u, r)
  BY AppendProperties
<1>4. /\ owned'.unsent[c] = a
      /\ \A d \in Callers \ {c} : /\ owned'.unsent[d] = owned.unsent[d] /\ owned'.put[d] = owned.put[d]
                                  /\ owned'.pipe[d] = owned.pipe[d] /\ owned'.serial[d] = owned.serial[d]
      /\ owned'.put[c] = owned.put[c] + One(r, c)
  BY <1>1, <1>2, <1>3
<1>5. /\ DOMAIN a = 1 .. Len(u) + 1 /\ DOMAIN u = 1 .. Len(u) /\ Len(u) \in Nat /\ Len(a) = Len(u) + 1
      /\ \A i \in 1 .. Len(u) : a[i] = u[i]
      /\ a[Len(u) + 1] = r
  BY <1>3, AppendProperties, LenProperties
<1>6. AppendsCounted'
  <2>1. ASSUME NEW d \in Callers
        PROVE  owned'.put[d] = owned'.stored[d] + Pending(owned'.queue, d) + Pending(owned'.unsent[d], d)
    <3>1. owned.put[d] = owned.stored[d] + Pending(owned.queue, d) + Pending(owned.unsent[d], d)
      BY DEF OwnedInv, AppendsCounted
    <3>2. CASE d # c
      BY <1>4, <3>1, <3>2
    <3>3. CASE d = c
      <4>1. Pending(a, c) = Pending(u, c) + One(r, c)
        BY <1>3, PendingJoined
      <4>2. PICK s \in Nat : s = owned.stored[c]
        BY <1>1
      <4>3. PICK n \in Nat, m \in Nat, o \in Nat :
                n = Pending(owned.queue, c) /\ m = Pending(u, c) /\ o = One(r, c)
        BY <1>1, PendingIsFinite DEF One
      <4>4. owned.put[c] = s + n + m
        BY <1>2, <3>1, <3>3, <4>2, <4>3, Zenon
      <4>5. owned'.put[c] = s + n + m + o
        BY <1>4, <4>3, <4>4, Zenon
      <4>6. s + n + m + o = s + n + (m + o)
        OBVIOUS
      <4>7. owned'.stored[c] = s /\ Pending(owned'.queue, c) = n /\ Pending(owned'.unsent[c], c) = m + o
        BY <1>4, <4>1, <4>2, <4>3, Zenon
      <4> QED
        BY <3>3, <4>5, <4>6, <4>7, Zenon
    <3> QED
      BY <3>2, <3>3
  <2> QED
    BY <2>1 DEF AppendsCounted
<1>7. /\ \A d \in Callers : owned.serial[d] \in Nat /\ owned'.serial[d] \in Nat /\ owned.serial[d] <= owned'.serial[d]
      /\ r.op = "sample" => r.pipe = owned'.serial[c] /\ owned'.serial[c] = owned.serial[c] + 1
  <2>1. CASE r.op # "sample" /\ owned'.serial = owned.serial
    BY <1>1, <2>1
  <2>2. CASE r.op = "sample" /\ r.pipe = owned.serial[c] + 1 /\ owned'.serial = [owned.serial EXCEPT ![c] = @ + 1]
    BY <1>1, <2>2
  <2> QED
    BY <2>1, <2>2
<1>8. \A k \in DOMAIN owned.queue : owned.queue[k] \in Asked
  BY <1>1, LenProperties, ElementOfSeq
<1>9. \A d \in Callers : \A k \in DOMAIN owned.unsent[d] : owned.unsent[d][k] \in Asked
  BY <1>1, LenProperties, ElementOfSeq
<1>10. RequestsAreOwn'
  <2>1. \A d \in Callers : \A k \in DOMAIN owned'.unsent[d] : owned'.unsent[d][k].by = d
    BY <1>2, <1>4, <1>5 DEF OwnedInv, RequestsAreOwn
  <2>2. ASSUME NEW d \in Callers, NEW k \in DOMAIN owned'.unsent[d], owned'.unsent[d][k].op = "sample"
        PROVE  owned'.unsent[d][k].pipe <= owned'.serial[d]
    <3>1. CASE d = c /\ k = Len(u) + 1
      BY <1>4, <1>5, <1>7, <2>2, <3>1
    <3>2. CASE ~(d = c /\ k = Len(u) + 1)
      <4>1. k \in DOMAIN owned.unsent[d] /\ owned'.unsent[d][k] = owned.unsent[d][k]
        BY <1>2, <1>4, <1>5, <3>2
      <4>2. owned.unsent[d][k].pipe <= owned.serial[d] /\ owned.unsent[d][k].pipe \in Nat
        BY <1>9, <2>2, <4>1 DEF OwnedInv, RequestsAreOwn, Asked
      <4>3. PICK x \in Nat, y \in Nat, z \in Nat :
                x = owned.unsent[d][k].pipe /\ y = owned.serial[d] /\ z = owned'.serial[d]
        BY <1>7, <4>2, Zenon
      <4>4. x <= y /\ y <= z
        BY <1>7, <4>2, <4>3, Zenon
      <4>5. x <= z
        BY ONLY <4>4
      <4> QED
        BY <4>1, <4>3, <4>5, Zenon
    <3> QED
      BY <3>1, <3>2
  <2>3. ASSUME NEW k \in DOMAIN owned'.queue, owned'.queue[k].op = "sample"
        PROVE  owned'.queue[k].pipe <= owned'.serial[owned'.queue[k].by]
    <3>1. owned.queue[k].pipe <= owned.serial[owned.queue[k].by]
      BY <2>3 DEF OwnedInv, RequestsAreOwn
    <3>2. owned.queue[k].by \in Callers /\ owned.queue[k].pipe \in Nat
      BY <1>8, <2>3 DEF Asked
    <3> QED
      BY <1>7, <3>1, <3>2
  <2> QED
    BY <2>1, <2>2, <2>3 DEF RequestsAreOwn
<1>11. LiveIsLast'
  <2> SUFFICES ASSUME NEW d \in Callers, owned'.pipe[d].state = "waits"
               PROVE  /\ \A k \in DOMAIN owned'.unsent[d] : IsLive(owned.unsent[d][k], d)' => k = Len(owned'.unsent[d])
                      /\ \A k \in DOMAIN owned'.queue : IsLive(owned.queue[k], d)' =>
                            /\ owned'.unsent[d] = << >>
                            /\ \A j \in DOMAIN owned'.queue : j > k => owned'.queue[j].by # d
    BY DEF LiveIsLast
  <2>1. CASE d # c
    BY <1>4, <2>1 DEF OwnedInv, LiveIsLast, IsLive
  <2>2. CASE d = c
    <3>1. r.op = "sample"
      BY <2>2
    <3>2. \A k \in 1 .. Len(u) : u[k].op = "sample" => u[k].pipe <= owned.serial[c] /\ u[k].pipe \in Nat
      BY <1>2, <1>5, <1>9 DEF OwnedInv, RequestsAreOwn, Asked
    <3>3. \A k \in 1 .. Len(u) : ~IsLive(u[k], c)'
      BY <1>7, <3>1, <3>2 DEF IsLive
    <3>4. \A k \in DOMAIN owned.queue : owned.queue[k].op = "sample" /\ owned.queue[k].by = c =>
             owned.queue[k].pipe <= owned.serial[c] /\ owned.queue[k].pipe \in Nat
      BY <1>8 DEF OwnedInv, RequestsAreOwn, Asked
    <3>5. \A k \in DOMAIN owned'.queue : ~IsLive(owned.queue[k], c)'
      BY <1>7, <3>1, <3>4 DEF IsLive
    <3>6. \A k \in DOMAIN a : IsLive(a[k], c)' => k = Len(a)
      BY <1>5, <3>3 DEF IsLive
    <3> QED
      BY <1>4, <2>2, <3>5, <3>6
  <2> QED
    BY <2>1, <2>2
<1>12. ReadsItsAppends'
  BY <1>1, <1>4 DEF OwnedInv, ReadsItsAppends
<1> QED
  BY <1>6, <1>10, <1>11, <1>12 DEF OwnedInv

(* A caller stops waiting, or the process is ended.                          *)
LEMMA RestKeeps ==
    ASSUME OwnedInv, OwnedTyped',
           owned'.queue = owned.queue, owned'.stored = owned.stored, owned'.unsent = owned.unsent,
           owned'.put = owned.put, owned'.serial = owned.serial,
           \A c \in Callers : owned'.pipe[c] = owned.pipe[c] \/ owned'.pipe[c].state = "idle"
    PROVE  OwnedInv'
<1>1. AppendsCounted' /\ RequestsAreOwn'
  BY DEF OwnedInv, AppendsCounted, RequestsAreOwn
<1>2. LiveIsLast'
  BY DEF OwnedInv, LiveIsLast, IsLive
<1>3. ReadsItsAppends'
  BY DEF OwnedInv, ReadsItsAppends
<1> QED
  BY <1>1, <1>2, <1>3 DEF OwnedInv

(* A feeder writes the first of its requests.                                *)
LEMMA FeedKeeps ==
    ASSUME OwnedInv, NEW c \in Callers, Feed(c)
    PROVE  OwnedInv'
<1>1. /\ owned.queue \in Seq(Asked) /\ owned.stored \in [Callers -> Nat]
      /\ owned.unsent \in [Callers -> Seq(Asked)]
  BY OwnedFields DEF OwnedInv
<1>2. PICK u \in Seq(Asked) : u = owned.unsent[c] /\ u # << >>
  BY <1>1 DEF Feed
<1>3. PICK h \in Asked, t \in Seq(Asked) : h = Head(u) /\ t = Tail(u)
  BY <1>2, HeadTailProperties
<1>4. PICK q \in Seq(Asked) : q = owned.queue
  BY <1>1
<1>5. PICK a \in Seq(Asked) : a = Append(q, h)
  BY AppendProperties
<1>6. owned' = [owned EXCEPT !.unsent[c] = t, !.queue = a]
  BY <1>2, <1>3, <1>4, <1>5 DEF Feed
<1>7. OwnedTyped'
  BY <1>6 DEF OwnedInv, OwnedTyped
<1>8. /\ owned'.queue = a /\ owned'.unsent = [owned.unsent EXCEPT ![c] = t]
      /\ owned'.stored = owned.stored /\ owned'.put = owned.put /\ owned'.pipe = owned.pipe
      /\ owned'.serial = owned.serial
  BY <1>6 DEF OwnedInv, OwnedTyped
<1>9. owned'.unsent[c] = t /\ \A d \in Callers \ {c} : owned'.unsent[d] = owned.unsent[d]
  BY <1>1, <1>8
<1>10. /\ DOMAIN a = 1 .. Len(q) + 1 /\ DOMAIN q = 1 .. Len(q) /\ Len(q) \in Nat
       /\ \A i \in 1 .. Len(q) : a[i] = q[i]
       /\ a[Len(q) + 1] = h
  BY <1>5, AppendProperties, LenProperties
<1>11. h = u[1] /\ Len(u) \in Nat \ {0}
  BY <1>2, <1>3, EmptySeq
<1>12. Len(t) = Len(u) - 1 /\ \A i \in 1 .. Len(t) : t[i] = u[i + 1]
  BY <1>2, <1>3, HeadTailProperties, Zenon
<1>13. DOMAIN t = 1 .. Len(t) /\ DOMAIN u = 1 .. Len(u)
  BY LenProperties, Zenon
<1>14. 1 \in DOMAIN u /\ \A i \in DOMAIN t : i + 1 \in DOMAIN u /\ t[i] = u[i + 1]
  BY <1>11, <1>12, <1>13
<1>15. /\ \A i \in DOMAIN u : u[i].by = c
       /\ \A i \in DOMAIN u : u[i].op = "sample" => u[i].pipe <= owned.serial[c]
       /\ \A k \in DOMAIN q : q[k].op = "sample" => q[k].pipe <= owned.serial[q[k].by]
  BY <1>2, <1>4 DEF OwnedInv, RequestsAreOwn
<1>16. AppendsCounted'
  <2> SUFFICES ASSUME NEW d \in Callers
               PROVE  owned'.put[d] = owned'.stored[d] + Pending(owned'.queue, d) + Pending(owned'.unsent[d], d)
    BY DEF AppendsCounted
  <2>1. owned.put[d] = owned.stored[d] + Pending(q, d) + Pending(owned.unsent[d], d)
    BY <1>4, Zenon DEF OwnedInv, AppendsCounted
  <2>2. Pending(a, d) = Pending(q, d) + One(h, d)
    BY <1>5, PendingJoined
  <2>3. PICK s \in Nat, n \in Nat, m \in Nat, o \in Nat :
            s = owned.stored[d] /\ n = Pending(q, d) /\ m = Pending(t, d) /\ o = One(h, d)
    BY <1>1, PendingIsFinite DEF One
  <2>4. CASE d = c
    <3>1. Pending(u, c) = Pending(t, c) + One(h, c)
      BY <1>2, <1>3, PendingLeft
    <3>2. owned.put[d] = s + n + (m + o)
      BY <1>2, <2>1, <2>3, <2>4, <3>1, Zenon
    <3>3. s + n + (m + o) = s + (n + o) + m
      OBVIOUS
    <3> QED
      BY <1>8, <1>9, <2>2, <2>3, <2>4, <3>2, <3>3, Zenon
  <2>5. CASE d # c
    <3>1. One(h, d) = 0
      BY <1>11, <1>14, <1>15, <2>5 DEF One
    <3>2. Pending(a, d) = n
      BY <2>2, <2>3, <3>1
    <3> QED
      BY <1>8, <1>9, <2>1, <2>3, <2>5, <3>2, Zenon
  <2> QED
    BY <2>4, <2>5
<1>17. RequestsAreOwn'
  <2>1. ASSUME NEW d \in Callers, NEW k \in DOMAIN owned'.unsent[d]
        PROVE  /\ owned'.unsent[d][k].by = d
               /\ owned'.unsent[d][k].op = "sample" => owned'.unsent[d][k].pipe <= owned'.serial[d]
    <3>1. CASE d = c
      <4>1. owned'.unsent[d] = t /\ owned'.serial = owned.serial /\ k \in DOMAIN t
        BY <1>8, <1>9, <3>1
      <4>2. k + 1 \in DOMAIN u /\ t[k] = u[k + 1]
        BY <1>14, <4>1, Zenon
      <4>3. t[k].by = c /\ (t[k].op = "sample" => t[k].pipe <= owned.serial[c])
        BY <1>15, <4>2, Zenon
      <4> QED
        BY <3>1, <4>1, <4>3, Zenon
    <3>2. CASE d # c
      <4>1. PICK v : v = owned.unsent[d]
        OBVIOUS
      <4>2. owned'.unsent[d] = v /\ owned'.serial = owned.serial
        BY <1>8, <1>9, <3>2, <4>1
      <4>3. \A i \in DOMAIN v : v[i].by = d /\ (v[i].op = "sample" => v[i].pipe <= owned.serial[d])
        BY <4>1, Zenon DEF OwnedInv, RequestsAreOwn
      <4>4. k \in DOMAIN v
        BY <4>2
      <4>5. v[k].by = d /\ (v[k].op = "sample" => v[k].pipe <= owned.serial[d])
        BY <4>3, <4>4, Zenon
      <4> QED
        BY <4>2, <4>5, Zenon
    <3> QED
      BY <3>1, <3>2
  <2>2. ASSUME NEW k \in DOMAIN a, a[k].op = "sample"
        PROVE  a[k].pipe <= owned.serial[a[k].by]
    <3>1. CASE k = Len(q) + 1
      BY <1>10, <1>11, <1>14, <1>15, <2>2, <3>1
    <3>2. CASE k # Len(q) + 1
      BY <1>10, <1>15, <2>2, <3>2
    <3> QED
      BY <3>1, <3>2
  <2> QED
    BY <1>8, <2>1, <2>2 DEF RequestsAreOwn
<1>18. LiveIsLast'
  <2> SUFFICES ASSUME NEW d \in Callers, owned.pipe[d].state = "waits"
               PROVE  /\ \A k \in DOMAIN owned'.unsent[d] :
                            IsLive(owned'.unsent[d][k], d) => k = Len(owned'.unsent[d])
                      /\ \A k \in DOMAIN a : IsLive(a[k], d) =>
                            /\ owned'.unsent[d] = << >>
                            /\ \A j \in DOMAIN a : j > k => a[j].by # d
    BY <1>8 DEF LiveIsLast, IsLive
  <2>1. /\ \A k \in DOMAIN owned.unsent[d] : IsLive(owned.unsent[d][k], d) => k = Len(owned.unsent[d])
        /\ \A k \in DOMAIN q : IsLive(q[k], d) =>
              owned.unsent[d] = << >> /\ \A j \in DOMAIN q : j > k => q[j].by # d
    BY <1>4, Zenon DEF OwnedInv, LiveIsLast
  <2>2. CASE d = c
    <3>1. \A k \in DOMAIN t : IsLive(t[k], c) => k = Len(t)
      <4> SUFFICES ASSUME NEW k \in DOMAIN t, IsLive(t[k], c) PROVE k = Len(t)
        OBVIOUS
      <4>1. k + 1 \in DOMAIN u /\ IsLive(u[k + 1], c)
        BY <1>14, Zenon
      <4>2. k + 1 = Len(u)
        BY <1>2, <2>1, <2>2, <4>1, Zenon
      <4> QED
        BY <1>11, <1>12, <1>13, <4>2
    <3>2. \A k \in DOMAIN q : ~IsLive(q[k], c)
      BY <1>2, <2>1, <2>2, Zenon
    <3>3. ASSUME IsLive(h, c) PROVE t = << >>
      <4>1. 1 = Len(u)
        BY <1>2, <1>11, <1>14, <2>1, <2>2, <3>3, Zenon
      <4>2. Len(t) = 0
        BY <1>12, <4>1
      <4> QED
        BY <4>2, EmptySeq
    <3>4. \A k \in DOMAIN a : IsLive(a[k], c) => k = Len(q) + 1 /\ IsLive(h, c)
      BY <1>10, <3>2
    <3> QED
      BY <1>9, <1>10, <2>2, <3>1, <3>3, <3>4
  <2>3. CASE d # c
    <3>1. h.by # d
      BY <1>11, <1>14, <1>15, <2>3
    <3>2. ~IsLive(h, d)
      BY <3>1 DEF IsLive
    <3>3. ASSUME NEW k \in DOMAIN a, IsLive(a[k], d)
          PROVE  owned.unsent[d] = << >> /\ \A j \in DOMAIN a : j > k => a[j].by # d
      <4>1. k \in DOMAIN q /\ a[k] = q[k]
        BY <1>10, <3>2, <3>3
      <4>2. owned.unsent[d] = << >> /\ \A j \in DOMAIN q : j > k => q[j].by # d
        BY <2>1, <3>3, <4>1, Zenon
      <4> QED
        BY <1>10, <3>1, <4>2
    <3> QED
      BY <1>9, <2>1, <2>3, <3>3
  <2> QED
    BY <2>2, <2>3
<1>19. ReadsItsAppends'
  BY <1>8 DEF OwnedInv, ReadsItsAppends
<1> QED
  BY <1>7, <1>16, <1>17, <1>18, <1>19 DEF OwnedInv

(* The process takes the next request: stores a game, answers, or ends.      *)
LEMMA ServeKeeps ==
    ASSUME OwnedInv, Serve
    PROVE  OwnedInv'
<1>1. /\ owned.queue \in Seq(Asked) /\ owned.stored \in [Callers -> Nat]
      /\ owned.unsent \in [Callers -> Seq(Asked)] /\ owned.pipe \in [Callers -> Pipes]
  BY OwnedFields DEF OwnedInv
<1>2. PICK q \in Seq(Asked) : q = owned.queue /\ q # << >>
  BY <1>1 DEF Serve
<1>3. PICK h \in Asked, t \in Seq(Asked) : h = Head(q) /\ t = Tail(q)
  BY <1>2, HeadTailProperties
<1>4. h.by \in Callers
  BY DEF Asked
<1>5. PICK next : next = [owned EXCEPT !.queue = t]
  OBVIOUS
<1>6. \/ h.op = "append" /\ owned' = [next EXCEPT !.stored[h.by] = @ + 1]
      \/ h.op = "sample" /\ Reads(h) /\ owned' = [next EXCEPT !.pipe[h.by] = SampleAnswer(h)]
      \/ h.op # "append" /\ owned' = [next EXCEPT !.running = FALSE]
  BY <1>2, <1>3, <1>5 DEF Serve
<1>7. /\ owned'.queue = t /\ owned'.unsent = owned.unsent /\ owned'.put = owned.put
      /\ owned'.serial = owned.serial
  BY <1>5, <1>6 DEF OwnedInv, OwnedTyped
<1>8. \/ /\ h.op = "append" /\ owned'.stored = [owned.stored EXCEPT ![h.by] = @ + 1]
         /\ owned'.pipe = owned.pipe
      \/ /\ h.op = "sample" /\ Reads(h) /\ owned'.pipe = [owned.pipe EXCEPT ![h.by] = SampleAnswer(h)]
         /\ owned'.stored = owned.stored
      \/ h.op # "append" /\ owned'.stored = owned.stored /\ owned'.pipe = owned.pipe
  BY <1>5, <1>6 DEF OwnedInv, OwnedTyped
<1>9. SampleAnswer(h) \in Pipes
  BY <1>1, <1>4 DEF SampleAnswer, Pipes
<1>10. OwnedTyped'
  <2>1. CASE owned' = [next EXCEPT !.running = FALSE]
    BY <1>5, <2>1 DEF OwnedInv, OwnedTyped
  <2>2. CASE owned' = [next EXCEPT !.pipe[h.by] = SampleAnswer(h)]
    <3>1. owned' = [owned EXCEPT !.queue = t, !.pipe[h.by] = SampleAnswer(h)]
      BY <1>5, <2>2 DEF OwnedInv, OwnedTyped
    <3> QED
      BY <1>4, <1>9, <3>1 DEF OwnedInv, OwnedTyped
  <2>3. CASE owned' = [next EXCEPT !.stored[h.by] = @ + 1]
    <3>1. PICK st \in [Callers -> Nat] : st = [owned.stored EXCEPT ![h.by] = @ + 1]
      BY <1>1, <1>4, Raised
    <3>2. owned' = [owned EXCEPT !.queue = t, !.stored = st]
      BY <1>5, <2>3, <3>1 DEF OwnedInv, OwnedTyped
    <3> QED
      BY <3>2 DEF OwnedInv, OwnedTyped
  <2> QED
    BY <1>6, <2>1, <2>2, <2>3
<1>11. h = q[1] /\ Len(q) \in Nat \ {0}
  BY <1>2, <1>3, EmptySeq
<1>12. Len(t) = Len(q) - 1 /\ \A i \in 1 .. Len(t) : t[i] = q[i + 1]
  BY <1>2, <1>3, HeadTailProperties, Zenon
<1>13. DOMAIN t = 1 .. Len(t) /\ DOMAIN q = 1 .. Len(q)
  BY LenProperties, Zenon
<1>14. 1 \in DOMAIN q /\ \A i \in DOMAIN t : i \in Nat /\ i + 1 \in DOMAIN q /\ t[i] = q[i + 1]
  BY <1>11, <1>12, <1>13
<1>15. AppendsCounted'
  <2> SUFFICES ASSUME NEW d \in Callers
               PROVE  owned'.put[d] = owned'.stored[d] + Pending(owned'.queue, d) + Pending(owned'.unsent[d], d)
    BY DEF AppendsCounted
  <2>1. owned.put[d] = owned.stored[d] + Pending(q, d) + Pending(owned.unsent[d], d)
    BY <1>2, Zenon DEF OwnedInv, AppendsCounted
  <2>2. Pending(q, d) = Pending(t, d) + One(h, d)
    BY <1>2, <1>3, PendingLeft
  <2>3. PICK s \in Nat, n \in Nat, m \in Nat, o \in Nat :
            s = owned.stored[d] /\ n = Pending(t, d) /\ m = Pending(owned.unsent[d], d) /\ o = One(h, d)
    BY <1>1, PendingIsFinite DEF One
  <2>4. owned'.stored[d] = s + o
    <3>1. CASE h.op = "append" /\ owned'.stored = [owned.stored EXCEPT ![h.by] = @ + 1]
      BY <1>1, <1>4, <2>3, <3>1 DEF One
    <3>2. CASE h.op # "append" /\ owned'.stored = owned.stored
      BY <2>3, <3>2 DEF One
    <3> QED
      BY <1>8, <3>1, <3>2
  <2>5. owned.put[d] = s + (n + o) + m
    BY <2>1, <2>2, <2>3, Zenon
  <2>6. s + (n + o) + m = (s + o) + n + m
    OBVIOUS
  <2> QED
    BY <1>7, <2>3, <2>4, <2>5, <2>6, Zenon
<1>16. RequestsAreOwn'
  <2>1. \A k \in DOMAIN q : q[k].op = "sample" => q[k].pipe <= owned.serial[q[k].by]
    BY <1>2, Zenon DEF OwnedInv, RequestsAreOwn
  <2>2. \A k \in DOMAIN t : t[k].op = "sample" => t[k].pipe <= owned.serial[t[k].by]
    BY <1>14, <2>1, Zenon
  <2> QED
    BY <1>7, <2>2, Zenon DEF OwnedInv, RequestsAreOwn
<1>17. LiveIsLast'
  <2> SUFFICES ASSUME NEW d \in Callers, owned'.pipe[d].state = "waits"
               PROVE  /\ \A k \in DOMAIN owned.unsent[d] :
                            IsLive(owned.unsent[d][k], d) => k = Len(owned.unsent[d])
                      /\ \A k \in DOMAIN t : IsLive(t[k], d) =>
                            /\ owned.unsent[d] = << >>
                            /\ \A j \in DOMAIN t : j > k => t[j].by # d
    BY <1>7 DEF LiveIsLast, IsLive
  <2>1. owned.pipe[d].state = "waits"
    <3>1. SampleAnswer(h).state = "answered"
      BY DEF SampleAnswer
    <3>2. CASE owned'.pipe = [owned.pipe EXCEPT ![h.by] = SampleAnswer(h)]
      BY <1>1, <3>1, <3>2
    <3>3. CASE owned'.pipe = owned.pipe
      BY <3>3
    <3> QED
      BY <1>8, <3>2, <3>3
  <2>2. /\ \A k \in DOMAIN owned.unsent[d] : IsLive(owned.unsent[d][k], d) => k = Len(owned.unsent[d])
        /\ \A k \in DOMAIN q : IsLive(q[k], d) =>
              owned.unsent[d] = << >> /\ \A j \in DOMAIN q : j > k => q[j].by # d
    BY <1>2, <2>1, Zenon DEF OwnedInv, LiveIsLast
  <2>3. ASSUME NEW k \in DOMAIN t, IsLive(t[k], d)
        PROVE  owned.unsent[d] = << >> /\ \A j \in DOMAIN t : j > k => t[j].by # d
    <3>1. k + 1 \in DOMAIN q /\ IsLive(q[k + 1], d)
      BY <1>14, <2>3, Zenon
    <3>2. owned.unsent[d] = << >> /\ \A j \in DOMAIN q : j > k + 1 => q[j].by # d
      BY <2>2, <3>1, Zenon
    <3>3. \A j \in DOMAIN t : j > k => j + 1 > k + 1
      BY <1>14
    <3> QED
      BY <1>14, <3>2, <3>3, Zenon
  <2> QED
    BY <2>2, <2>3
<1>18. ReadsItsAppends'
  <2> SUFFICES ASSUME NEW d \in Callers, owned'.pipe[d].state = "answered"
               PROVE  owned'.pipe[d].seen = owned.put[d]
    BY <1>7 DEF ReadsItsAppends
  <2>1. CASE owned'.pipe[d] = owned.pipe[d]
    BY <2>1 DEF OwnedInv, ReadsItsAppends
  <2>2. CASE owned'.pipe[d] # owned.pipe[d]
    <3>1. h.op = "sample" /\ Reads(h) /\ d = h.by /\ owned'.pipe[d] = SampleAnswer(h)
      BY <1>1, <1>4, <1>8, <2>2
    <3>2. owned.pipe[d].state = "waits" /\ IsLive(h, d) /\ owned'.pipe[d].seen = owned.stored[d]
      BY <3>1 DEF Reads, IsLive, SampleAnswer
    <3>3. owned.unsent[d] = << >> /\ \A j \in DOMAIN q : j > 1 => q[j].by # d
      BY <1>2, <1>11, <1>14, <3>2, Zenon DEF OwnedInv, LiveIsLast
    <3>4. \A k \in DOMAIN q : ~(q[k].op = "append" /\ q[k].by = d)
      BY <1>11, <1>13, <3>1, <3>3
    <3>5. Pending(q, d) = 0
      BY <3>4, NothingPending
    <3>6. Pending(<< >>, d) = 0
      BY FS_EmptySet DEF Pending, Appends
    <3>7. owned.put[d] = owned.stored[d] + 0 + 0
      BY <1>2, <3>3, <3>5, <3>6, Zenon DEF OwnedInv, AppendsCounted
    <3> QED
      BY <1>1, <3>2, <3>7
  <2> QED
    BY <2>1, <2>2
<1> QED
  BY <1>10, <1>15, <1>16, <1>17, <1>18 DEF OwnedInv

LEMMA CallsKeep ==
    ASSUME OwnedInv, NEW c \in Callers, SampleCall(c) \/ \E good \in BOOLEAN : AppendCall(c, good)
    PROVE  OwnedInv'
<1>1. /\ owned.unsent \in [Callers -> Seq(Asked)] /\ owned.put \in [Callers -> Nat]
      /\ owned.calls \in [Callers -> Nat] /\ owned.pipe \in [Callers -> Pipes]
      /\ owned.serial \in [Callers -> Nat]
  BY OwnedFields DEF OwnedInv
<1>2. owned.pipe[c].state = "idle"
  BY DEF SampleCall, AppendCall, CanCall
<1>3. PICK cs \in [Callers -> Nat] : cs = [owned.calls EXCEPT ![c] = @ + 1]
  BY <1>1, Raised
<1>4. CASE SampleCall(c)
  <2> DEFINE r == [op |-> "sample", by |-> c, pipe |-> owned.serial[c] + 1]
             wait == [state |-> "waits", seen |-> 0]
  <2>1. r \in Asked /\ r.by = c /\ r.op = "sample" /\ r.pipe = owned.serial[c] + 1 /\ One(r, c) = 0
    BY <1>1 DEF Asked, One
  <2>2. wait \in Pipes
    BY DEF Pipes
  <2>3. PICK us \in [Callers -> Seq(Asked)] : us = [owned.unsent EXCEPT ![c] = Append(@, r)]
    BY <1>1, <2>1, AppendProperties
  <2>4. PICK ps \in [Callers -> Pipes] : ps = [owned.pipe EXCEPT ![c] = wait]
    BY <1>1, <2>2
  <2>5. PICK ns \in [Callers -> Nat] : ns = [owned.serial EXCEPT ![c] = @ + 1]
    BY <1>1, Raised
  <2>6. owned' = [owned EXCEPT !.calls = cs, !.pipe = ps, !.serial = ns, !.unsent = us]
    BY <1>3, <1>4, <2>3, <2>4, <2>5 DEF SampleCall, OwnedInv, OwnedTyped
  <2>7. OwnedTyped'
    BY <2>6 DEF OwnedInv, OwnedTyped
  <2>8. /\ owned'.queue = owned.queue /\ owned'.stored = owned.stored /\ owned'.put = owned.put
        /\ owned'.unsent = us /\ owned'.pipe = ps /\ owned'.serial = ns
    BY <2>6 DEF OwnedInv, OwnedTyped
  <2> HIDE DEF r
  <2>9. owned'.put = [owned.put EXCEPT ![c] = @ + One(r, c)]
    BY <1>1, <2>1, <2>8
  <2> QED
    BY <1>2, <2>1, <2>3, <2>4, <2>5, <2>7, <2>8, <2>9, AskKeeps
<1>5. ASSUME NEW good \in BOOLEAN, AppendCall(c, good) PROVE OwnedInv'
  <2> DEFINE r == [op |-> IF good THEN "append" ELSE "bad", by |-> c]
  <2>1. r \in Asked /\ r.by = c /\ r.op # "sample" /\ One(r, c) = IF good THEN 1 ELSE 0
    BY DEF Asked, One
  <2>2. PICK us \in [Callers -> Seq(Asked)] : us = [owned.unsent EXCEPT ![c] = Append(@, r)]
    BY <1>1, <2>1, AppendProperties
  <2>3. PICK ts \in [Callers -> Nat] : ts = [owned.put EXCEPT ![c] = @ + One(r, c)]
    BY <1>1, <2>1, Raised
  <2>4. owned' = [owned EXCEPT !.calls = cs, !.put = ts, !.unsent = us]
    <3>1. owned.put[c] + One(r, c) = IF good THEN owned.put[c] + 1 ELSE owned.put[c]
      BY <1>1, <2>1
    <3> QED
      BY <1>3, <1>5, <2>2, <2>3, <3>1 DEF AppendCall, OwnedInv, OwnedTyped
  <2>5. OwnedTyped'
    BY <2>4 DEF OwnedInv, OwnedTyped
  <2>6. /\ owned'.queue = owned.queue /\ owned'.stored = owned.stored /\ owned'.pipe = owned.pipe
        /\ owned'.unsent = us /\ owned'.serial = owned.serial /\ owned'.put = ts
    BY <2>4 DEF OwnedInv, OwnedTyped
  <2> HIDE DEF r
  <2> QED
    BY <1>2, <2>1, <2>2, <2>3, <2>5, <2>6, AskKeeps
<1> QED
  BY <1>4, <1>5

LEMMA StopKeeps ==
    ASSUME OwnedInv, StopCall
    PROVE  OwnedInv'
<1> USE DEF OwnedInv, OwnedTyped
<1> DEFINE r == [op |-> "stop", by |-> Owner]
<1>1. Owner \in Callers
  BY BufferOK
<1>2. r \in Asked /\ r.by = Owner /\ r.op # "sample" /\ One(r, Owner) = 0
  BY <1>1 DEF Asked, One
<1>3. PICK u \in Seq(Asked) : u = Append(owned.unsent[Owner], r)
  BY <1>1, <1>2, AppendProperties
<1>4. owned' = [owned EXCEPT !.stopping = TRUE, !.unsent[Owner] = u]
  BY <1>3 DEF StopCall
<1> HIDE DEF r
<1>5. OwnedTyped'
  BY <1>1, <1>4
<1>6. /\ owned'.queue = owned.queue /\ owned'.stored = owned.stored /\ owned'.pipe = owned.pipe
      /\ owned'.unsent = [owned.unsent EXCEPT ![Owner] = u] /\ owned'.serial = owned.serial
      /\ owned'.put = owned.put
  BY <1>1, <1>4
<1>7. owned.put = [owned.put EXCEPT ![Owner] = @ + One(r, Owner)]
  BY <1>1, <1>2
<1> QED
  BY <1>1, <1>2, <1>3, <1>5, <1>6, <1>7, AskKeeps DEF StopCall, CanCall

LEMMA BufferStep == OwnedInv /\ [BufferNext]_owned => OwnedInv'
<1> SUFFICES ASSUME OwnedInv, [BufferNext]_owned PROVE OwnedInv'
  OBVIOUS
<1>1. CASE UNCHANGED owned
  BY <1>1 DEF OwnedInv, OwnedTyped, AppendsCounted, RequestsAreOwn, LiveIsLast, IsLive, ReadsItsAppends
<1>2. ASSUME NEW c \in Callers, SampleReturns(c) \/ SampleTimesOut(c) PROVE OwnedInv'
  <2>1. owned' = [owned EXCEPT !.pipe[c] = Idle] /\ Idle \in Pipes /\ Idle.state = "idle"
    BY <1>2 DEF SampleReturns, SampleTimesOut, Idle, Pipes
  <2>2. OwnedTyped'
    BY <2>1 DEF OwnedInv, OwnedTyped
  <2>3. /\ owned'.queue = owned.queue /\ owned'.stored = owned.stored /\ owned'.unsent = owned.unsent
        /\ owned'.put = owned.put /\ owned'.serial = owned.serial
        /\ owned'.pipe = [owned.pipe EXCEPT ![c] = Idle]
    BY <2>1 DEF OwnedInv, OwnedTyped
  <2>4. \A d \in Callers : owned'.pipe[d] = owned.pipe[d] \/ owned'.pipe[d].state = "idle"
    BY <2>1, <2>3, OwnedFields DEF OwnedInv
  <2> QED
    BY <2>2, <2>3, <2>4, RestKeeps
<1>3. CASE Terminate
  <2>1. owned' = [owned EXCEPT !.running = FALSE]
    BY <1>3 DEF Terminate
  <2>2. OwnedTyped'
    BY <2>1 DEF OwnedInv, OwnedTyped
  <2>3. /\ owned'.queue = owned.queue /\ owned'.stored = owned.stored /\ owned'.unsent = owned.unsent
        /\ owned'.put = owned.put /\ owned'.serial = owned.serial /\ owned'.pipe = owned.pipe
    BY <2>1 DEF OwnedInv, OwnedTyped
  <2> QED
    BY <2>2, <2>3, RestKeeps
<1> QED
  BY <1>1, <1>2, <1>3, FeedKeeps, ServeKeeps, CallsKeep, StopKeeps DEF BufferNext

(* What a caller put is stored or on its way, and the request it waits for   *)
(* comes after all of it, together with the shape of the state.              *)
THEOREM BufferInvariant == BufferSpec => []OwnedInv
BY BufferStarts, BufferStep, PTL DEF BufferSpec

(* A caller samples from a buffer that holds all it appended before, however *)
(* many callers there are, whatever times out or ends on the way.            *)
THEOREM ReadsItsAppendsHolds == BufferSpec => []ReadsItsAppends
<1>1. OwnedInv => ReadsItsAppends
  BY DEF OwnedInv
<1> QED
  BY <1>1, BufferInvariant, PTL


-----------------------------------------------------------------------------
(* The targets of a finished game.                                           *)

(* A turn is two placements but the first, and the players take turns.       *)
LEMMA TurnsAre ==
    ASSUME NEW p \in Nat
    PROVE  /\ TurnOf(p) \in Nat /\ PlyPlayer(p) = TurnOf(p) % 2
           /\ TurnOf(p + 1) = IF p % 2 = 0 THEN TurnOf(p) + 1 ELSE TurnOf(p)
           /\ PlyPlayer(p + 1) = PlyPlayer(p) <=> p % 2 = 1
  BY DEF TurnOf, PlyPlayer

(* The first ply of a turn.                                                  *)
LEMMA FirstPlyIs ==
    ASSUME NEW t \in Nat
    PROVE  /\ FirstPly(t) \in Nat /\ TurnOf(FirstPly(t)) = t
           /\ t # 0 => FirstPly(t) % 2 = 1
           /\ \A p \in Nat : TurnOf(p) >= t <=> p >= FirstPly(t)
           /\ \A p \in Nat : p % 2 = 1 /\ TurnOf(p) = t => p = FirstPly(t)
  BY DEF TurnOf, FirstPly

(* A position of a record, and the records of the game tg.                   *)
Rows == [ply : Nat, player : {0, 1}, root : RootValues, full : BOOLEAN, chosen : {1, -1, NotFound},
         searched : {"none", "some", "all"}, complete : BOOLEAN]

RowsOfGame(rows, start, full) ==
    /\ rows \in Seq(Rows) /\ start \in Nat
    /\ \A i \in 1 .. Len(rows) :
          /\ rows[i].ply = start + i - 1 /\ rows[i].player = PlyPlayer(start + i - 1)
          /\ rows[i].full = full
          /\ PlacementsLeft(start + i - 1) = 1 => rows[i].searched = "none"

(* The rows that begin a turn.                                               *)
LEMMA StartsAre ==
    ASSUME NEW rows, NEW start, NEW full, RowsOfGame(rows, start, full)
    PROVE  TurnStarts(rows) = {i \in 1 .. Len(rows) : i = 1 \/ (start + i - 1) % 2 = 1}
<1>1. /\ start \in Nat /\ Len(rows) \in Nat /\ DOMAIN rows = 1 .. Len(rows)
      /\ \A i \in 1 .. Len(rows) : rows[i].player = PlyPlayer(start + i - 1)
  BY DEF RowsOfGame
<1>2. ASSUME NEW i \in 1 .. Len(rows), i # 1
      PROVE  rows[i].player # rows[i - 1].player <=> (start + i - 1) % 2 = 1
  <2> DEFINE p == start + (i - 1) - 1
  <2>1. p \in Nat /\ p + 1 = start + i - 1 /\ i - 1 \in 1 .. Len(rows)
    BY <1>1, <1>2
  <2>2. rows[i].player = PlyPlayer(p + 1) /\ rows[i - 1].player = PlyPlayer(p)
    BY <1>1, <2>1
  <2> HIDE DEF p
  <2>3. PlyPlayer(p + 1) = PlyPlayer(p) <=> p % 2 = 1
    BY <2>1, TurnsAre
  <2>4. (p + 1) % 2 = 1 <=> p % 2 # 1
    BY <2>1
  <2> QED
    BY <2>1, <2>2, <2>3, <2>4
<1> QED
  BY <1>1, <1>2 DEF TurnStarts

(* How many of them there are up to a row.                                   *)
LEMMA RankIs ==
    ASSUME NEW rows, NEW start, NEW full, RowsOfGame(rows, start, full), NEW b \in 1 .. Len(rows)
    PROVE  Cardinality({c \in TurnStarts(rows) : c <= b}) = TurnOf(start + b - 1) - TurnOf(start) + 1
<1> DEFINE S == {c \in TurnStarts(rows) : c <= b}
           lo == TurnOf(start)
           hi == TurnOf(start + b - 1)
           f == [t \in lo .. hi |-> IF t = lo THEN 1 ELSE FirstPly(t) - start + 1]
<1>1. start \in Nat /\ Len(rows) \in Nat /\ b \in Nat
  BY DEF RowsOfGame
<1>2. S = {c \in 1 .. b : c = 1 \/ (start + c - 1) % 2 = 1}
  BY <1>1, StartsAre
<1>3. start \in Nat /\ start + b - 1 \in Nat
  BY <1>1
<1>4. lo \in Nat /\ hi \in Nat /\ lo <= hi
  BY <1>3, <1>1 DEF TurnOf
<1>5. ASSUME NEW t \in lo + 1 .. hi
      PROVE  /\ FirstPly(t) - start + 1 \in 2 .. b
             /\ FirstPly(t) \in Nat /\ FirstPly(t) % 2 = 1 /\ TurnOf(FirstPly(t)) = t
  <2>1. t \in Nat /\ t # 0
    BY <1>4
  <2>2. /\ FirstPly(t) \in Nat /\ TurnOf(FirstPly(t)) = t /\ FirstPly(t) % 2 = 1
        /\ \A p \in Nat : TurnOf(p) >= t <=> p >= FirstPly(t)
    BY <2>1, FirstPlyIs
  <2>3. start + b - 1 >= FirstPly(t) /\ ~ start >= FirstPly(t)
    BY <1>3, <1>4, <2>1, <2>2
  <2> QED
    BY <1>1, <2>2, <2>3
<1>6. f \in [lo .. hi -> S]
  <2> SUFFICES ASSUME NEW t \in lo .. hi PROVE f[t] \in S
    OBVIOUS
  <2>1. CASE t = lo
    BY <1>1, <1>2, <2>1
  <2>2. CASE t # lo
    <3>1. t \in lo + 1 .. hi
      BY <1>4, <2>2
    <3> DEFINE x == FirstPly(t)
    <3>2. x - start + 1 \in 2 .. b /\ x \in Nat /\ x % 2 = 1
      BY <1>5, <3>1
    <3>3. f[t] = x - start + 1
      BY <2>2
    <3> HIDE DEF x, f
    <3>4. start + f[t] - 1 = x /\ f[t] \in 1 .. b
      BY <1>1, <3>2, <3>3
    <3> HIDE DEF S
    <3> QED
      BY <1>2, <3>2, <3>4
  <2> QED
    BY <2>1, <2>2
<1>7. \A t, u \in lo .. hi : f[t] = f[u] => t = u
  <2>1. \A t \in lo + 1 .. hi : f[t] # 1 /\ TurnOf(start + f[t] - 1) = t
    <3> TAKE t \in lo + 1 .. hi
    <3>1. f[t] = FirstPly(t) - start + 1
      BY <1>4
    <3>2. FirstPly(t) - start + 1 \in 2 .. b /\ FirstPly(t) \in Nat /\ TurnOf(FirstPly(t)) = t
      BY <1>5
    <3> HIDE DEF f
    <3>3. start + f[t] - 1 = FirstPly(t)
      BY <1>1, <3>1, <3>2
    <3> QED
      BY <1>1, <3>1, <3>2, <3>3
  <2>2. f[lo] = 1
    BY <1>4
  <2> HIDE DEF f, lo, hi
  <2> QED
    BY <1>4, <2>1, <2>2
<1>8. \A c \in S : \E t \in lo .. hi : f[t] = c
  <2> TAKE c \in S
  <2>1. c \in 1 .. b /\ (c = 1 \/ (start + c - 1) % 2 = 1)
    BY <1>2
  <2>2. CASE c = 1
    BY <1>4, <2>2
  <2>3. CASE c # 1
    <3> DEFINE p == start + c - 1
               t == TurnOf(p)
    <3>1. p \in Nat /\ p % 2 = 1 /\ start < p /\ p <= start + b - 1 /\ c = p - start + 1
      BY <1>1, <2>1, <2>3
    <3> HIDE DEF p
    <3>2. t \in lo + 1 .. hi
      BY <1>3, <3>1 DEF TurnOf
    <3>3. p = FirstPly(t)
      <4>1. t \in Nat
        BY <1>4, <3>2
      <4> QED
        BY <3>1, <4>1, FirstPlyIs
    <3>4. t \in lo .. hi /\ t # lo
      BY <1>4, <3>2
    <3> HIDE DEF t, lo, hi
    <3>5. f[t] = c
      BY <3>1, <3>3, <3>4
    <3> QED
      BY <3>4, <3>5
  <2> QED
    BY <2>2, <2>3
<1>9. ExistsBijection(lo .. hi, S)
  <2> HIDE DEF f, S, lo, hi
  <2>1. f \in Bijection(lo .. hi, S)
    BY <1>6, <1>7, <1>8 DEF Bijection, Injection, Surjection, IsInjective
  <2> QED
    BY <2>1 DEF ExistsBijection
<1> HIDE DEF S, lo, hi
<1>10. IsFiniteSet(lo .. hi) /\ Cardinality(lo .. hi) = hi - lo + 1
  <2>1. lo \in Int /\ hi \in Int /\ ~ lo > hi
    BY <1>4
  <2>2. IsFiniteSet(lo .. hi) /\ Cardinality(lo .. hi) = IF lo > hi THEN 0 ELSE hi - lo + 1
    BY <2>1, FS_Interval, Zenon
  <2> QED
    BY <2>1, <2>2
<1>11. Cardinality(S) = hi - lo + 1
  BY <1>9, <1>10, FS_Bijection
<1> QED
  BY <1>11 DEF S, lo, hi

(* The least of a set of positions.                                          *)
LEMMA LeastIs ==
    ASSUME NEW S, NEW x \in S, \A y \in S : x <= y, S \subseteq Int
    PROVE  Min(S) = x
<1> DEFINE m == CHOOSE z \in S : \A y \in S : z <= y
<1>1. m \in S /\ \A y \in S : m <= y
  OBVIOUS
<1>2. Min(S) = m
  BY DEF Min
<1> HIDE DEF m
<1>3. m <= x /\ x <= m /\ m \in Int /\ x \in Int
  BY <1>1
<1>4. m = x
  BY <1>3
<1> QED
  BY <1>2, <1>4

(* The start that compute_ema_lookahead finds is the first ply so many turns *)
(* later, if the game reached it.                                            *)
LEMMA StartAfterIs ==
    ASSUME NEW rows, NEW start, NEW full, RowsOfGame(rows, start, full), NEW i \in 1 .. Len(rows),
           NEW turns \in Nat \ {0}, NEW x, x = FirstPly(TurnOf(start + i - 1) + turns) - start + 1
    PROVE  /\ x \in Nat /\ x > i
           /\ StartAfter(rows, i, turns) = IF x > Len(rows) THEN NotFound ELSE x
<1> DEFINE starts == TurnStarts(rows)
           rank(b) == Cardinality({c \in starts : c <= b})
           turnAt(b) == TurnOf(start + b - 1)
           goal == turnAt(i) + turns
           later == {b \in starts : rank(b) = rank(i) + turns}
<1>1. start \in Nat /\ Len(rows) \in Nat /\ turns \in Nat /\ turns > 0
  BY DEF RowsOfGame
<1>2. starts = {b \in 1 .. Len(rows) : b = 1 \/ (start + b - 1) % 2 = 1}
  BY StartsAre
<1>3. \A b \in 1 .. Len(rows) : start + b - 1 \in Nat /\ turnAt(b) \in Nat
  <2> TAKE b \in 1 .. Len(rows)
  <2>1. start + b - 1 \in Nat
    BY <1>1
  <2> QED
    BY <2>1, TurnsAre
<1>4. \A b \in 1 .. Len(rows) : rank(b) = turnAt(b) - TurnOf(start) + 1
  BY RankIs
<1>5. TurnOf(start) \in Nat
  BY <1>1, TurnsAre
<1>6. goal \in Nat /\ goal # 0 /\ goal > turnAt(i)
  BY <1>1, <1>3
<1>7. /\ FirstPly(goal) \in Nat /\ TurnOf(FirstPly(goal)) = goal /\ FirstPly(goal) % 2 = 1
      /\ \A p \in Nat : TurnOf(p) >= goal <=> p >= FirstPly(goal)
      /\ \A p \in Nat : p % 2 = 1 /\ TurnOf(p) = goal => p = FirstPly(goal)
  <2> HIDE DEF goal
  <2> QED
    BY <1>6, FirstPlyIs
<1>8. x = FirstPly(goal) - start + 1
  OBVIOUS
<1>9. x \in Nat /\ x > i
  <2>1. ~ start + i - 1 >= FirstPly(goal)
    <3>1. ~ turnAt(i) >= goal /\ start + i - 1 \in Nat
      BY <1>3, <1>6
    <3> HIDE DEF goal
    <3> QED
      BY <1>7, <3>1
  <2> HIDE DEF goal
  <2> QED
    BY <1>1, <1>7, <1>8, <2>1
<1>10. ASSUME NEW b \in 1 .. Len(rows) PROVE b \in later <=> b = x
  <2>1. rank(b) = rank(i) + turns <=> turnAt(b) = goal
    <3> DEFINE rb == rank(b)
               ri == rank(i)
               tb == turnAt(b)
               ti == turnAt(i)
               ts == TurnOf(start)
    <3>1. rb = tb - ts + 1 /\ ri = ti - ts + 1 /\ tb \in Nat /\ ti \in Nat /\ ts \in Nat /\ goal = ti + turns
      BY <1>3, <1>4, <1>5
    <3> HIDE DEF rb, ri, tb, ti, ts, goal
    <3>2. rb = ri + turns <=> tb = goal
      BY <1>1, <3>1
    <3> QED
      BY <3>2 DEF rb, ri, tb
  <2>2. b \in later <=> b \in starts /\ turnAt(b) = goal
    <3> HIDE DEF starts, rank, goal
    <3> QED
      BY <2>1
  <2>3. b \in starts <=> b = 1 \/ (start + b - 1) % 2 = 1
    BY <1>2
  <2> DEFINE p == start + b - 1
  <2>4. p \in Nat
    BY <1>3
  <2>5. b = x <=> p = FirstPly(goal)
    <3> HIDE DEF goal
    <3> QED
      BY <1>1, <1>7, <1>8
  <2>6. b = 1 => TurnOf(p) # goal
    <3>1. ASSUME b = 1 PROVE ~ b >= x
      BY <1>9, <3>1
    <3>2. b >= x <=> p >= FirstPly(goal)
      <4> HIDE DEF goal
      <4> QED
        BY <1>1, <1>7, <1>8
    <3> HIDE DEF p, goal
    <3> QED
      BY <1>6, <1>7, <2>4, <3>1, <3>2
  <2> HIDE DEF p, goal, later, starts
  <2>7. turnAt(b) = TurnOf(p)
    BY DEF p
  <2>8. p % 2 = 1 <=> (start + b - 1) % 2 = 1
    BY DEF p
  <2> QED
    BY <1>7, <2>2, <2>3, <2>4, <2>5, <2>6, <2>7, <2>8
<1>11. later \subseteq 1 .. Len(rows)
  BY <1>2
<1>12. StartAfter(rows, i, turns) = IF later = {} THEN NotFound ELSE Min(later)
  <2>1. rank(i) = Cardinality({b \in TurnStarts(rows) : b <= i})
    OBVIOUS
  <2> QED
    BY Zenon DEF StartAfter
<1> HIDE DEF later, goal, starts
<1>13. CASE x > Len(rows)
  <2>1. later = {}
    BY <1>1, <1>9, <1>10, <1>11, <1>13
  <2> QED
    BY <1>9, <1>12, <1>13, <2>1
<1>14. CASE x \in 1 .. Len(rows)
  <2>1. x \in later /\ \A y \in later : y = x
    BY <1>10, <1>11, <1>14
  <2>2. \A y \in later : x <= y
    BY <1>14, <2>1
  <2>3. later \subseteq Int
    BY <1>1, <1>11
  <2>4. Min(later) = x
    BY <2>1, <2>2, <2>3, LeastIs
  <2>5. ~ x > Len(rows)
    BY <1>1, <1>14
  <2> QED
    BY <1>9, <1>12, <2>1, <2>4, <2>5
<1> QED
  BY <1>1, <1>9, <1>13, <1>14

(* Whose turn it is, so many turns later.                                    *)
LEMMA SidesAlternate ==
    ASSUME NEW rows, NEW start, NEW full, RowsOfGame(rows, start, full), NEW i \in 1 .. Len(rows),
           NEW turns \in Nat \ {0}, NEW j \in 1 .. Len(rows),
           j = FirstPly(TurnOf(start + i - 1) + turns) - start + 1
    PROVE  rows[j].player = rows[i].player <=> turns % 2 = 0
<1> DEFINE p == start + i - 1
           q == start + j - 1
           t == TurnOf(p)
<1>1. start \in Nat /\ Len(rows) \in Nat
  BY DEF RowsOfGame
<1>2. p \in Nat /\ q \in Nat
  BY <1>1
<1>3. rows[i].player = PlyPlayer(p) /\ rows[j].player = PlyPlayer(q)
  BY DEF RowsOfGame
<1> HIDE DEF p, q
<1>4. t \in Nat /\ PlyPlayer(p) = t % 2
  BY <1>2, TurnsAre
<1>5. t + turns \in Nat /\ t + turns # 0
  BY <1>4
<1> HIDE DEF t
<1>6. FirstPly(t + turns) \in Nat /\ TurnOf(FirstPly(t + turns)) = t + turns
  BY <1>5, FirstPlyIs
<1>7. q = FirstPly(t + turns)
  <2>1. j = FirstPly(t + turns) - start + 1
    BY DEF t, p
  <2> QED
    BY <1>1, <1>6, <2>1 DEF q
<1>8. PlyPlayer(q) = (t + turns) % 2
  BY <1>2, <1>6, <1>7, TurnsAre
<1>9. turns \in Nat
  OBVIOUS
<1> QED
  BY <1>3, <1>4, <1>8, <1>9

(* The targets of positions name those of the turns they should.             *)
LEMMA LookaheadIs ==
    ASSUME RowsOfGame(tg.rows, tg.start, tg.full)
    PROVE  Lookahead(tg.rows) = ExpectedLookahead
<1> DEFINE rows == tg.rows
           then(i) == RowAt(FirstPly(TurnOf(rows[i].ply) + Horizon))
           coded(f, i) ==
             LET j == StartAfter(rows, i, Horizon)
             IN  IF j = NotFound THEN rows[i].root
                 ELSE ((LambdaDen - LambdaNum) * rows[i].root
                         + LambdaNum * FromSide(f[j], rows[j].player, rows[i].player)) \div LambdaDen
           expected(f, i) ==
             IF then(i) > Len(rows) THEN rows[i].root
             ELSE ((LambdaDen - LambdaNum) * rows[i].root
                     + LambdaNum * (IF Horizon % 2 = 0 THEN f[then(i)] ELSE -f[then(i)])) \div LambdaDen
<1>1. Len(rows) \in Nat /\ DOMAIN rows = 1 .. Len(rows)
  BY DEF RowsOfGame
<1>2. Horizon \in Nat \ {0}
  BY LambdaOK
<1>3. ASSUME NEW f, NEW i \in DOMAIN rows PROVE coded(f, i) = expected(f, i)
  <2> DEFINE x == then(i)
             j == StartAfter(rows, i, Horizon)
  <2>1. x = FirstPly(TurnOf(tg.start + i - 1) + Horizon) - tg.start + 1
    <3>1. rows[i].ply = tg.start + i - 1
      BY <1>1, <1>3 DEF RowsOfGame
    <3> QED
      BY <3>1 DEF RowAt
  <2> HIDE DEF x
  <2>2. x \in Nat /\ x > i /\ j = IF x > Len(rows) THEN NotFound ELSE x
    BY <1>1, <1>2, <1>3, <2>1, StartAfterIs
  <2> HIDE DEF j
  <2>3. CASE x > Len(rows)
    <3>1. coded(f, i) = rows[i].root
      BY <2>2, <2>3 DEF j
    <3>2. expected(f, i) = rows[i].root
      BY <2>3 DEF x
    <3> QED
      BY <3>1, <3>2
  <2>4. CASE ~ x > Len(rows)
    <3>1. x \in 1 .. Len(rows) /\ j = x /\ j # NotFound
      BY <1>1, <1>3, <2>2, <2>4, NotFoundOK
    <3>2. rows[x].player = rows[i].player <=> Horizon % 2 = 0
      BY <1>1, <1>2, <1>3, <2>1, <3>1, SidesAlternate
    <3>3. FromSide(f[x], rows[x].player, rows[i].player) = IF Horizon % 2 = 0 THEN f[x] ELSE -f[x]
      BY <3>2 DEF FromSide
    <3>4. coded(f, i) = ((LambdaDen - LambdaNum) * rows[i].root
                           + LambdaNum * FromSide(f[x], rows[x].player, rows[i].player)) \div LambdaDen
      BY <3>1, Zenon DEF j
    <3>5. expected(f, i) = ((LambdaDen - LambdaNum) * rows[i].root
                     + LambdaNum * (IF Horizon % 2 = 0 THEN f[x] ELSE -f[x])) \div LambdaDen
      BY <2>4, Zenon DEF x
    <3> HIDE DEF coded, expected
    <3> QED
      BY <3>3, <3>4, <3>5, Zenon
  <2> QED
    BY <2>3, <2>4
<1>4. Lookahead(rows) = CHOOSE f : f = [i \in DOMAIN rows |-> coded(f, i)]
  BY Zenon DEF Lookahead
<1>5. ExpectedLookahead = CHOOSE f : f = [i \in DOMAIN rows |-> expected(f, i)]
  BY Zenon DEF ExpectedLookahead
<1> HIDE DEF coded, expected
<1>6. \A f : [i \in DOMAIN rows |-> coded(f, i)] = [i \in DOMAIN rows |-> expected(f, i)]
  BY <1>3
<1>7. (CHOOSE f : f = [i \in DOMAIN rows |-> coded(f, i)])
        = CHOOSE f : f = [i \in DOMAIN rows |-> expected(f, i)]
  BY <1>6, Zenon
<1> QED
  BY <1>4, <1>5, <1>7

(* The opponent's row is the first of the next turn, if there is a search.   *)
LEMMA OpponentRowIs ==
    ASSUME NEW rows, NEW start, NEW full \in BOOLEAN, RowsOfGame(rows, start, full), NEW i \in 1 .. Len(rows),
           NEW x, x = FirstPly(TurnOf(start + i - 1) + 1) - start + 1
    PROVE  OpponentRow(rows, i) = IF full /\ x <= Len(rows) THEN x ELSE NotFound
<1> DEFINE later == {j \in i + 1 .. Len(rows) : /\ rows[j].player # rows[i].player
                                                /\ rows[j - 1].player # rows[j].player
                                                /\ rows[j].full}
<1>1. /\ start \in Nat /\ Len(rows) \in Nat
      /\ \A j \in 1 .. Len(rows) : rows[j].player = PlyPlayer(start + j - 1) /\ rows[j].full = full
  BY DEF RowsOfGame
<1> DEFINE one == 1
<1>2. one \in Nat \ {0} /\ one % 2 = 1
  OBVIOUS
<1>3. x = FirstPly(TurnOf(start + i - 1) + one) - start + 1
  OBVIOUS
<1> HIDE DEF one
<1>4. x \in Nat /\ x > i
  BY <1>2, <1>3, StartAfterIs
<1>5. ASSUME NEW j \in later PROVE j \in 1 .. Len(rows) /\ full /\ x <= j
  <2>1. j \in i + 1 .. Len(rows) /\ j \in 1 .. Len(rows) /\ rows[j].player # rows[i].player /\ rows[j].full
    BY <1>1
  <2> DEFINE p == start + i - 1
             q == start + j - 1
             t == TurnOf(p)
  <2>2. p \in Nat /\ q \in Nat /\ p < q
    BY <1>1, <2>1
  <2>3. PlyPlayer(q) # PlyPlayer(p)
    BY <1>1, <2>1
  <2> HIDE DEF p, q
  <2>4. TurnOf(q) >= t + 1 /\ t + 1 \in Nat
    BY <2>2, <2>3 DEF TurnOf, PlyPlayer
  <2> HIDE DEF t
  <2>5. FirstPly(t + 1) \in Nat /\ q >= FirstPly(t + 1)
    BY <2>2, <2>4, FirstPlyIs
  <2>6. x = FirstPly(t + 1) - start + 1
    BY DEF t, p
  <2>7. q = start + j - 1
    BY DEF q
  <2> QED
    BY <1>1, <2>1, <2>5, <2>6, <2>7
<1>6. ASSUME full, x <= Len(rows) PROVE x \in later
  <2>1. x \in 1 .. Len(rows) /\ x \in i + 1 .. Len(rows) /\ x - 1 \in 1 .. Len(rows)
    BY <1>1, <1>4, <1>6
  <2>2. rows[x].player # rows[i].player
    <3>1. one \in Nat \ {0} /\ x \in 1 .. Len(rows)
      BY <1>2, <2>1
    <3>2. rows[x].player = rows[i].player <=> one % 2 = 0
      <4>1. i \in 1 .. Len(rows) /\ RowsOfGame(rows, start, full)
        OBVIOUS
      <4> QED
        BY ONLY <1>3, <3>1, <4>1, SidesAlternate
    <3> QED
      BY <1>2, <3>2
  <2>3. x \in TurnStarts(rows) /\ x # 1
    <3> DEFINE g == TurnOf(start + i - 1) + 1
    <3>1. start + i - 1 \in Nat
      BY <1>1
    <3>2. g \in Nat /\ g # 0
      <4>1. TurnOf(start + i - 1) \in Nat
        BY <3>1, TurnsAre
      <4> QED
        BY <4>1
    <3>3. x = FirstPly(g) - start + 1
      OBVIOUS
    <3> HIDE DEF g
    <3>4. FirstPly(g) \in Nat /\ FirstPly(g) % 2 = 1
      BY <3>2, FirstPlyIs
    <3>5. start + x - 1 = FirstPly(g)
      BY <1>1, <3>3, <3>4
    <3>6. x \in {k \in 1 .. Len(rows) : k = 1 \/ (start + k - 1) % 2 = 1}
      BY <2>1, <3>4, <3>5
    <3> QED
      BY <1>4, <3>6, StartsAre
  <2>4. rows[x].player # rows[x - 1].player
    BY <2>3 DEF TurnStarts
  <2>5. rows[x].full
    BY <1>1, <1>6, <2>1
  <2> QED
    BY <2>1, <2>2, <2>4, <2>5
<1>7. OpponentRow(rows, i) = IF later = {} THEN NotFound ELSE Min(later)
  BY Zenon DEF OpponentRow
<1> HIDE DEF later
<1>8. CASE full /\ x <= Len(rows)
  <2>1. x \in later /\ \A y \in later : x <= y
    BY <1>5, <1>6, <1>8
  <2>2. later \subseteq Int
    BY <1>1, <1>5
  <2>3. Min(later) = x
    BY <2>1, <2>2, LeastIs
  <2> QED
    BY <1>7, <1>8, <2>1, <2>3
<1>9. CASE ~ (full /\ x <= Len(rows))
  <2>1. later = {}
    BY <1>1, <1>4, <1>5, <1>9
  <2> QED
    BY <1>7, <1>9, <2>1
<1> QED
  BY <1>8, <1>9

(* Where pairs come from depends on the placements that were left.           *)
LEMMA PairSourceIs ==
    ASSUME NEW rows, NEW start, NEW full, RowsOfGame(rows, start, full), NEW i \in 1 .. Len(rows)
    PROVE  /\ PairSource(rows, i) = "known_first" => PlacementsLeft(start + i - 1) = 1 /\ start + i - 1 > 0
           /\ PairSource(rows, i) = "joint" => PlacementsLeft(start + i - 1) = 2
<1> DEFINE p == start + i - 1
<1>1. /\ start \in Nat /\ Len(rows) \in Nat /\ p \in Nat
      /\ PlacementsLeft(p) = 1 => rows[i].searched = "none"
  BY DEF RowsOfGame
<1>2. PlacementsLeft(p) \in {1, 2}
  BY DEF PlacementsLeft
<1>3. PairSource(rows, i) = "joint" => rows[i].searched # "none"
  BY DEF PairSource
<1>4. ASSUME PairSource(rows, i) = "known_first" PROVE PlacementsLeft(p) = 1 /\ p > 0
  <2>1. i > 1 /\ rows[i - 1].player = rows[i].player
    BY <1>4 DEF PairSource
  <2>2. i - 1 \in 1 .. Len(rows) /\ p - 1 \in Nat /\ p = (p - 1) + 1 /\ start + (i - 1) - 1 = p - 1
    BY <1>1, <2>1
  <2>3. rows[i].player = PlyPlayer(p) /\ rows[i - 1].player = PlyPlayer(p - 1)
    BY <2>2 DEF RowsOfGame
  <2> HIDE DEF p
  <2>4. (p - 1) % 2 = 1
    BY <2>1, <2>2, <2>3, TurnsAre
  <2>5. p % 2 # 1 /\ p > 0
    BY <1>1, <2>2, <2>4
  <2> QED
    BY <2>5 DEF PlacementsLeft
<1> QED
  BY <1>1, <1>2, <1>3, <1>4

(* The game: its rows are those of the plies it went through, and what its   *)
(* positions learn, if it was processed, is what process_game_record says.   *)
GameFields == {"start", "cap", "full", "rows", "phase", "outcome", "truncated", "targets"}

PositionFields ==
    \/ tg.targets = << >>
    \/ /\ tg.phase # "playing" /\ DOMAIN tg.targets = DOMAIN tg.rows
       /\ \A i \in DOMAIN tg.rows :
             /\ tg.targets[i].lookahead = Lookahead(tg.rows)[i]
             /\ tg.targets[i].opponent = OpponentRow(tg.rows, i)
             /\ tg.targets[i].pair = PairSource(tg.rows, i)

TargetsInv ==
    /\ DOMAIN tg = GameFields /\ tg.full \in BOOLEAN
    /\ RowsOfGame(tg.rows, tg.start, tg.full)
    /\ PositionFields

(* Every step keeps the rows those of the game.                              *)
LEMMA NewGameFits ==
    ASSUME NEW c \in GameSpans, NEW full \in BOOLEAN, tg = NewGame(c[1], c[2], full) PROVE TargetsInv
<1>1. c[1] \in Nat
  BY GameSpansOK
<1>2. DOMAIN tg = GameFields /\ tg.rows = << >> /\ tg.start = c[1] /\ tg.full = full /\ tg.targets = << >>
  BY DEF NewGame, GameFields
<1>3. << >> \in Seq(Rows) /\ Len(<< >>) = 0
  OBVIOUS
<1> QED
  BY <1>1, <1>2, <1>3 DEF TargetsInv, RowsOfGame, PositionFields

LEMMA NewGameKeeps ==
    ASSUME NEW c \in GameSpans, NEW full \in BOOLEAN, tg' = NewGame(c[1], c[2], full) PROVE TargetsInv'
<1>1. c[1] \in Nat
  BY GameSpansOK
<1>2. DOMAIN tg' = GameFields /\ tg'.rows = << >> /\ tg'.start = c[1] /\ tg'.full = full /\ tg'.targets = << >>
  BY DEF NewGame, GameFields
<1>3. << >> \in Seq(Rows) /\ Len(<< >>) = 0
  OBVIOUS
<1> QED
  BY <1>1, <1>2, <1>3 DEF TargetsInv, RowsOfGame, PositionFields

(* One more row is the one of the next ply.                                  *)
LEMMA RowJoins ==
    ASSUME NEW rows, NEW start, NEW full, RowsOfGame(rows, start, full), NEW row \in Rows,
           row.ply = start + Len(rows), row.player = PlyPlayer(row.ply), row.full = full,
           PlacementsLeft(row.ply) = 1 => row.searched = "none"
    PROVE  RowsOfGame(Append(rows, row), start, full)
<1>1. rows \in Seq(Rows) /\ start \in Nat /\ Len(rows) \in Nat
  BY DEF RowsOfGame
<1>2. PICK a : a = Append(rows, row)
  OBVIOUS
<1>3. /\ a \in Seq(Rows) /\ Len(a) = Len(rows) + 1
      /\ \A k \in 1 .. Len(rows) : a[k] = rows[k]
      /\ a[Len(rows) + 1] = row
  BY <1>1, <1>2, AppendProperties
<1>4. ASSUME NEW i \in 1 .. Len(a)
      PROVE  /\ a[i].ply = start + i - 1 /\ a[i].player = PlyPlayer(start + i - 1)
             /\ a[i].full = full
             /\ PlacementsLeft(start + i - 1) = 1 => a[i].searched = "none"
  <2>1. CASE i \in 1 .. Len(rows)
    BY <1>3, <2>1 DEF RowsOfGame
  <2>2. CASE i = Len(rows) + 1
    <3>1. start + i - 1 = row.ply /\ a[i] = row
      BY <1>1, <1>3, <2>2
    <3> QED
      BY <3>1
  <2> QED
    BY <1>1, <1>3, <2>1, <2>2
<1>5. RowsOfGame(a, start, full)
  BY <1>1, <1>3, <1>4 DEF RowsOfGame
<1> QED
  BY <1>2, <1>5

LEMMA RecordKeeps == TargetsInv /\ Record => TargetsInv'
<1> SUFFICES ASSUME TargetsInv, Record PROVE TargetsInv'
  OBVIOUS
<1> DEFINE ply == tg.start + Len(tg.rows)
           player == PlyPlayer(ply)
<1>1. /\ DOMAIN tg = GameFields /\ tg.full \in BOOLEAN /\ tg.phase = "playing"
      /\ RowsOfGame(tg.rows, tg.start, tg.full) /\ tg.targets = << >>
  BY DEF TargetsInv, PositionFields, Record
<1>2. PICK root \in RootValues, known, win \in BOOLEAN, searched \in {"none", "some", "all"} :
          /\ win => ply >= EarliestWin
          /\ PlacementsLeft(ply) = 1 => searched = "none"
          /\ tg' = [tg EXCEPT
               !.rows = Append(@, [ply |-> ply, player |-> player, root |-> root, full |-> tg.full,
                                   chosen |-> IF known THEN FromSide(1, 0, player) ELSE NotFound,
                                   searched |-> searched,
                                   complete |-> searched = "all" \/ PlacementsLeft(ply) = 1]),
               !.phase = IF win THEN "over" ELSE @,
               !.outcome = IF win THEN FromSide(1, 0, player) ELSE @]
  BY Zenon DEF Record
<1> DEFINE row == [ply |-> ply, player |-> player, root |-> root, full |-> tg.full,
                   chosen |-> IF known THEN FromSide(1, 0, player) ELSE NotFound,
                   searched |-> searched,
                   complete |-> searched = "all" \/ PlacementsLeft(ply) = 1]
<1>3. ply \in Nat /\ player \in {0, 1}
  <2>1. ply \in Nat
    BY <1>1 DEF RowsOfGame
  <2> HIDE DEF ply
  <2> QED
    BY <2>1 DEF PlyPlayer
<1>4. /\ row.ply = ply /\ row.player = PlyPlayer(row.ply) /\ row.full = tg.full
      /\ PlacementsLeft(row.ply) = 1 => row.searched = "none"
  <2> HIDE DEF ply
  <2> QED
    BY <1>2
<1>5. row \in Rows
  <2>1. FromSide(1, 0, player) \in {1, -1}
    BY DEF FromSide
  <2> HIDE DEF ply, player
  <2>2. (IF known THEN FromSide(1, 0, player) ELSE NotFound) \in {1, -1, NotFound}
    BY <2>1
  <2>3. (searched = "all" \/ PlacementsLeft(ply) = 1) \in BOOLEAN
    OBVIOUS
  <2> QED
    BY <1>1, <1>3, <2>2, <2>3, Zenon DEF Rows
<1>6. /\ DOMAIN tg' = GameFields /\ tg'.full = tg.full /\ tg'.start = tg.start
      /\ tg'.targets = tg.targets /\ tg'.rows = Append(tg.rows, row)
  <2> HIDE DEF row
  <2> QED
    BY <1>1, <1>2 DEF GameFields, row
<1> HIDE DEF row
<1>7. RowsOfGame(Append(tg.rows, row), tg.start, tg.full)
  BY <1>1, <1>4, <1>5, RowJoins
<1> QED
  BY <1>1, <1>6, <1>7 DEF TargetsInv, PositionFields

LEMMA LeaveGameKeeps == TargetsInv /\ LeaveGame => TargetsInv'
<1> SUFFICES ASSUME TargetsInv, LeaveGame PROVE TargetsInv'
  OBVIOUS
<1>1. DOMAIN tg = GameFields /\ tg.full \in BOOLEAN /\ RowsOfGame(tg.rows, tg.start, tg.full) /\ tg.targets = << >>
  BY DEF TargetsInv, PositionFields, LeaveGame
<1>2. DOMAIN tg' = GameFields /\ tg'.full = tg.full /\ tg'.start = tg.start /\ tg'.rows = tg.rows /\ tg'.targets = tg.targets
  BY <1>1 DEF LeaveGame, GameFields
<1> QED
  BY <1>1, <1>2 DEF TargetsInv, PositionFields

LEMMA ProcessKeeps == TargetsInv /\ Process => TargetsInv'
<1> SUFFICES ASSUME TargetsInv, Process PROVE TargetsInv'
  OBVIOUS
<1>1. DOMAIN tg = GameFields /\ tg.full \in BOOLEAN /\ RowsOfGame(tg.rows, tg.start, tg.full)
  BY DEF TargetsInv
<1> DEFINE learned == [i \in DOMAIN tg.rows |-> TargetsOf(tg, i)]
<1>2. tg' = [tg EXCEPT !.phase = "processed", !.targets = learned]
  BY DEF Process
<1>3. \A i \in DOMAIN tg.rows : /\ learned[i].lookahead = Lookahead(tg.rows)[i]
                                /\ learned[i].opponent = OpponentRow(tg.rows, i)
                                /\ learned[i].pair = PairSource(tg.rows, i)
  BY DEF TargetsOf
<1>4. DOMAIN learned = DOMAIN tg.rows
  OBVIOUS
<1> HIDE DEF learned
<1>5. /\ DOMAIN tg' = GameFields /\ tg'.full = tg.full /\ tg'.start = tg.start /\ tg'.rows = tg.rows
      /\ tg'.targets = learned /\ tg'.phase = "processed"
  BY <1>1, <1>2 DEF GameFields
<1>6. PositionFields'
  BY <1>3, <1>4, <1>5, Zenon DEF PositionFields
<1> QED
  BY <1>1, <1>5, <1>6 DEF TargetsInv

LEMMA TargetsSteps == TargetsInv /\ [TargetsNext]_tg => TargetsInv'
<1> SUFFICES ASSUME TargetsInv, [TargetsNext]_tg PROVE TargetsInv'
  OBVIOUS
<1>1. CASE Record
  BY <1>1, RecordKeeps
<1>2. CASE LeaveGame
  BY <1>2, LeaveGameKeeps
<1>3. CASE Process
  BY <1>3, ProcessKeeps
<1>4. CASE AnotherGame
  BY <1>4, NewGameKeeps, Zenon DEF AnotherGame
<1>5. CASE UNCHANGED tg
  BY <1>5, Zenon DEF TargetsInv, PositionFields
<1> QED
  BY <1>1, <1>2, <1>3, <1>4, <1>5 DEF TargetsNext

(* What is known of the rows and of what was learned is the property.        *)
LEMMA TargetsFollow == TargetsInv => TargetsOfTheGame
<1> SUFFICES ASSUME TargetsInv PROVE TargetsOfTheGame
  OBVIOUS
<1>1. CASE tg.targets = << >>
  <2>1. DOMAIN tg.targets = {}
    BY <1>1
  <2> QED
    BY <2>1 DEF TargetsOfTheGame, LookaheadExact, TurnsAreKept
<1>2. CASE tg.targets # << >>
  <2>1. /\ tg.full \in BOOLEAN /\ RowsOfGame(tg.rows, tg.start, tg.full)
        /\ DOMAIN tg.targets = DOMAIN tg.rows
        /\ \A i \in DOMAIN tg.rows :
             /\ tg.targets[i].lookahead = Lookahead(tg.rows)[i]
             /\ tg.targets[i].opponent = OpponentRow(tg.rows, i)
             /\ tg.targets[i].pair = PairSource(tg.rows, i)
    BY <1>2 DEF TargetsInv, PositionFields
  <2>2. DOMAIN tg.rows = 1 .. Len(tg.rows)
    BY <2>1 DEF RowsOfGame
  <2>3. LookaheadExact
    BY <2>1, LookaheadIs, Zenon DEF LookaheadExact
  <2>4. ASSUME NEW i \in DOMAIN tg.targets
        PROVE  LET ply == tg.rows[i].ply
                   next == RowAt(FirstPly(TurnOf(ply) + 1))
               IN  /\ tg.targets[i].opponent = IF tg.full /\ next <= Len(tg.rows) THEN next ELSE NotFound
                   /\ tg.targets[i].pair = "known_first" => PlacementsLeft(ply) = 1 /\ ply > 0
                   /\ tg.targets[i].pair = "joint" => PlacementsLeft(ply) = 2
    <3> DEFINE p == tg.start + i - 1
               next == FirstPly(TurnOf(p) + 1) - tg.start + 1
    <3>1. i \in 1 .. Len(tg.rows)
      BY <2>1, <2>2
    <3>2. tg.rows[i].ply = p
      BY <2>1, <3>1 DEF RowsOfGame
    <3>3. /\ tg.targets[i].opponent = OpponentRow(tg.rows, i)
          /\ tg.targets[i].pair = PairSource(tg.rows, i)
      BY <2>1
    <3>4. OpponentRow(tg.rows, i) = IF tg.full /\ next <= Len(tg.rows) THEN next ELSE NotFound
      <4>1. next = FirstPly(TurnOf(tg.start + i - 1) + 1) - tg.start + 1
        OBVIOUS
      <4>2. tg.full \in BOOLEAN /\ RowsOfGame(tg.rows, tg.start, tg.full)
        BY <2>1
      <4> HIDE DEF next
      <4> QED
        BY ONLY <3>1, <4>1, <4>2, OpponentRowIs
    <3>5. /\ PairSource(tg.rows, i) = "known_first" => PlacementsLeft(p) = 1 /\ p > 0
          /\ PairSource(tg.rows, i) = "joint" => PlacementsLeft(p) = 2
      <4>1. RowsOfGame(tg.rows, tg.start, tg.full)
        BY <2>1
      <4> QED
        BY ONLY <3>1, <4>1, PairSourceIs DEF p
    <3>6. RowAt(FirstPly(TurnOf(p) + 1)) = next
      BY Zenon DEF RowAt
    <3> HIDE DEF p, next
    <3> QED
      BY <3>2, <3>3, <3>4, <3>5, <3>6
  <2>5. TurnsAreKept
    BY <2>4, Zenon DEF TurnsAreKept
  <2> QED
    BY <2>3, <2>5 DEF TargetsOfTheGame
<1> QED
  BY <1>1, <1>2

(* What the positions of a finished game learn is what the turns of the game *)
(* say: the lookahead mixes values of turns Horizon later, the opponent's    *)
(* policy is the one of the next turn and pairs are those the turn still had *)
(* (process_game_record), wherever the record begins and ends.               *)
THEOREM TargetsOfTheGameHolds == TargetsSpec => []TargetsOfTheGame
<1>1. TargetsInit => TargetsInv
  BY NewGameFits, Zenon DEF TargetsInit
<1> QED
  BY <1>1, TargetsSteps, TargetsFollow, PTL DEF TargetsSpec
=============================================================================
