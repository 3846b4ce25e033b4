----------------------------- MODULE Telemetry -----------------------------
(***************************************************************************)
(* What a run writes down: the store of dashboard/db.py, which every       *)
(* process and every page opens and migrates for itself, and the calls of  *)
(* the recorder (dashboard/recorder.py), each a line of events.jsonl and   *)
(* some transactions of the store.                                         *)
(*                                                                         *)
(* Abstractions.  A call is known by who made it, its kind and its number; *)
(* what it writes under a table is that.  A transaction is a set of        *)
(* tables, and the line counts as one.  upsert_run, a transaction of its   *)
(* own before each of the others, has no state here: the row of the run    *)
(* exists from the first call on.  The lines of two threads are written    *)
(* one after the other.                                                    *)
(***************************************************************************)
EXTENDS Naturals, Sequences, FiniteSets

CONSTANTS
    Recorders,   \* threads and processes that open the store
    Tables,      \* REQUIRED_V1_TABLES
    CallLimit,   \* calls each of them makes
    Losses       \* bound on database errors and processes that die

ASSUME TelemetryOK == Recorders # {} /\ Tables # {} /\ CallLimit \in Nat /\ Losses \in Nat

VARIABLE tele

(* What a recorder is at; todo are the transactions its call has left.       *)
At(stage, call, todo) == [stage |-> stage, call |-> call, todo |-> todo]
NoCall == <<>>
ClosedStore == At("closed", NoCall, <<>>)

(* A store of nobody yet, or one whose version 1 had fewer tables.           *)
StoreOf(tables, marks) ==
    [tables |-> tables, marks |-> marks, written |-> {}, at |-> [p \in Recorders |-> ClosedStore],
     calls |-> [p \in Recorders |-> 0], losses |-> 0, refused |-> {}]

TelemetryInit ==
    tele \in {StoreOf({}, 0)} \cup {StoreOf(old, 1) : old \in SUBSET Tables}

MoveTo(p, where) == [tele EXCEPT !.at[p] = where]
Stage(p) == tele.at[p].stage

-----------------------------------------------------------------------------
(* Opening the store: DashboardStore.migrate.                                *)

(* It reads the applied versions, and the tables there are.                  *)
ReadVersions(p) ==
    /\ Stage(p) = "closed"
    /\ tele' = MoveTo(p, At(CASE tele.marks = 0 -> "apply"
                              [] tele.marks > 0 /\ ~(Tables \subseteq tele.tables) -> "repair"
                              [] OTHER -> "open", NoCall, <<>>))

(* CREATE TABLE IF NOT EXISTS; each statement of the script commits alone.   *)
CreateTable(p) ==
    /\ Stage(p) \in {"apply", "repair"}
    /\ \E t \in Tables \ tele.tables : tele' = [tele EXCEPT !.tables = @ \cup {t}]

(* The version is a primary key: of two processes that both saw none, the    *)
(* second raises out of the constructor.                                     *)
MarkVersion(p) ==
    /\ Stage(p) = "apply" /\ Tables \subseteq tele.tables
    /\ tele' = IF tele.marks > 0 THEN MoveTo(p, At("raised", NoCall, <<>>))
               ELSE [MoveTo(p, At("open", NoCall, <<>>)) EXCEPT !.marks = 1]

Repaired(p) ==
    /\ Stage(p) = "repair" /\ Tables \subseteq tele.tables
    /\ tele' = MoveTo(p, At("open", NoCall, <<>>))

-----------------------------------------------------------------------------
(* The calls of RunRecorder, as the transactions they are made of.           *)

RecordEvent == {"events"}
RecordMetric == {"metrics"}
UpsertCheckpoint == {"checkpoints"}

(* Mutant: the positions go in one by one, after the game.                   *)
GameThenPositions == <<{"games"}, {"positions"}>>

(* One transaction for a game and its positions. *)
GameWithPositions == <<{"games", "positions"}>>

EventSteps == <<{"jsonl"}, RecordEvent>>
MetricSteps == <<{"jsonl"}, RecordMetric>>
CheckpointSteps == <<UpsertCheckpoint>> \o EventSteps
GameSteps == GameWithPositions \o EventSteps

Steps == [event |-> EventSteps, metric |-> MetricSteps, checkpoint |-> CheckpointSteps, game |-> GameSteps]

Call(p, kind) ==
    /\ Stage(p) = "open" /\ tele.at[p].todo = <<>>
    /\ tele.calls[p] < CallLimit
    /\ tele' = [MoveTo(p, At("open", [by |-> p, kind |-> kind, no |-> tele.calls[p]], Steps[kind]))
                  EXCEPT !.calls[p] = @ + 1]

Commit(p) ==
    LET here == tele.at[p]
    IN  /\ here.todo # <<>>
        /\ tele' = [MoveTo(p, [here EXCEPT !.todo = Tail(@)])
                      EXCEPT !.written = @ \cup {<<table, here.call>> : table \in Head(here.todo)}]

(* A database error. The checkpoint is then recorded with the error instead  *)
(* of an id; everything else ends the call.                                  *)
Fails(p) ==
    LET here == tele.at[p]
        survives == Head(here.todo) = UpsertCheckpoint
    IN  /\ here.todo # <<>>
        /\ tele.losses < Losses
        /\ tele' = [MoveTo(p, [here EXCEPT !.todo = IF survives THEN Tail(@) ELSE <<>>])
                      EXCEPT !.losses = @ + 1,
                             !.refused = IF survives THEN @ \cup {here.call} ELSE @]

(* The process ends, also in the middle of the migration; the next one opens *)
(* the store anew.                                                           *)
Dies(p) ==
    /\ Stage(p) # "closed"
    /\ tele.losses < Losses
    /\ tele' = [MoveTo(p, ClosedStore) EXCEPT !.losses = @ + 1]

TelemetryNext ==
    \E p \in Recorders :
       \/ ReadVersions(p) \/ CreateTable(p) \/ MarkVersion(p) \/ Repaired(p)
       \/ \E kind \in DOMAIN Steps : Call(p, kind)
       \/ Commit(p) \/ Fails(p) \/ Dies(p)

TelemetrySpec == TelemetryInit /\ [][TelemetryNext]_tele

-----------------------------------------------------------------------------
(* Whatever dies or fails in between, and however two processes open the     *)
(* store at the same time: a page finds every table, a game with all of its  *)
(* positions, a line for every event and metric, and the game or checkpoint  *)
(* an event speaks of, unless it says that there is none.                    *)
StoreIsWhole ==
    /\ \A p \in Recorders : Stage(p) = "open" => tele.marks = 1 /\ Tables \subseteq tele.tables
    /\ \A x \in tele.written :
          /\ x[1] \in {"games", "positions"} => {<<"games", x[2]>>, <<"positions", x[2]>>} \subseteq tele.written
          /\ x[1] \in {"events", "metrics"} => <<"jsonl", x[2]>> \in tele.written
          /\ x[1] = "jsonl" /\ x[2].kind = "game" => <<"games", x[2]>> \in tele.written
          /\ x[1] = "jsonl" /\ x[2].kind = "checkpoint" =>
                <<"checkpoints", x[2]>> \in tele.written \/ x[2] \in tele.refused
=============================================================================
