------------------------------ MODULE PlayRoom ------------------------------
(***************************************************************************)
(* What the dashboard lets visitors do (hexorl/dashboard): play a game in  *)
(* a session of the store (play.py), watch a match of two players          *)
(* (arena_service.py), and keep models loaded (model_cache.py). FastAPI    *)
(* runs the handlers of app.py in a pool of threads, the sockets in one    *)
(* event loop, and a match in a thread of its own.                         *)
(*                                                                         *)
(* Abstractions.  One session, one match and one spectator.  A history is  *)
(* the sequence of its cells, since the player of a move follows from its  *)
(* place.  A transaction is one step.  A request that is refused changes   *)
(* nothing.  What is drawn from a position is left out.                    *)
(***************************************************************************)
EXTENDS Naturals, Sequences, FiniteSets, SequencesExt

CONSTANTS
    PlayCells,     \* cells of the board; the first stone goes to FirstPlayCell
    FirstPlayCell,
    WonGames,      \* histories whose last move wins
    Visitors,      \* requests at a time
    MatchMoves,    \* max_moves
    ModelRoom,     \* max_models
    ModelLoads     \* bound on the models loaded

ASSUME RoomOK ==
    /\ FirstPlayCell \in PlayCells
    /\ <<>> \notin WonGames
    /\ MatchMoves \in Nat /\ ModelLoads \in Nat
    /\ ModelRoom \in Nat \ {0}

VARIABLES
    session,  \* the row of play_sessions, and what each visitor will write
    match,    \* the events of a match, its row, its thread, and a spectator
    models    \* the models, the order of their eviction, and each request

-----------------------------------------------------------------------------
(* The game.                                                                 *)

WonBy(history) == history \in WonGames

CellsFor(history) ==
    IF WonBy(history) THEN {} ELSE IF history = <<>> THEN {FirstPlayCell} ELSE PlayCells \ ToSet(history)

IsGame(history) ==
    \A n \in DOMAIN history : history[n] \in CellsFor(SubSeq(history, 1, n - 1))

-----------------------------------------------------------------------------
(* A session. A request reads the row in one transaction and writes it in    *)
(* another; what is written was worked out from what was read.               *)

NoRow == [moves |-> <<>>, status |-> "none"]

(* Mutant: the status is that of the position the move is played in.         *)
RowBeforeMove(history, cell) ==
    [moves |-> Append(history, cell), status |-> IF WonBy(history) THEN "complete" ELSE "active"]

RowAfterMove(history, cell) ==
    LET next == Append(history, cell)
    IN  [moves |-> next, status |-> IF WonBy(next) THEN "complete" ELSE "active"]

SessionInit == session = [row |-> NoRow, asks |-> [v \in Visitors |-> NoRow]]

Free(v) == session.asks[v] = NoRow

CreateSession ==
    /\ session.row = NoRow
    /\ session' = [session EXCEPT !.row = [moves |-> <<>>, status |-> "active"]]

ReadForMove(v) ==
    /\ Free(v) /\ session.row # NoRow
    /\ \E cell \in CellsFor(session.row.moves) :
          session' = [session EXCEPT !.asks[v] = RowAfterMove(session.row.moves, cell)]

ReadForUndo(v) ==
    LET moves == session.row.moves
    IN  /\ Free(v) /\ session.row # NoRow
        /\ session' = [session EXCEPT !.asks[v] =
                         [moves |-> IF moves = <<>> THEN moves ELSE Front(moves), status |-> "active"]]

UpdateSession(v) ==
    /\ ~Free(v)
    /\ session' = [session EXCEPT !.row = session.asks[v], !.asks[v] = NoRow]

ResetSession ==
    /\ session.row # NoRow
    /\ session' = [session EXCEPT !.row = [moves |-> <<>>, status |-> "active"]]

SessionNext ==
    \/ CreateSession \/ ResetSession
    \/ \E v \in Visitors : ReadForMove(v) \/ ReadForUndo(v) \/ UpdateSession(v)

-----------------------------------------------------------------------------
(* A match. Its events go into a list that the sockets read; the result also *)
(* goes into its row.                                                        *)

MoveEvent(cell) == [type |-> "move", about |-> cell]
Result(winner) == [type |-> "match_result", about |-> winner]
MatchError == [type |-> "match_error", about |-> "error"]
Undecided == Result("nobody")

MatchInit ==
    match = [thread |-> "none", moves |-> <<>>, events |-> <<>>,
             verdict |-> Undecided, status |-> "none", result |-> Undecided,
             sent |-> 0, batch |-> <<>>, got |-> <<>>]

StartMatch ==
    /\ match.thread = "none"
    /\ match' = [match EXCEPT !.thread = "playing", !.status = "running",
                              !.events = <<[type |-> "match_start", about |-> "sides"]>>]

Emit(event) == [match EXCEPT !.events = Append(@, event)]

(* The thread has announced how the match ended and will write it.           *)
Announce(event) == [Emit(event) EXCEPT !.verdict = event, !.thread = "finishing"]

MatchOver == WonBy(match.moves) \/ Len(match.moves) >= MatchMoves

MatchMove(cell) ==
    /\ match.thread = "playing" /\ ~MatchOver
    /\ match' = [Emit(MoveEvent(cell)) EXCEPT !.moves = Append(@, cell)]

(* No move, or one that place refuses: the other player has won.             *)
Forfeit ==
    /\ match.thread = "playing" /\ ~MatchOver
    /\ match' = Announce(Result("other"))

MatchEnds ==
    /\ match.thread = "playing" /\ MatchOver
    /\ match' = Announce(Result(IF WonBy(match.moves) THEN "winner" ELSE "nobody"))

(* A player raises. *)
MatchRaises ==
    /\ match.thread = "playing"
    /\ match' = Announce(MatchError)

FinishMatch ==
    /\ match.thread = "finishing"
    /\ match' = [match EXCEPT !.thread = "gone", !.result = match.verdict,
                              !.status = IF match.verdict = MatchError THEN "failed" ELSE "complete"]

(* The row cannot be written: the match then ends with an error as well, and *)
(* if that cannot be written either, the row says "running" for ever.        *)
FinishRaises ==
    /\ match.thread = "finishing"
    /\ match' = IF match.verdict = MatchError THEN [match EXCEPT !.thread = "gone"] ELSE Announce(MatchError)

(* arena_ws sends what was in the list when its round began, and after that  *)
(* takes everything that is in the list by then for sent.                    *)
BeginRound ==
    /\ match.batch = <<>> /\ match.sent < Len(match.events)
    /\ match' = [match EXCEPT !.batch = [i \in 1 .. Len(match.events) - match.sent |-> match.sent + i]]

SendEvent ==
    /\ match.batch # <<>>
    /\ match' = [match EXCEPT !.got = Append(@, Head(match.batch)), !.batch = Tail(@),
                              !.sent = IF Len(match.batch) = 1 THEN Len(match.events) ELSE @]

MatchNext ==
    \/ StartMatch \/ Forfeit \/ MatchEnds \/ MatchRaises \/ FinishMatch \/ FinishRaises
    \/ \E cell \in CellsFor(match.moves) : MatchMove(cell)
    \/ BeginRound \/ SendEvent

-----------------------------------------------------------------------------
(* The model cache. A handler may be interrupted between any two statements. *)

AtRest == [at |-> "rest", id |-> 0, seen |-> <<>>]

ModelsInit ==
    models = [loaded |-> {}, order |-> <<>>, made |-> 0, lost |-> {},
              by |-> [v \in Visitors |-> AtRest]]

Continue(v, at, id, seen) == [models EXCEPT !.by[v] = [at |-> at, id |-> id, seen |-> seen]]
Doing(v, at) == models.by[v].at = at
Its(v) == models.by[v].id

LoadModel(v) ==
    /\ Doing(v, "rest") /\ models.made < ModelLoads
    /\ models' = [Continue(v, "append", models.made + 1, <<>>)
                    EXCEPT !.loaded = @ \cup {models.made + 1}, !.made = @ + 1]

AppendModel(v) ==
    /\ Doing(v, "append")
    /\ models' = [Continue(v, "evict", 0, <<>>) EXCEPT !.order = Append(@, Its(v))]

(* The condition of the loop, and the two pops of its body. *)
CacheIsFull(v) ==
    /\ Doing(v, "evict")
    /\ models' = IF Len(models.order) > ModelRoom THEN Continue(v, "pop", 0, <<>>)
                 ELSE [models EXCEPT !.by[v] = AtRest]

(* pop(0) of an empty list raises. *)
PopOldest(v) ==
    /\ Doing(v, "pop")
    /\ models' = IF models.order = <<>> THEN [models EXCEPT !.by[v] = AtRest]
                 ELSE [Continue(v, "drop", Head(models.order), <<>>) EXCEPT !.order = Tail(@)]

(* Mutant: the model of an evicted id stays.                                 *)
DropNothing(v) ==
    /\ Doing(v, "drop")
    /\ models' = Continue(v, "evict", 0, <<>>)

DropOldest(v) ==
    /\ Doing(v, "drop")
    /\ models' = [Continue(v, "evict", 0, <<>>) EXCEPT !.loaded = @ \ {Its(v)}]

(* unload makes a new list from the order, which has an id only once, and    *)
(* then puts it in its place.                                                *)
UnloadModel(v) ==
    /\ Doing(v, "rest")
    /\ \E id \in models.loaded :
          models' = [Continue(v, "rebuild", id, <<>>) EXCEPT !.loaded = @ \ {id}]

FilterOrder(v) ==
    LET order == models.order
        places == {i \in DOMAIN order : order[i] = Its(v)}
    IN  /\ Doing(v, "rebuild")
        /\ models' = Continue(v, "assign", Its(v),
                         IF places = {} THEN order ELSE RemoveAt(order, CHOOSE i \in places : TRUE))

AssignOrder(v) ==
    LET seen == models.by[v].seen
    IN  /\ Doing(v, "assign")
        /\ models' = [Continue(v, "rest", 0, <<>>)
                        EXCEPT !.order = seen, !.lost = @ \cup (ToSet(models.order) \ ToSet(seen))]

ModelsNext ==
    \E v \in Visitors :
       \/ LoadModel(v) \/ AppendModel(v) \/ CacheIsFull(v) \/ PopOldest(v) \/ DropOldest(v)
       \/ UnloadModel(v) \/ FilterOrder(v) \/ AssignOrder(v)

PlayRoomSpec ==
    /\ SessionInit /\ MatchInit /\ ModelsInit
    /\ [][SessionNext]_session /\ [][MatchNext]_match /\ [][ModelsNext]_models

-----------------------------------------------------------------------------
(* Properties.                                                               *)

(* However requests overlap, the row of a session holds a game that can be   *)
(* replayed, and says "complete" exactly when that game is over.             *)
SessionIsAGame ==
    session.row # NoRow =>
        /\ IsGame(session.row.moves)
        /\ session.row.status = "complete" <=> WonBy(session.row.moves)

(* The events of a match are the start, its moves, and how it ended: no move *)
(* follows a result, and only an error. A match that is complete in the      *)
(* store ended with the result that was announced. A spectator gets events   *)
(* in their order and none twice (but may miss some).                        *)
MatchIsTold ==
    LET n == Len(match.moves)
        after == SubSeq(match.events, n + 2, Len(match.events))
    IN  /\ IsGame(match.moves)
        /\ \A i \in 1 .. n : match.events[i + 1] = MoveEvent(match.moves[i])
        /\ Len(after) <= 2
        /\ \A i \in DOMAIN after : after[i].type = (IF i = Len(after) /\ match.verdict = MatchError
                                                    THEN "match_error" ELSE "match_result")
        /\ match.status = "complete" => Last(match.events) = match.result
        /\ \A i, j \in DOMAIN match.got : i < j => match.got[i] < match.got[j]

(* What the dashboard shows of games is games. *)
ShowsGames == SessionIsAGame /\ MatchIsTold

(* Every loaded model will be evicted in its turn: it is in the order, or a  *)
(* request is about to put it there or to drop it. The exception is a model  *)
(* that was appended while another one was being unloaded.                   *)
CacheAccounted ==
    models.loaded \subseteq
        ToSet(models.order) \cup models.lost
        \cup {Its(v) : v \in {w \in Visitors : models.by[w].at \in {"append", "drop"}}}
=============================================================================
