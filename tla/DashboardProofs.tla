-------------------------- MODULE DashboardProofs --------------------------
(* What the dashboard stores of runs, for any number of processes that open  *)
(* the store, any tables, any number of calls and any losses; and what it    *)
(* keeps of sessions, matches and models, for any board, any games that are  *)
(* won, any number of visitors, moves and models.                            *)
EXTENDS Telemetry, PlayRoom, SequenceTheorems, TLAPS

------------------------------------------------------------------------------
(* The store.                                                                *)

LEMMA Tails ==
    ASSUME NEW a, NEW b, NEW c
    PROVE  /\ Head(<<a>>) = a /\ Tail(<<a>>) = << >>
           /\ Head(<<a, b>>) = a /\ Tail(<<a, b>>) = <<b>>
           /\ Head(<<a, b, c>>) = a /\ Tail(<<a, b, c>>) = <<b, c>>
           /\ <<a>> # << >> /\ <<a, b>> # << >> /\ <<a, b, c>> # << >>
  OBVIOUS

LEMMA Joins ==
    ASSUME NEW a, NEW b, NEW c
    PROVE  <<a>> \o <<b, c>> = <<a, b, c>>
<1> DEFINE S == {a, b, c}
           s == <<a>> \o <<b, c>>
<1>1. /\ <<a>> \in Seq(S) /\ <<b, c>> \in Seq(S) /\ <<a, b, c>> \in Seq(S)
      /\ Len(<<a>>) = 1 /\ Len(<<b, c>>) = 2 /\ Len(<<a, b, c>>) = 3
  OBVIOUS
<1>2. s \in Seq(S) /\ Len(s) = 3
  BY <1>1, ConcatProperties
<1>3. s[1] = a /\ s[2] = b /\ s[3] = c
  BY <1>1, ConcatProperties
<1> HIDE DEF s
<1>4. \A i \in 1 .. Len(s) : s[i] = <<a, b, c>>[i]
  BY <1>2, <1>3
<1>5. s = <<a, b, c>>
  BY <1>1, <1>2, <1>4, SeqEqual
<1> QED
  BY <1>5, Zenon DEF s

LEMMA Kinds == DOMAIN Steps = {"event", "metric", "checkpoint", "game"}
  BY DEF Steps

LEMMA StepsAsTuples ==
    /\ Steps["event"] = <<{"jsonl"}, {"events"}>>
    /\ Steps["metric"] = <<{"jsonl"}, {"metrics"}>>
    /\ Steps["checkpoint"] = <<{"checkpoints"}, {"jsonl"}, {"events"}>>
    /\ Steps["game"] = <<{"games", "positions"}, {"jsonl"}, {"events"}>>
<1>1. EventSteps = <<{"jsonl"}, {"events"}>>
  BY DEF EventSteps, RecordEvent
<1>2. CheckpointSteps = <<{"checkpoints"}, {"jsonl"}, {"events"}>>
  BY <1>1, Joins, Zenon DEF CheckpointSteps, UpsertCheckpoint
<1>3. GameSteps = <<{"games", "positions"}, {"jsonl"}, {"events"}>>
  BY <1>1, Joins, Zenon DEF GameSteps, GameWithPositions
<1> QED
  BY <1>1, <1>2, <1>3 DEF Steps, MetricSteps, RecordMetric

-----------------------------------------------------------------------------
(* The shapes of the state.                                                  *)
States == {"closed", "apply", "repair", "open", "raised"}
Places == {"jsonl", "events", "metrics", "checkpoints", "games", "positions"}
Calls == [by : Recorders, kind : DOMAIN Steps, no : Nat]

TypeOK ==
    /\ tele \in [tables : SUBSET Tables, marks : {0, 1}, written : SUBSET (Places \X Calls),
                 at : [Recorders -> [stage : States, call : Calls \cup {NoCall}, todo : Seq(SUBSET Places)]],
                 calls : [Recorders -> Nat], losses : Nat, refused : SUBSET Calls]

(* How far a call has come, and what is written by then.                     *)
Progress(p) ==
    LET c == tele.at[p].call
        todo == tele.at[p].todo
        has(place) == <<place, c>> \in tele.written
    IN  todo # << >> =>
          /\ c \in Calls
          /\ \/ todo = Steps[c.kind]
             \/ /\ todo = <<{"jsonl"}, {"events"}>>
                /\ \/ c.kind = "game" /\ has("games")
                   \/ c.kind = "checkpoint" /\ (has("checkpoints") \/ c \in tele.refused)
             \/ todo = <<{"events"}>> /\ has("jsonl")
             \/ todo = <<{"metrics"}>> /\ has("jsonl")

Opened(p) ==
    /\ tele.at[p].stage = "repair" => tele.marks = 1
    /\ tele.at[p].stage = "open" => tele.marks = 1 /\ Tables \subseteq tele.tables
    /\ tele.at[p].todo # << >> => tele.at[p].stage = "open"

Written ==
    \A x \in tele.written :
       /\ x[1] \in {"games", "positions"} => {<<"games", x[2]>>, <<"positions", x[2]>>} \subseteq tele.written
       /\ x[1] \in {"events", "metrics"} => <<"jsonl", x[2]>> \in tele.written
       /\ x[1] = "jsonl" /\ x[2].kind = "game" => <<"games", x[2]>> \in tele.written
       /\ x[1] = "jsonl" /\ x[2].kind = "checkpoint" =>
             <<"checkpoints", x[2]>> \in tele.written \/ x[2] \in tele.refused

(* The inductive invariant.                                                  *)
TelemetryInv == TypeOK /\ Written /\ \A p \in Recorders : Progress(p) /\ Opened(p)

-----------------------------------------------------------------------------
LEMMA Fields ==
    ASSUME TypeOK
    PROVE  /\ tele.marks \in {0, 1} /\ tele.tables \subseteq Tables
           /\ tele.written \subseteq Places \X Calls /\ tele.refused \subseteq Calls
           /\ tele.at \in [Recorders -> [stage : States, call : Calls \cup {NoCall}, todo : Seq(SUBSET Places)]]
           /\ tele.calls \in [Recorders -> Nat] /\ tele.losses \in Nat
           /\ DOMAIN tele = {"tables", "marks", "written", "at", "calls", "losses", "refused"}
  BY DEF TypeOK

(* What a step must leave as it was for the others.                          *)
LEMMA Others ==
    ASSUME NEW q \in Recorders, Progress(q), Opened(q),
           tele'.at[q] = tele.at[q],
           tele.marks = 1 => tele'.marks = 1,
           tele.tables \subseteq tele'.tables,
           tele.written \subseteq tele'.written,
           tele.refused \subseteq tele'.refused
    PROVE  Progress(q)' /\ Opened(q)'
<1>1. Opened(q)'
  BY DEF Opened
<1>2. Progress(q)'
  BY DEF Progress
<1> QED
  BY <1>1, <1>2

LEMMA AtType ==
    ASSUME NEW stage \in States, NEW call \in Calls \cup {NoCall}, NEW todo \in Seq(SUBSET Places)
    PROVE  /\ At(stage, call, todo) \in [stage : States, call : Calls \cup {NoCall}, todo : Seq(SUBSET Places)]
           /\ At(stage, call, todo).stage = stage
           /\ At(stage, call, todo).call = call
           /\ At(stage, call, todo).todo = todo
  BY DEF At

LEMMA InitialStore == TelemetryInit => TelemetryInv
<1> SUFFICES ASSUME TelemetryInit PROVE TelemetryInv
  OBVIOUS
<1>1. PICK tables \in SUBSET Tables, marks \in {0, 1} : tele = StoreOf(tables, marks)
  BY DEF TelemetryInit
<1>2. /\ tele.tables = tables /\ tele.marks = marks /\ tele.written = {} /\ tele.refused = {}
      /\ tele.at = [p \in Recorders |-> ClosedStore]
  BY <1>1 DEF StoreOf
<1>3. ClosedStore \in [stage : States, call : Calls \cup {NoCall}, todo : Seq(SUBSET Places)]
  BY DEF ClosedStore, At, States
<1>4. TypeOK
  BY <1>1, <1>3 DEF StoreOf, TypeOK
<1>5. Written
  BY <1>2 DEF Written
<1>6. ASSUME NEW p \in Recorders PROVE Progress(p) /\ Opened(p)
  BY <1>2 DEF Progress, Opened, ClosedStore, At
<1> QED
  BY <1>4, <1>5, <1>6 DEF TelemetryInv

(* A step that writes nothing and leaves p with nothing to write.            *)
LEMMA IdleStep ==
    ASSUME TelemetryInv, NEW p \in Recorders,
           tele'.written = tele.written, tele'.refused = tele.refused,
           \A q \in Recorders \ {p} : tele'.at[q] = tele.at[q],
           tele.tables \subseteq tele'.tables, tele.marks = 1 => tele'.marks = 1,
           TypeOK', tele'.at[p].todo = << >>,
           tele'.at[p].stage = "repair" => tele'.marks = 1,
           tele'.at[p].stage = "open" => tele'.marks = 1 /\ Tables \subseteq tele'.tables
    PROVE  TelemetryInv'
<1>1. Written'
  BY DEF TelemetryInv, Written
<1>2. Progress(p)' /\ Opened(p)'
  BY DEF Progress, Opened
<1>3. ASSUME NEW q \in Recorders \ {p} PROVE Progress(q)' /\ Opened(q)'
  BY Others DEF TelemetryInv
<1> QED
  BY <1>1, <1>2, <1>3 DEF TelemetryInv

LEMMA ReadVersionsStep ==
    ASSUME TelemetryInv, NEW p \in Recorders, ReadVersions(p)
    PROVE  TelemetryInv'
<1> USE Fields DEF TelemetryInv
<1> DEFINE stage == CASE tele.marks = 0 -> "apply"
                      [] tele.marks > 0 /\ ~(Tables \subseteq tele.tables) -> "repair"
                      [] OTHER -> "open"
<1>1. /\ stage \in {"apply", "repair", "open"}
      /\ stage = "repair" => tele.marks = 1
      /\ stage = "open" => tele.marks = 1 /\ Tables \subseteq tele.tables
  OBVIOUS
<1>a. tele' = MoveTo(p, At(stage, NoCall, << >>))
  BY Zenon DEF ReadVersions
<1> HIDE DEF stage
<1>2. tele' = [tele EXCEPT !.at[p] = At(stage, NoCall, << >>)]
  BY <1>a, Zenon DEF MoveTo
<1>3. At(stage, NoCall, << >>) \in [stage : States, call : Calls \cup {NoCall}, todo : Seq(SUBSET Places)]
  BY <1>1 DEF At, States
<1>4. /\ tele'.at[p] = At(stage, NoCall, << >>) /\ tele'.written = tele.written /\ tele'.refused = tele.refused
      /\ \A q \in Recorders \ {p} : tele'.at[q] = tele.at[q]
      /\ tele'.tables = tele.tables /\ tele'.marks = tele.marks
  BY <1>2
<1>5. TypeOK'
  BY <1>2, <1>3 DEF TypeOK
<1>6. /\ tele'.at[p].todo = << >> /\ tele'.at[p].stage = stage
  BY <1>4 DEF At
<1>7. /\ tele'.at[p].stage = "repair" => tele'.marks = 1
      /\ tele'.at[p].stage = "open" => tele'.marks = 1 /\ Tables \subseteq tele'.tables
      /\ tele.tables \subseteq tele'.tables /\ (tele.marks = 1 => tele'.marks = 1)
  BY <1>1, <1>4, <1>6
<1> HIDE DEF TelemetryInv
<1> QED
  BY <1>4, <1>5, <1>6, <1>7, IdleStep

LEMMA CreateTableStep ==
    ASSUME TelemetryInv, NEW p \in Recorders, CreateTable(p)
    PROVE  TelemetryInv'
<1>1. TypeOK
  BY DEF TelemetryInv
<1>2. PICK t \in Tables : tele' = [tele EXCEPT !.tables = @ \cup {t}]
  BY DEF CreateTable
<1>3. /\ tele'.at = tele.at /\ tele'.written = tele.written /\ tele'.refused = tele.refused
      /\ tele'.marks = tele.marks /\ tele.tables \subseteq tele'.tables
  BY <1>1, <1>2, Fields
<1>4. TypeOK'
  BY <1>1, <1>2 DEF TypeOK
<1>5. Written'
  BY <1>3 DEF TelemetryInv, Written
<1>6. ASSUME NEW q \in Recorders PROVE Progress(q)' /\ Opened(q)'
  BY <1>3, Others DEF TelemetryInv
<1> QED
  BY <1>4, <1>5, <1>6 DEF TelemetryInv

LEMMA MarkVersionStep ==
    ASSUME TelemetryInv, NEW p \in Recorders, MarkVersion(p)
    PROVE  TelemetryInv'
<1>1. TypeOK /\ Stage(p) = "apply" /\ Tables \subseteq tele.tables
  BY DEF TelemetryInv, MarkVersion
<1>2. CASE tele.marks > 0
  <2>1. tele' = [tele EXCEPT !.at[p] = At("raised", NoCall, << >>)]
    BY <1>2 DEF MarkVersion, MoveTo
  <2>2. At("raised", NoCall, << >>) \in [stage : States, call : Calls \cup {NoCall}, todo : Seq(SUBSET Places)]
    BY DEF At, States
  <2>3. /\ tele'.at[p] = At("raised", NoCall, << >>) /\ tele'.written = tele.written
        /\ tele'.refused = tele.refused
        /\ \A q \in Recorders \ {p} : tele'.at[q] = tele.at[q]
        /\ tele'.tables = tele.tables /\ tele'.marks = tele.marks
    BY <1>1, <2>1, Fields
  <2>4. TypeOK'
    BY <1>1, <2>1, <2>2 DEF TypeOK
  <2>5. tele'.at[p].todo = << >> /\ tele'.at[p].stage = "raised"
    BY <2>3 DEF At
  <2> QED
    BY <2>3, <2>4, <2>5, IdleStep
<1>3. CASE ~(tele.marks > 0)
  <2>1. tele' = [[tele EXCEPT !.at[p] = At("open", NoCall, << >>)] EXCEPT !.marks = 1]
    BY <1>3 DEF MarkVersion, MoveTo
  <2>2. At("open", NoCall, << >>) \in [stage : States, call : Calls \cup {NoCall}, todo : Seq(SUBSET Places)]
    BY DEF At, States
  <2>3. /\ tele'.at[p] = At("open", NoCall, << >>) /\ tele'.written = tele.written
        /\ tele'.refused = tele.refused
        /\ \A q \in Recorders \ {p} : tele'.at[q] = tele.at[q]
        /\ tele'.tables = tele.tables /\ tele'.marks = 1
    BY <1>1, <2>1, Fields
  <2>4. TypeOK'
    BY <1>1, <2>1, <2>2 DEF TypeOK
  <2>5. tele'.at[p].todo = << >> /\ tele'.at[p].stage = "open"
    BY <2>3 DEF At
  <2> QED
    BY <1>1, <2>3, <2>4, <2>5, IdleStep
<1> QED
  BY <1>2, <1>3

LEMMA RepairedStep ==
    ASSUME TelemetryInv, NEW p \in Recorders, Repaired(p)
    PROVE  TelemetryInv'
<1>1. TypeOK /\ Opened(p) /\ Stage(p) = "repair" /\ Tables \subseteq tele.tables
  BY DEF TelemetryInv, Repaired
<1>2. tele' = [tele EXCEPT !.at[p] = At("open", NoCall, << >>)]
  BY DEF Repaired, MoveTo
<1>3. At("open", NoCall, << >>) \in [stage : States, call : Calls \cup {NoCall}, todo : Seq(SUBSET Places)]
  BY DEF At, States
<1>4. /\ tele'.at[p] = At("open", NoCall, << >>) /\ tele'.written = tele.written
      /\ tele'.refused = tele.refused
      /\ \A q \in Recorders \ {p} : tele'.at[q] = tele.at[q]
      /\ tele'.tables = tele.tables /\ tele'.marks = tele.marks
  BY <1>1, <1>2, Fields
<1>5. TypeOK'
  BY <1>1, <1>2, <1>3 DEF TypeOK
<1>6. tele'.at[p].todo = << >> /\ tele'.at[p].stage = "open" /\ tele'.marks = 1
  BY <1>1, <1>4 DEF At, Opened, Stage
<1> QED
  BY <1>1, <1>4, <1>5, <1>6, IdleStep

LEMMA DiesStep ==
    ASSUME TelemetryInv, NEW p \in Recorders, Dies(p)
    PROVE  TelemetryInv'
<1>1. TypeOK
  BY DEF TelemetryInv
<1>2. tele' = [[tele EXCEPT !.at[p] = ClosedStore] EXCEPT !.losses = tele.losses + 1]
  BY DEF Dies, MoveTo
<1>3. ClosedStore \in [stage : States, call : Calls \cup {NoCall}, todo : Seq(SUBSET Places)]
  BY DEF ClosedStore, At, States
<1>4. /\ tele'.at[p] = ClosedStore /\ tele'.written = tele.written
      /\ tele'.refused = tele.refused
      /\ \A q \in Recorders \ {p} : tele'.at[q] = tele.at[q]
      /\ tele'.tables = tele.tables /\ tele'.marks = tele.marks
  BY <1>1, <1>2, Fields
<1>5. TypeOK'
  <2>1. tele.losses + 1 \in Nat
    BY <1>1, Fields
  <2> QED
    BY <1>1, <1>2, <1>3, <2>1 DEF TypeOK
<1>6. tele'.at[p].todo = << >> /\ tele'.at[p].stage = "closed"
  BY <1>4 DEF ClosedStore, At
<1> QED
  BY <1>4, <1>5, <1>6, IdleStep

LEMMA StepTypes ==
    ASSUME NEW a \in SUBSET Places, NEW b \in SUBSET Places, NEW c \in SUBSET Places
    PROVE  /\ <<a>> \in Seq(SUBSET Places) /\ <<a, b>> \in Seq(SUBSET Places)
           /\ <<a, b, c>> \in Seq(SUBSET Places)
  OBVIOUS

LEMMA StepsType == \A kind \in DOMAIN Steps : Steps[kind] \in Seq(SUBSET Places) /\ Steps[kind] # << >>
<1>1. /\ {"jsonl"} \in SUBSET Places /\ {"events"} \in SUBSET Places /\ {"metrics"} \in SUBSET Places
      /\ {"checkpoints"} \in SUBSET Places /\ {"games", "positions"} \in SUBSET Places
  BY DEF Places
<1>2. /\ Steps["event"] \in Seq(SUBSET Places) /\ Steps["metric"] \in Seq(SUBSET Places)
      /\ Steps["checkpoint"] \in Seq(SUBSET Places) /\ Steps["game"] \in Seq(SUBSET Places)
  BY <1>1, StepTypes, StepsAsTuples, Zenon
<1>3. /\ Steps["event"] # << >> /\ Steps["metric"] # << >>
      /\ Steps["checkpoint"] # << >> /\ Steps["game"] # << >>
  <2>1. \A a, b : <<a, b>> # << >>
    BY Tails
  <2>2. \A a, b, c : <<a, b, c>> # << >>
    BY Tails
  <2> QED
    BY <2>1, <2>2, StepsAsTuples, Zenon
<1> QED
  BY <1>2, <1>3, Kinds

(* A call of p that begins: its number is new, and its steps are all to do.  *)
LEMMA CallStep ==
    ASSUME TelemetryInv, NEW p \in Recorders, NEW kind \in DOMAIN Steps, Call(p, kind)
    PROVE  TelemetryInv'
<1> DEFINE c == [by |-> p, kind |-> kind, no |-> tele.calls[p]]
           here == At("open", c, Steps[kind])
<1>1. TypeOK /\ Opened(p) /\ Stage(p) = "open" /\ tele.calls[p] \in Nat
  BY Fields DEF TelemetryInv, Call
<1>2. tele' = [[tele EXCEPT !.at[p] = here] EXCEPT !.calls[p] = tele.calls[p] + 1]
  BY <1>1, Fields DEF Call, MoveTo
<1>3. c \in Calls /\ c.kind = kind
  BY <1>1 DEF Calls
<1> HIDE DEF c
<1>4. Steps[kind] \in Seq(SUBSET Places) /\ Steps[kind] # << >>
  BY StepsType
<1>5. here \in [stage : States, call : Calls \cup {NoCall}, todo : Seq(SUBSET Places)]
      /\ here.stage = "open" /\ here.call = c /\ here.todo = Steps[kind]
  BY <1>3, <1>4 DEF At, States
<1> HIDE DEF here
<1>6. /\ tele'.at[p] = here /\ tele'.written = tele.written
      /\ tele'.refused = tele.refused
      /\ \A q \in Recorders \ {p} : tele'.at[q] = tele.at[q]
      /\ tele'.tables = tele.tables /\ tele'.marks = tele.marks
  BY <1>1, <1>2, Fields
<1>7. TypeOK'
  <2>1. tele.calls[p] + 1 \in Nat
    BY <1>1
  <2> QED
    BY <1>1, <1>2, <1>5, <2>1 DEF TypeOK
<1>8. Written'
  BY <1>6 DEF TelemetryInv, Written
<1>9. Progress(p)'
  BY <1>3, <1>5, <1>6 DEF Progress
<1>10. Opened(p)'
  BY <1>1, <1>5, <1>6 DEF Opened, Stage
<1>11. ASSUME NEW q \in Recorders \ {p} PROVE Progress(q)' /\ Opened(q)'
  BY <1>6, Others DEF TelemetryInv
<1> QED
  BY <1>7, <1>8, <1>9, <1>10, <1>11 DEF TelemetryInv

MayCommit(c, head, tail) ==
    /\ "events" \in head \/ "metrics" \in head => <<"jsonl", c>> \in tele.written
    /\ "games" \in head <=> "positions" \in head
    /\ "jsonl" \in head /\ c.kind = "game" => <<"games", c>> \in tele.written
    /\ "jsonl" \in head /\ c.kind = "checkpoint" =>
          <<"checkpoints", c>> \in tele.written \/ c \in tele.refused
    /\ \/ tail = << >>
       \/ /\ tail = <<{"jsonl"}, {"events"}>>
          /\ \/ c.kind = "game" /\ "games" \in head
             \/ c.kind = "checkpoint" /\ "checkpoints" \in head
       \/ tail \in {<<{"events"}>>, <<{"metrics"}>>} /\ "jsonl" \in head

(* A transaction that is in, when what it writes may be written by now.      *)
LEMMA CommitTo ==
    ASSUME TelemetryInv, NEW p \in Recorders, Commit(p),
           NEW c, c = tele.at[p].call, c \in Calls, tele.at[p].stage = "open",
           NEW head \in SUBSET Places, head = Head(tele.at[p].todo),
           NEW tail \in Seq(SUBSET Places), tail = Tail(tele.at[p].todo),
           MayCommit(c, head, tail)
    PROVE  TelemetryInv'
<1> DEFINE now == {<<place, c>> : place \in head}
           here == [tele.at[p] EXCEPT !.todo = tail]
<1> USE DEF MayCommit
<1>1. TypeOK /\ Written /\ Opened(p) /\ tele.at[p].todo # << >>
  BY DEF TelemetryInv, Commit
<1>2. tele' = [[tele EXCEPT !.at[p] = here] EXCEPT !.written = tele.written \cup now]
  BY <1>1 DEF Commit, MoveTo
<1>3. /\ here \in [stage : States, call : Calls \cup {NoCall}, todo : Seq(SUBSET Places)]
      /\ here.stage = "open" /\ here.call = c /\ here.todo = tail
  BY <1>1, Fields
<1> HIDE DEF here
<1>4. now \subseteq Places \X Calls /\ \A x : x \in now => x[1] \in head /\ x[2] = c
  OBVIOUS
<1>5. \A place \in head : <<place, c>> \in now
  OBVIOUS
<1> HIDE DEF now
<1>6. /\ tele'.at[p] = here /\ tele'.written = tele.written \cup now
      /\ tele'.refused = tele.refused
      /\ \A q \in Recorders \ {p} : tele'.at[q] = tele.at[q]
      /\ tele'.tables = tele.tables /\ tele'.marks = tele.marks
  BY <1>1, <1>2, Fields
<1>7. TypeOK'
  <2>1. tele.written \cup now \in SUBSET (Places \X Calls)
    BY <1>1, <1>4, Fields
  <2> QED
    BY <1>1, <1>2, <1>3, <2>1 DEF TypeOK
<1>8. Written'
  <2> SUFFICES ASSUME NEW x \in tele'.written
               PROVE  /\ x[1] \in {"games", "positions"} =>
                            {<<"games", x[2]>>, <<"positions", x[2]>>} \subseteq tele'.written
                      /\ x[1] \in {"events", "metrics"} => <<"jsonl", x[2]>> \in tele'.written
                      /\ x[1] = "jsonl" /\ x[2].kind = "game" => <<"games", x[2]>> \in tele'.written
                      /\ x[1] = "jsonl" /\ x[2].kind = "checkpoint" =>
                            <<"checkpoints", x[2]>> \in tele'.written \/ x[2] \in tele'.refused
    BY DEF Written
  <2>1. CASE x \in tele.written
    BY <1>1, <1>6, <2>1 DEF Written
  <2>2. CASE x \in now
    <3>1. x[1] \in head /\ x[2] = c
      BY <1>4, <2>2
    <3>2. \A place \in head : <<place, c>> \in tele'.written
      BY <1>5, <1>6
    <3>3. x[1] \in {"games", "positions"} => "games" \in head /\ "positions" \in head
      BY <3>1
    <3>4. x[1] \in {"games", "positions"} => {<<"games", c>>, <<"positions", c>>} \subseteq tele'.written
      BY <3>2, <3>3
    <3>5. x[1] \in {"events", "metrics"} => <<"jsonl", c>> \in tele'.written
      BY <1>6, <3>1
    <3>6. x[1] = "jsonl" /\ c.kind = "game" => <<"games", c>> \in tele'.written
      BY <1>6, <3>1
    <3>7. x[1] = "jsonl" /\ c.kind = "checkpoint" =>
             <<"checkpoints", c>> \in tele'.written \/ c \in tele'.refused
      BY <1>6, <3>1
    <3> QED
      BY <3>1, <3>4, <3>5, <3>6, <3>7, Zenon
  <2> QED
    BY <1>6, <2>1, <2>2
<1>9. Progress(p)'
  <2>1. /\ tele'.at[p].todo = tail /\ tele'.at[p].call = c
    BY <1>3, <1>6
  <2>2. \A place \in head : <<place, c>> \in tele'.written
    BY <1>5, <1>6
  <2> QED
    BY <2>1, <2>2, Zenon DEF Progress
<1>10. Opened(p)'
  BY <1>1, <1>3, <1>6 DEF Opened
<1>11. ASSUME NEW q \in Recorders \ {p} PROVE Progress(q)' /\ Opened(q)'
  BY <1>6, Others DEF TelemetryInv
<1> QED
  BY <1>7, <1>8, <1>9, <1>10, <1>11 DEF TelemetryInv

LEMMA CommitStep ==
    ASSUME TelemetryInv, NEW p \in Recorders, Commit(p)
    PROVE  TelemetryInv'
<1> DEFINE c == tele.at[p].call
           todo == tele.at[p].todo
<1>1. /\ TypeOK /\ Written /\ Progress(p) /\ Opened(p)
      /\ todo # << >> /\ tele.at[p].stage = "open"
  BY DEF TelemetryInv, Commit, Opened
<1>2. c \in Calls
  BY <1>1 DEF Progress
<1>3. c.kind \in DOMAIN Steps
  BY <1>2 DEF Calls
<1>4. /\ {"jsonl"} \in SUBSET Places /\ {"events"} \in SUBSET Places /\ {"metrics"} \in SUBSET Places
      /\ {"checkpoints"} \in SUBSET Places /\ {"games", "positions"} \in SUBSET Places
  BY DEF Places
<1>5. /\ <<{"events"}>> \in Seq(SUBSET Places) /\ <<{"metrics"}>> \in Seq(SUBSET Places)
      /\ <<{"jsonl"}, {"events"}>> \in Seq(SUBSET Places) /\ << >> \in Seq(SUBSET Places)
  BY <1>4, StepTypes
<1>6. CASE /\ todo = <<{"jsonl"}, {"events"}>>
           /\ \/ c.kind = "event"
              \/ c.kind = "game" /\ <<"games", c>> \in tele.written
              \/ c.kind = "checkpoint" /\ (<<"checkpoints", c>> \in tele.written \/ c \in tele.refused)
  <2>1. Head(todo) = {"jsonl"} /\ Tail(todo) = <<{"events"}>>
    BY <1>6, Tails
  <2>2. MayCommit(c, {"jsonl"}, <<{"events"}>>)
    BY <1>6 DEF MayCommit
  <2> QED
    BY <1>1, <1>2, <1>4, <1>5, <2>1, <2>2, CommitTo
<1>7. CASE todo = <<{"jsonl"}, {"metrics"}>> /\ c.kind = "metric"
  <2>1. Head(todo) = {"jsonl"} /\ Tail(todo) = <<{"metrics"}>>
    BY <1>7, Tails
  <2>2. MayCommit(c, {"jsonl"}, <<{"metrics"}>>)
    BY <1>7 DEF MayCommit
  <2> QED
    BY <1>1, <1>2, <1>4, <1>5, <2>1, <2>2, CommitTo
<1>8. CASE todo = <<{"checkpoints"}, {"jsonl"}, {"events"}>> /\ c.kind = "checkpoint"
  <2>1. Head(todo) = {"checkpoints"} /\ Tail(todo) = <<{"jsonl"}, {"events"}>>
    BY <1>8, Tails
  <2>2. MayCommit(c, {"checkpoints"}, <<{"jsonl"}, {"events"}>>)
    BY <1>8 DEF MayCommit
  <2> QED
    BY <1>1, <1>2, <1>4, <1>5, <2>1, <2>2, CommitTo
<1>9. CASE todo = <<{"games", "positions"}, {"jsonl"}, {"events"}>> /\ c.kind = "game"
  <2>1. Head(todo) = {"games", "positions"} /\ Tail(todo) = <<{"jsonl"}, {"events"}>>
    BY <1>9, Tails
  <2>2. MayCommit(c, {"games", "positions"}, <<{"jsonl"}, {"events"}>>)
    BY <1>9 DEF MayCommit
  <2> QED
    BY <1>1, <1>2, <1>4, <1>5, <2>1, <2>2, CommitTo
<1>10. CASE todo = <<{"events"}>> /\ <<"jsonl", c>> \in tele.written
  <2>1. Head(todo) = {"events"} /\ Tail(todo) = << >>
    BY <1>10, Tails
  <2>2. MayCommit(c, {"events"}, << >>)
    BY <1>10 DEF MayCommit
  <2> QED
    BY <1>1, <1>2, <1>4, <1>5, <2>1, <2>2, CommitTo
<1>11. CASE todo = <<{"metrics"}>> /\ <<"jsonl", c>> \in tele.written
  <2>1. Head(todo) = {"metrics"} /\ Tail(todo) = << >>
    BY <1>11, Tails
  <2>2. MayCommit(c, {"metrics"}, << >>)
    BY <1>11 DEF MayCommit
  <2> QED
    BY <1>1, <1>2, <1>4, <1>5, <2>1, <2>2, CommitTo
<1> HIDE DEF todo, c
<1>12. CASE todo = Steps[c.kind]
  <2>1. CASE c.kind = "event"
    <3>1. todo = <<{"jsonl"}, {"events"}>>
      BY <1>12, <2>1, StepsAsTuples, Zenon
    <3> QED
      BY <1>6, <2>1, <3>1, Zenon
  <2>2. CASE c.kind = "metric"
    BY <1>7, <1>12, <2>2, StepsAsTuples
  <2>3. CASE c.kind = "checkpoint"
    BY <1>8, <1>12, <2>3, StepsAsTuples
  <2>4. CASE c.kind = "game"
    BY <1>9, <1>12, <2>4, StepsAsTuples
  <2> QED
    BY <1>3, <2>1, <2>2, <2>3, <2>4, Kinds
<1>13. \/ todo = Steps[c.kind]
       \/ /\ todo = <<{"jsonl"}, {"events"}>>
          /\ \/ c.kind = "game" /\ <<"games", c>> \in tele.written
             \/ c.kind = "checkpoint" /\ (<<"checkpoints", c>> \in tele.written \/ c \in tele.refused)
       \/ todo = <<{"events"}>> /\ <<"jsonl", c>> \in tele.written
       \/ todo = <<{"metrics"}>> /\ <<"jsonl", c>> \in tele.written
  BY <1>1, Zenon DEF Progress, todo, c
<1> QED
  BY <1>6, <1>10, <1>11, <1>12, <1>13, Zenon

(* A refused checkpoint goes on without its row, every other call ends.      *)
LEMMA FailsStep ==
    ASSUME TelemetryInv, NEW p \in Recorders, Fails(p)
    PROVE  TelemetryInv'
<1> DEFINE c == tele.at[p].call
           todo == tele.at[p].todo
<1>1. /\ TypeOK /\ Written /\ Progress(p) /\ Opened(p)
      /\ todo # << >> /\ tele.at[p].stage = "open" /\ tele.losses + 1 \in Nat
  BY Fields DEF TelemetryInv, Fails, Opened
<1>2. c \in Calls
  BY <1>1 DEF Progress
<1>3. CASE Head(todo) = UpsertCheckpoint
  <2> DEFINE here == [tele.at[p] EXCEPT !.todo = <<{"jsonl"}, {"events"}>>]
  <2>1. todo = Steps["checkpoint"] /\ c.kind = "checkpoint"
    <3>1. /\ todo # <<{"jsonl"}, {"events"}>> /\ todo # <<{"events"}>> /\ todo # <<{"metrics"}>>
      BY <1>3, Tails DEF UpsertCheckpoint
    <3>2. todo = Steps[c.kind]
      BY <1>1, <3>1, Zenon DEF Progress
    <3>3. c.kind \in {"event", "metric", "checkpoint", "game"}
      BY <1>2, Kinds DEF Calls
    <3>4. /\ Head(Steps["event"]) = {"jsonl"} /\ Head(Steps["metric"]) = {"jsonl"}
          /\ Head(Steps["game"]) = {"games", "positions"}
      BY StepsAsTuples, Tails
    <3>5. {"jsonl"} # {"checkpoints"} /\ {"games", "positions"} # {"checkpoints"}
      OBVIOUS
    <3> QED
      BY <1>3, <3>2, <3>3, <3>4, <3>5 DEF UpsertCheckpoint
  <2>2. Tail(todo) = <<{"jsonl"}, {"events"}>>
    BY <2>1, StepsAsTuples, Tails
  <2>3. tele' = [[[tele EXCEPT !.at[p] = here] EXCEPT !.losses = tele.losses + 1]
                   EXCEPT !.refused = tele.refused \cup {c}]
    BY <1>1, <1>3, <2>2 DEF Fails, MoveTo
  <2>4. /\ here \in [stage : States, call : Calls \cup {NoCall}, todo : Seq(SUBSET Places)]
        /\ here.stage = "open" /\ here.call = c /\ here.todo = <<{"jsonl"}, {"events"}>>
    <3>1. <<{"jsonl"}, {"events"}>> \in Seq(SUBSET Places)
      BY DEF Places
    <3> QED
      BY <1>1, <3>1, Fields
  <2> HIDE DEF here
  <2>5. /\ tele'.at[p] = here /\ tele'.written = tele.written
        /\ tele'.refused = tele.refused \cup {c}
        /\ \A q \in Recorders \ {p} : tele'.at[q] = tele.at[q]
        /\ tele'.tables = tele.tables /\ tele'.marks = tele.marks
    BY <1>1, <2>3, Fields
  <2>6. TypeOK'
    <3>1. tele.refused \cup {c} \in SUBSET Calls
      BY <1>1, <1>2, Fields
    <3> QED
      BY <1>1, <2>3, <2>4, <3>1 DEF TypeOK
  <2>7. Written'
    BY <2>5 DEF TelemetryInv, Written
  <2>8. Progress(p)'
    <3>1. /\ tele'.at[p].todo = <<{"jsonl"}, {"events"}>> /\ tele'.at[p].call = c /\ c \in tele'.refused
      BY <2>4, <2>5
    <3> QED
      BY <1>2, <2>1, <3>1, Zenon DEF Progress
  <2>9. Opened(p)'
    BY <1>1, <2>4, <2>5 DEF Opened
  <2>10. ASSUME NEW q \in Recorders \ {p} PROVE Progress(q)' /\ Opened(q)'
    BY <2>5, Others DEF TelemetryInv
  <2> QED
    BY <2>6, <2>7, <2>8, <2>9, <2>10 DEF TelemetryInv
<1>4. CASE Head(todo) # UpsertCheckpoint
  <2> DEFINE here == [tele.at[p] EXCEPT !.todo = << >>]
  <2>1. tele' = [[[tele EXCEPT !.at[p] = here] EXCEPT !.losses = tele.losses + 1]
                   EXCEPT !.refused = tele.refused]
    BY <1>1, <1>4 DEF Fails, MoveTo
  <2>2. /\ here \in [stage : States, call : Calls \cup {NoCall}, todo : Seq(SUBSET Places)]
        /\ here.stage = "open" /\ here.todo = << >>
    <3>1. << >> \in Seq(SUBSET Places)
      OBVIOUS
    <3> QED
      BY <1>1, <3>1, Fields
  <2> HIDE DEF here
  <2>3. /\ tele'.at[p] = here /\ tele'.written = tele.written /\ tele'.refused = tele.refused
        /\ \A q \in Recorders \ {p} : tele'.at[q] = tele.at[q]
        /\ tele'.tables = tele.tables /\ tele'.marks = tele.marks
    BY <1>1, <2>1, Fields
  <2>4. TypeOK'
    <3>1. tele.refused \in SUBSET Calls
      BY <1>1, Fields
    <3> QED
      BY <1>1, <2>1, <2>2, <3>1 DEF TypeOK
  <2>5. tele'.at[p].stage = "open" => tele'.marks = 1 /\ Tables \subseteq tele'.tables
    BY <1>1, <2>3 DEF Opened
  <2> QED
    BY <2>2, <2>3, <2>4, <2>5, IdleStep
<1> QED
  BY <1>3, <1>4

-----------------------------------------------------------------------------
LEMMA TelemetryStep == TelemetryInv /\ [TelemetryNext]_tele => TelemetryInv'
<1> SUFFICES ASSUME TelemetryInv, [TelemetryNext]_tele PROVE TelemetryInv'
  OBVIOUS
<1>1. CASE UNCHANGED tele
  BY <1>1 DEF TelemetryInv, TypeOK, Written, Progress, Opened
<1>2. ASSUME NEW p \in Recorders, ReadVersions(p) PROVE TelemetryInv'
  BY <1>2, ReadVersionsStep
<1>3. ASSUME NEW p \in Recorders, CreateTable(p) PROVE TelemetryInv'
  BY <1>3, CreateTableStep
<1>4. ASSUME NEW p \in Recorders, MarkVersion(p) PROVE TelemetryInv'
  BY <1>4, MarkVersionStep
<1>5. ASSUME NEW p \in Recorders, Repaired(p) PROVE TelemetryInv'
  BY <1>5, RepairedStep
<1>6. ASSUME NEW p \in Recorders, NEW kind \in DOMAIN Steps, Call(p, kind) PROVE TelemetryInv'
  BY <1>6, CallStep
<1>7. ASSUME NEW p \in Recorders, Commit(p) PROVE TelemetryInv'
  BY <1>7, CommitStep
<1>8. ASSUME NEW p \in Recorders, Fails(p) PROVE TelemetryInv'
  BY <1>8, FailsStep
<1>9. ASSUME NEW p \in Recorders, Dies(p) PROVE TelemetryInv'
  BY <1>9, DiesStep
<1> QED
  BY <1>1, <1>2, <1>3, <1>4, <1>5, <1>6, <1>7, <1>8, <1>9 DEF TelemetryNext

(* The shape of the state, how far each call has come and what the store     *)
(* holds by then: RunRecorder and DashboardStore keep the three together.    *)
THEOREM StoreInvariant == TelemetrySpec => []TelemetryInv
<1>1. TelemetryInit => TelemetryInv
  BY InitialStore
<1>2. TelemetryInv /\ [TelemetryNext]_tele => TelemetryInv'
  BY TelemetryStep
<1> QED
  BY <1>1, <1>2, PTL DEF TelemetrySpec

(* A page that opens the store finds every table, no game without all of its *)
(* positions, no event or metric without its line, and none about a game or  *)
(* checkpoint that the store lacks: whatever process ends or transaction     *)
(* fails on the way, for any number of them.                                 *)
THEOREM StoreIsWholeHolds == TelemetrySpec => []StoreIsWhole
<1>1. TelemetryInv => StoreIsWhole
  BY DEF TelemetryInv, Written, Opened, StoreIsWhole, Stage
<1> QED
  BY <1>1, StoreInvariant, PTL

-----------------------------------------------------------------------------
(* The model cache.                                                          *)
LEMMA IdsOf ==
    ASSUME NEW s \in Seq(Nat), NEW id \in Nat
    PROVE  /\ Append(s, id) \in Seq(Nat) /\ ToSet(Append(s, id)) = ToSet(s) \cup {id}
           /\ s # << >> => Head(s) \in Nat /\ Tail(s) \in Seq(Nat) /\ ToSet(s) = ToSet(Tail(s)) \cup {Head(s)}
<1>1. /\ Append(s, id) \in Seq(Nat) /\ Len(Append(s, id)) = Len(s) + 1
      /\ \A i \in 1 .. Len(s) : Append(s, id)[i] = s[i]
      /\ Append(s, id)[Len(s) + 1] = id
  BY AppendProperties
<1>2. DOMAIN Append(s, id) = 1 .. Len(s) + 1 /\ DOMAIN s = 1 .. Len(s) /\ Len(s) \in Nat
  BY <1>1, LenProperties
<1> DEFINE a == Append(s, id)
<1> HIDE DEF a
<1>3. ToSet(a) = ToSet(s) \cup {id}
  BY <1>1, <1>2 DEF ToSet, a
<1>4. ASSUME s # << >>
      PROVE  Head(s) \in Nat /\ Tail(s) \in Seq(Nat) /\ ToSet(s) = ToSet(Tail(s)) \cup {Head(s)}
  <2> DEFINE t == Tail(s)
             h == Head(s)
  <2>1. /\ h \in Nat /\ t \in Seq(Nat) /\ Len(t) = Len(s) - 1
        /\ \A i \in 1 .. Len(t) : t[i] = s[i + 1]
    BY <1>4, HeadTailProperties, Zenon
  <2>2. h = s[1] /\ Len(s) \in Nat \ {0}
    BY <1>4, EmptySeq
  <2>3. DOMAIN t = 1 .. Len(t)
    BY <2>1, LenProperties, Zenon
  <2> HIDE DEF t, h
  <2>4. ASSUME NEW x \in ToSet(s) PROVE x \in ToSet(t) \cup {h}
    <3>1. PICK i \in 1 .. Len(s) : s[i] = x
      BY <1>2 DEF ToSet
    <3>2. CASE i = 1
      BY <2>2, <3>1, <3>2
    <3>3. CASE i # 1
      <4>1. i - 1 \in 1 .. Len(t) /\ t[i - 1] = x
        BY <2>1, <2>2, <3>1, <3>3
      <4> QED
        BY <2>3, <4>1 DEF ToSet
    <3> QED
      BY <3>2, <3>3
  <2>5. ASSUME NEW x \in ToSet(t) \cup {h} PROVE x \in ToSet(s)
    <3>1. CASE x = h
      BY <1>2, <2>2, <3>1 DEF ToSet
    <3>2. CASE x \in ToSet(t)
      <4>1. PICK i \in 1 .. Len(t) : t[i] = x
        BY <2>3, <3>2 DEF ToSet
      <4>2. i + 1 \in DOMAIN s /\ s[i + 1] = x
        BY <1>2, <2>1, <2>2, <4>1
      <4> QED
        BY <4>2 DEF ToSet
    <3> QED
      BY <3>1, <3>2
  <2> QED
    BY <2>1, <2>4, <2>5 DEF t, h
<1> QED
  BY <1>1, <1>3, <1>4 DEF a

LEMMA RemovedIsASeq ==
    ASSUME NEW s \in Seq(Nat), NEW i \in DOMAIN s
    PROVE  RemoveAt(s, i) \in Seq(Nat)
<1>1. DOMAIN s = 1 .. Len(s) /\ Len(s) \in Nat /\ \A j \in 1 .. Len(s) : s[j] \in Nat
  BY LenProperties, ElementOfSeq
<1>2. SubSeq(s, 1, i - 1) \in Seq(Nat)
  BY <1>1, SubSeqProperties
<1>3. SubSeq(s, i + 1, Len(s)) \in Seq(Nat)
  BY <1>1, SubSeqProperties
<1> QED
  BY <1>2, <1>3, ConcatProperties, Zenon DEF RemoveAt

Stages == {"rest", "append", "evict", "pop", "drop", "rebuild", "assign"}
Handlers == [at : Stages, id : Nat, seen : Seq(Nat)]

ModelsTyped ==
    models \in [loaded : SUBSET Nat, order : Seq(Nat), made : Nat, lost : SUBSET Nat,
                by : [Visitors -> Handlers]]

ModelsInv == ModelsTyped /\ CacheAccounted

LEMMA ModelsStart == ModelsInit => ModelsInv
  BY DEF ModelsInit, ModelsInv, ModelsTyped, CacheAccounted, AtRest, Handlers, Stages

LEMMA ModelFields ==
    ASSUME ModelsTyped
    PROVE  /\ models.loaded \in SUBSET Nat /\ models.order \in Seq(Nat) /\ models.made \in Nat
           /\ models.lost \in SUBSET Nat /\ models.by \in [Visitors -> Handlers]
  BY DEF ModelsTyped

(* What a step of v must do to keep the loaded models accounted for.         *)
LEMMA Accounted ==
    ASSUME ModelsInv, NEW v \in Visitors, ModelsTyped',
           \A w \in Visitors \ {v} : models'.by[w] = models.by[w],
           \A id \in models'.loaded :
              \/ id \in ToSet(models'.order) \cup models'.lost
              \/ models'.by[v].at \in {"append", "drop"} /\ models'.by[v].id = id
              \/ /\ id \in models.loaded
                 /\ id \notin ToSet(models.order) \cup models.lost
                 /\ models.by[v].at \in {"append", "drop"} => models.by[v].id # id
    PROVE  ModelsInv'
<1> SUFFICES ASSUME NEW id \in models'.loaded
             PROVE  \/ id \in ToSet(models'.order) \cup models'.lost
                    \/ \E w \in Visitors : models'.by[w].at \in {"append", "drop"} /\ models'.by[w].id = id
  BY DEF ModelsInv, CacheAccounted, Its
<1>1. CASE /\ id \in models.loaded
           /\ id \notin ToSet(models.order) \cup models.lost
           /\ models.by[v].at \in {"append", "drop"} => models.by[v].id # id
  <2>1. PICK w \in Visitors : models.by[w].at \in {"append", "drop"} /\ models.by[w].id = id
    BY <1>1 DEF ModelsInv, CacheAccounted, Its
  <2> QED
    BY <1>1, <2>1
<1> QED
  BY <1>1

LEMMA Continued ==
    ASSUME ModelsTyped, NEW v \in Visitors, NEW at \in Stages, NEW id \in Nat, NEW seen \in Seq(Nat)
    PROVE  /\ Continue(v, at, id, seen) = [models EXCEPT !.by[v] = [at |-> at, id |-> id, seen |-> seen]]
           /\ [at |-> at, id |-> id, seen |-> seen] \in Handlers
  BY DEF Continue, Handlers

LEMMA ModelsStep == ModelsInv /\ [ModelsNext]_models => ModelsInv'
<1> SUFFICES ASSUME ModelsInv, [ModelsNext]_models PROVE ModelsInv'
  OBVIOUS
<1>1. /\ ModelsTyped /\ models.loaded \in SUBSET Nat /\ models.order \in Seq(Nat) /\ models.made \in Nat
      /\ models.lost \in SUBSET Nat /\ models.by \in [Visitors -> Handlers] /\ << >> \in Seq(Nat)
  BY ModelFields DEF ModelsInv
<1>2. CASE UNCHANGED models
  BY <1>2 DEF ModelsInv, ModelsTyped, CacheAccounted, Its
<1>3. ASSUME NEW v \in Visitors, LoadModel(v) PROVE ModelsInv'
  <2> DEFINE n == models.made + 1
             b == [at |-> "append", id |-> n, seen |-> << >>]
  <2>1. n \in Nat /\ b \in Handlers /\ b.at = "append" /\ b.id = n
    BY <1>1 DEF Handlers, Stages
  <2>2. models' = [[[models EXCEPT !.by[v] = b] EXCEPT !.loaded = models.loaded \cup {n}] EXCEPT !.made = n]
    BY <1>1, <1>3 DEF LoadModel, Continue, ModelsTyped
  <2>3. Doing(v, "rest")
    BY <1>3 DEF LoadModel
  <2> HIDE DEF n, b
  <2>4. /\ ModelsTyped' /\ models'.loaded = models.loaded \cup {n} /\ models'.by[v] = b
        /\ models'.order = models.order /\ models'.lost = models.lost
        /\ \A w \in Visitors \ {v} : models'.by[w] = models.by[w]
    BY <1>1, <2>1, <2>2 DEF ModelsTyped
  <2> QED
    BY <2>1, <2>4, <2>3, Accounted DEF Doing
<1>4. ASSUME NEW v \in Visitors, AppendModel(v) PROVE ModelsInv'
  <2> DEFINE o == Append(models.order, Its(v))
             b == [at |-> "evict", id |-> 0, seen |-> << >>]
  <2>1. Its(v) \in Nat /\ b \in Handlers /\ b.at = "evict"
    BY <1>1 DEF Handlers, Stages, Its
  <2>2. o \in Seq(Nat) /\ ToSet(o) = ToSet(models.order) \cup {Its(v)}
    BY <1>1, <2>1, IdsOf
  <2>3. models' = [[models EXCEPT !.by[v] = b] EXCEPT !.order = o]
    BY <1>1, <1>4 DEF AppendModel, Continue, ModelsTyped
  <2> HIDE DEF o, b
  <2>4. /\ ModelsTyped' /\ models'.loaded = models.loaded /\ models'.by[v] = b
        /\ models'.order = o /\ models'.lost = models.lost
        /\ \A w \in Visitors \ {v} : models'.by[w] = models.by[w]
    BY <1>1, <2>1, <2>2, <2>3 DEF ModelsTyped
  <2> QED
    BY <2>1, <2>2, <2>4, Accounted DEF Its
<1>5. ASSUME NEW v \in Visitors, CacheIsFull(v) PROVE ModelsInv'
  <2>1. PICK b \in Handlers : models' = [models EXCEPT !.by[v] = b] /\ b.at \in {"pop", "rest"}
    <3>1. [at |-> "pop", id |-> 0, seen |-> << >>] \in Handlers /\ AtRest \in Handlers /\ AtRest.at = "rest"
      BY <1>1 DEF Handlers, Stages, AtRest
    <3> QED
      BY <1>5, <3>1 DEF CacheIsFull, Continue
  <2>2. models.by[v].at = "evict"
    BY <1>5 DEF CacheIsFull, Doing
  <2>3. /\ ModelsTyped' /\ models'.loaded = models.loaded /\ models'.by[v] = b
        /\ models'.order = models.order /\ models'.lost = models.lost
        /\ \A w \in Visitors \ {v} : models'.by[w] = models.by[w]
    BY <1>1, <2>1 DEF ModelsTyped
  <2> QED
    BY <2>1, <2>2, <2>3, Accounted
<1>6. ASSUME NEW v \in Visitors, PopOldest(v) PROVE ModelsInv'
  <2>1. models.by[v].at = "pop"
    BY <1>6 DEF PopOldest, Doing
  <2>2. CASE models.order = << >>
    <3>1. AtRest \in Handlers /\ models' = [models EXCEPT !.by[v] = AtRest]
      BY <1>1, <1>6, <2>2 DEF PopOldest, Handlers, Stages, AtRest
    <3>2. /\ ModelsTyped' /\ models'.loaded = models.loaded
          /\ models'.order = models.order /\ models'.lost = models.lost
          /\ \A w \in Visitors \ {v} : models'.by[w] = models.by[w]
      BY <1>1, <3>1 DEF ModelsTyped
    <3> QED
      BY <2>1, <3>2, Accounted
  <2>3. CASE models.order # << >>
    <3> DEFINE h == Head(models.order)
               t == Tail(models.order)
               b == [at |-> "drop", id |-> h, seen |-> << >>]
    <3>1. h \in Nat /\ t \in Seq(Nat) /\ ToSet(models.order) = ToSet(t) \cup {h}
      BY <1>1, <2>3, IdsOf
    <3>2. models' = [[models EXCEPT !.by[v] = b] EXCEPT !.order = t]
      BY <1>1, <1>6, <2>3 DEF PopOldest, Continue, ModelsTyped
    <3> HIDE DEF h, t
    <3>3. b \in Handlers /\ b.at = "drop" /\ b.id = h
      BY <1>1, <3>1 DEF Handlers, Stages
    <3> HIDE DEF b
    <3>4. /\ ModelsTyped' /\ models'.loaded = models.loaded /\ models'.by[v] = b
          /\ models'.order = t /\ models'.lost = models.lost
          /\ \A w \in Visitors \ {v} : models'.by[w] = models.by[w]
      BY <1>1, <3>1, <3>2, <3>3 DEF ModelsTyped
    <3>5. \A id \in ToSet(models.order) : id \in ToSet(t) \/ id = h
      BY <3>1
    <3> QED
      BY <2>1, <3>3, <3>4, <3>5, Accounted
  <2> QED
    BY <2>2, <2>3
<1>7. ASSUME NEW v \in Visitors, DropOldest(v) PROVE ModelsInv'
  <2> DEFINE b == [at |-> "evict", id |-> 0, seen |-> << >>]
  <2>1. b \in Handlers /\ models.by[v].at = "drop"
    BY <1>1, <1>7 DEF Handlers, Stages, DropOldest, Doing
  <2>2. models' = [[models EXCEPT !.by[v] = b] EXCEPT !.loaded = models.loaded \ {Its(v)}]
    BY <1>1, <1>7 DEF DropOldest, Continue, ModelsTyped
  <2> HIDE DEF b
  <2>3. /\ ModelsTyped' /\ models'.loaded = models.loaded \ {Its(v)}
        /\ models'.order = models.order /\ models'.lost = models.lost
        /\ \A w \in Visitors \ {v} : models'.by[w] = models.by[w]
    BY <1>1, <2>1, <2>2 DEF ModelsTyped
  <2> QED
    BY <2>1, <2>3, Accounted DEF Its
<1>8. ASSUME NEW v \in Visitors, UnloadModel(v) PROVE ModelsInv'
  <2>1. PICK id \in models.loaded :
           models' = [Continue(v, "rebuild", id, << >>) EXCEPT !.loaded = @ \ {id}]
    BY <1>8 DEF UnloadModel
  <2> DEFINE b == [at |-> "rebuild", id |-> id, seen |-> << >>]
  <2>2. b \in Handlers /\ models.by[v].at = "rest"
    BY <1>1, <1>8 DEF Handlers, Stages, UnloadModel, Doing
  <2>3. models' = [[models EXCEPT !.by[v] = b] EXCEPT !.loaded = models.loaded \ {id}]
    BY <1>1, <2>1 DEF Continue, ModelsTyped
  <2> HIDE DEF b
  <2>4. /\ ModelsTyped' /\ models'.loaded = models.loaded \ {id}
        /\ models'.order = models.order /\ models'.lost = models.lost
        /\ \A w \in Visitors \ {v} : models'.by[w] = models.by[w]
    BY <1>1, <2>2, <2>3 DEF ModelsTyped
  <2> QED
    BY <2>2, <2>4, Accounted
<1>9. ASSUME NEW v \in Visitors, FilterOrder(v) PROVE ModelsInv'
  <2>1. PICK seen \in Seq(Nat) : models' = Continue(v, "assign", Its(v), seen)
    <3>1. \A i \in DOMAIN models.order : RemoveAt(models.order, i) \in Seq(Nat)
      BY <1>1, RemovedIsASeq
    <3> QED
      BY <1>1, <1>9, <3>1 DEF FilterOrder
  <2> DEFINE b == [at |-> "assign", id |-> Its(v), seen |-> seen]
  <2>2. b \in Handlers /\ models.by[v].at = "rebuild" /\ b.at = "assign"
    BY <1>1, <1>9 DEF Handlers, Stages, FilterOrder, Doing, Its
  <2>3. models' = [models EXCEPT !.by[v] = b]
    BY <2>1 DEF Continue
  <2> HIDE DEF b
  <2>4. /\ ModelsTyped' /\ models'.loaded = models.loaded
        /\ models'.order = models.order /\ models'.lost = models.lost
        /\ \A w \in Visitors \ {v} : models'.by[w] = models.by[w]
    BY <1>1, <2>2, <2>3 DEF ModelsTyped
  <2> QED
    BY <2>2, <2>4, Accounted
<1>10. ASSUME NEW v \in Visitors, AssignOrder(v) PROVE ModelsInv'
  <2> DEFINE seen == models.by[v].seen
             b == [at |-> "rest", id |-> 0, seen |-> << >>]
             l == models.lost \cup (ToSet(models.order) \ ToSet(seen))
  <2>1. seen \in Seq(Nat) /\ b \in Handlers /\ models.by[v].at = "assign"
    BY <1>1, <1>10 DEF Handlers, Stages, AssignOrder, Doing
  <2>2. models' = [[[models EXCEPT !.by[v] = b] EXCEPT !.order = seen] EXCEPT !.lost = l]
    BY <1>1, <1>10 DEF AssignOrder, Continue, ModelsTyped
  <2>3. l \in SUBSET Nat
    <3>1. ToSet(models.order) \subseteq Nat
      BY <1>1, LenProperties, ElementOfSeq DEF ToSet
    <3> QED
      BY <1>1, <3>1
  <2>4. ToSet(models.order) \cup models.lost \subseteq ToSet(seen) \cup l
    OBVIOUS
  <2> HIDE DEF b, l, seen
  <2>5. /\ ModelsTyped' /\ models'.loaded = models.loaded
        /\ models'.order = seen /\ models'.lost = l
        /\ \A w \in Visitors \ {v} : models'.by[w] = models.by[w]
    BY <1>1, <2>1, <2>2, <2>3 DEF ModelsTyped
  <2> QED
    BY <2>1, <2>4, <2>5, Accounted
<1> QED
  BY <1>2, <1>3, <1>4, <1>5, <1>6, <1>7, <1>8, <1>9, <1>10 DEF ModelsNext

(* Every loaded model is in the order of eviction or in the hands of a       *)
(* request that will put it there or drop it; only one that was appended     *)
(* while another was unloaded is forgotten (model_cache.py).                 *)
THEOREM CacheAccountedHolds == PlayRoomSpec => []CacheAccounted
<1>1. ModelsInv => CacheAccounted
  BY DEF ModelsInv
<1> QED
  BY <1>1, ModelsStart, ModelsStep, PTL DEF PlayRoomSpec

-----------------------------------------------------------------------------
(* Games: a legal move continues one, and what is left of one is one.        *)
LEMMA LenOf ==
    \A h \in Seq(PlayCells) : /\ Len(h) \in Nat /\ DOMAIN h = 1 .. Len(h)
                             /\ h = << >> <=> Len(h) = 0
                             /\ \A i \in DOMAIN h : h[i] \in PlayCells
  BY EmptySeq, LenProperties, ElementOfSeq

LEMMA PrefixOf ==
    ASSUME NEW h \in Seq(PlayCells), NEW n \in 0 .. Len(h)
    PROVE  /\ SubSeq(h, 1, n) \in Seq(PlayCells) /\ Len(SubSeq(h, 1, n)) = n
           /\ \A i \in 1 .. n : SubSeq(h, 1, n)[i] = h[i]
<1>1. \A i \in 1 .. n : h[i] \in PlayCells
  BY LenOf
<1>2. n \in Int /\ 1 \in Int /\ n - 1 + 1 = n
  BY LenOf
<1> QED
  BY <1>1, <1>2, SubSeqProperties

LEMMA SamePrefix ==
    ASSUME NEW h \in Seq(PlayCells), NEW g \in Seq(PlayCells), NEW n \in Nat,
           n <= Len(h), n <= Len(g), \A i \in 1 .. n : h[i] = g[i]
    PROVE  SubSeq(h, 1, n) = SubSeq(g, 1, n)
<1> DEFINE a == SubSeq(h, 1, n)
           b == SubSeq(g, 1, n)
<1>1. n \in 0 .. Len(h) /\ n \in 0 .. Len(g)
  BY LenOf
<1>2. /\ a \in Seq(PlayCells) /\ Len(a) = n /\ \A i \in 1 .. n : a[i] = h[i]
  BY <1>1, PrefixOf, Zenon
<1>3. /\ b \in Seq(PlayCells) /\ Len(b) = n /\ \A i \in 1 .. n : b[i] = g[i]
  BY <1>1, PrefixOf, Zenon
<1> HIDE DEF a, b
<1>4. \A i \in 1 .. Len(a) : a[i] = b[i]
  BY <1>2, <1>3
<1>5. a = b
  BY <1>2, <1>3, <1>4, SeqEqual
<1> QED
  BY <1>5, Zenon DEF a, b

LEMMA WholePrefix ==
    ASSUME NEW h \in Seq(PlayCells)
    PROVE  SubSeq(h, 1, Len(h)) = h
<1> DEFINE a == SubSeq(h, 1, Len(h))
<1>1. Len(h) \in 0 .. Len(h)
  BY LenOf
<1>2. /\ a \in Seq(PlayCells) /\ Len(a) = Len(h) /\ \A i \in 1 .. Len(h) : a[i] = h[i]
  BY <1>1, PrefixOf, Zenon
<1> HIDE DEF a
<1>3. a = h
  BY <1>2, SeqEqual
<1> QED
  BY <1>3, Zenon DEF a

LEMMA CellsAreCells == \A h : CellsFor(h) \subseteq PlayCells
  BY RoomOK DEF CellsFor

LEMMA MoveIsGame ==
    ASSUME NEW h \in Seq(PlayCells), IsGame(h), NEW cell \in CellsFor(h)
    PROVE  Append(h, cell) \in Seq(PlayCells) /\ IsGame(Append(h, cell))
<1> DEFINE g == Append(h, cell)
<1>1. cell \in PlayCells
  BY CellsAreCells
<1>2. /\ g \in Seq(PlayCells) /\ Len(g) = Len(h) + 1 /\ g[Len(h) + 1] = cell
      /\ \A i \in 1 .. Len(h) : g[i] = h[i]
  BY <1>1, AppendProperties
<1> HIDE DEF g
<1>3. Len(h) \in Nat /\ DOMAIN g = 1 .. Len(h) + 1 /\ DOMAIN h = 1 .. Len(h)
  BY <1>2, LenOf
<1>4. ASSUME NEW n \in DOMAIN g PROVE g[n] \in CellsFor(SubSeq(g, 1, n - 1))
  <2>1. /\ n - 1 \in Nat /\ n - 1 <= Len(g) /\ n - 1 <= Len(h)
        /\ \A i \in 1 .. n - 1 : g[i] = h[i]
    BY <1>2, <1>3
  <2>2. SubSeq(g, 1, n - 1) = SubSeq(h, 1, n - 1)
    BY <1>2, <2>1, SamePrefix
  <2>3. CASE n = Len(h) + 1
    <3>1. n - 1 = Len(h)
      BY <1>3, <2>3
    <3> QED
      BY <1>2, <2>2, <2>3, <3>1, WholePrefix
  <2>4. CASE n # Len(h) + 1
    <3>1. n \in DOMAIN h /\ g[n] = h[n]
      BY <1>2, <1>3, <2>4
    <3> QED
      BY <2>2, <3>1 DEF IsGame
  <2> QED
    BY <2>3, <2>4
<1>5. IsGame(g)
  BY <1>4 DEF IsGame
<1> QED
  BY <1>2, <1>5, Zenon DEF g

LEMMA UndoIsGame ==
    ASSUME NEW h \in Seq(PlayCells), IsGame(h), h # << >>
    PROVE  Front(h) \in Seq(PlayCells) /\ IsGame(Front(h)) /\ ~WonBy(Front(h))
<1> DEFINE g == SubSeq(h, 1, Len(h) - 1)
<1>1. Len(h) \in Nat \ {0} /\ DOMAIN h = 1 .. Len(h) /\ Len(h) - 1 \in 0 .. Len(h)
  BY LenOf
<1>2. g \in Seq(PlayCells) /\ Len(g) = Len(h) - 1 /\ \A i \in 1 .. Len(h) - 1 : g[i] = h[i]
  BY <1>1, PrefixOf, Zenon
<1>3. h[Len(h)] \in CellsFor(g)
  BY <1>1 DEF IsGame
<1> HIDE DEF g
<1>4. ~WonBy(g)
  BY <1>3 DEF CellsFor
<1>5. ASSUME NEW n \in DOMAIN g PROVE g[n] \in CellsFor(SubSeq(g, 1, n - 1))
  <2>1. /\ n \in DOMAIN h /\ g[n] = h[n] /\ n - 1 \in Nat /\ n - 1 <= Len(g) /\ n - 1 <= Len(h)
        /\ \A i \in 1 .. n - 1 : g[i] = h[i]
    BY <1>1, <1>2, LenOf
  <2>2. SubSeq(g, 1, n - 1) = SubSeq(h, 1, n - 1)
    BY <1>2, <2>1, SamePrefix
  <2> QED
    BY <2>1, <2>2 DEF IsGame
<1>6. IsGame(g)
  BY <1>5 DEF IsGame
<1> QED
  BY <1>2, <1>4, <1>6, Zenon DEF g, Front

-----------------------------------------------------------------------------
(* Sessions. What a request will write is what may be in the row.            *)
Row(r) ==
    \/ r = NoRow
    \/ /\ r \in [moves : Seq(PlayCells), status : {"active", "complete"}]
       /\ IsGame(r.moves) /\ (r.status = "complete" <=> WonBy(r.moves))

SessionInv ==
    /\ session = [row |-> session.row, asks |-> session.asks]
    /\ DOMAIN session.asks = Visitors
    /\ Row(session.row) /\ \A v \in Visitors : Row(session.asks[v])

LEMMA EmptyRow == Row([moves |-> << >>, status |-> "active"])
<1>1. << >> \in Seq(PlayCells) /\ DOMAIN << >> = {}
  OBVIOUS
<1> QED
  BY <1>1, RoomOK DEF Row, IsGame, WonBy

LEMMA MovedRow ==
    ASSUME NEW r, Row(r), r # NoRow, NEW cell \in CellsFor(r.moves)
    PROVE  Row(RowAfterMove(r.moves, cell))
<1> DEFINE next == Append(r.moves, cell)
<1>1. next \in Seq(PlayCells) /\ IsGame(next)
  BY MoveIsGame DEF Row
<1> HIDE DEF next
<1>2. RowAfterMove(r.moves, cell) = [moves |-> next, status |-> IF WonBy(next) THEN "complete" ELSE "active"]
  BY Zenon DEF RowAfterMove, next
<1> QED
  BY <1>1, <1>2 DEF Row

LEMMA UndoneRow ==
    ASSUME NEW r, Row(r), r # NoRow
    PROVE  Row([moves |-> IF r.moves = << >> THEN r.moves ELSE Front(r.moves), status |-> "active"])
<1>1. CASE r.moves = << >>
  BY <1>1, EmptyRow
<1>2. CASE r.moves # << >>
  <2>1. Front(r.moves) \in Seq(PlayCells) /\ IsGame(Front(r.moves)) /\ ~WonBy(Front(r.moves))
    BY <1>2, UndoIsGame DEF Row
  <2> QED
    BY <1>2, <2>1 DEF Row
<1> QED
  BY <1>1, <1>2

LEMMA SessionStarts == SessionInit => SessionInv
  BY DEF SessionInit, SessionInv, Row

LEMMA SessionStep == SessionInv /\ [SessionNext]_session => SessionInv'
<1> SUFFICES ASSUME SessionInv, [SessionNext]_session PROVE SessionInv'
  OBVIOUS
<1>1. CASE UNCHANGED session
  BY <1>1 DEF SessionInv
<1>2. CASE CreateSession \/ ResetSession
  <2> DEFINE r == [moves |-> << >>, status |-> "active"]
  <2>1. session' = [session EXCEPT !.row = r] /\ Row(r)
    BY <1>2, EmptyRow DEF CreateSession, ResetSession
  <2> HIDE DEF r
  <2>2. session' = [row |-> r, asks |-> session.asks]
    BY <2>1 DEF SessionInv
  <2> QED
    BY <2>1, <2>2 DEF SessionInv
<1>3. ASSUME NEW v \in Visitors, NEW r, Row(r), session' = [session EXCEPT !.asks[v] = r]
      PROVE  SessionInv'
  <2>1. session' = [row |-> session.row, asks |-> [session.asks EXCEPT ![v] = r]]
    BY <1>3 DEF SessionInv
  <2> QED
    BY <1>3, <2>1 DEF SessionInv
<1>4. ASSUME NEW v \in Visitors, ReadForMove(v) PROVE SessionInv'
  BY <1>3, <1>4, MovedRow DEF ReadForMove, SessionInv
<1>5. ASSUME NEW v \in Visitors, ReadForUndo(v) PROVE SessionInv'
  BY <1>3, <1>5, UndoneRow DEF ReadForUndo, SessionInv
<1>6. ASSUME NEW v \in Visitors, UpdateSession(v) PROVE SessionInv'
  <2>1. session' = [row |-> session.asks[v], asks |-> [session.asks EXCEPT ![v] = NoRow]]
    BY <1>6 DEF UpdateSession, SessionInv
  <2> QED
    BY <2>1 DEF SessionInv, Row
<1> QED
  BY <1>1, <1>2, <1>4, <1>5, <1>6 DEF SessionNext

LEMMA SessionsShowGames == SessionInv => SessionIsAGame
  BY DEF SessionInv, SessionIsAGame, Row

-----------------------------------------------------------------------------
(* A match.                                                                  *)
Events == [type : {"match_start", "move", "match_result", "match_error"},
           about : PlayCells \cup {"sides", "winner", "other", "nobody", "error"}]

MatchTyped ==
    match \in [thread : {"none", "playing", "finishing", "gone"}, moves : Seq(PlayCells), events : Seq(Events),
               verdict : Events, status : {"none", "running", "complete", "failed"}, result : Events,
               sent : Nat, batch : Seq(Nat), got : Seq(Nat)]

(* The start, the moves, and what was announced.                             *)
Told ==
    LET n == Len(match.moves)
        m == Len(match.events)
    IN  /\ IsGame(match.moves)
        /\ match.thread = "none" => m = 0 /\ n = 0
        /\ match.thread = "playing" => m = n + 1
        /\ \A i \in 1 .. n : m >= i + 1 /\ match.events[i + 1] = MoveEvent(match.moves[i])
        /\ match.thread \in {"none", "playing"} => match.verdict = Undecided
        /\ match.thread \in {"finishing", "gone"} =>
              /\ m \in {n + 2, n + 3} /\ match.events[m] = match.verdict
              /\ match.verdict.type = (IF match.verdict = MatchError THEN "match_error" ELSE "match_result")
              /\ m = n + 3 => match.verdict = MatchError /\ match.events[n + 2].type = "match_result"
        /\ match.status = "complete" => match.thread = "gone" /\ match.result = match.verdict

(* The spectator is behind, and gets what is next.                           *)
Behind(sent, batch, got, m) ==
    /\ sent <= m
    /\ \A i, j \in DOMAIN got : i < j => got[i] < got[j]
    /\ \A i, j \in DOMAIN batch : i < j => batch[i] < batch[j]
    /\ \A i \in DOMAIN batch : batch[i] <= m
    /\ \A i \in DOMAIN got : got[i] <= m
    /\ batch = << >> => \A i \in DOMAIN got : got[i] <= sent
    /\ \A i \in DOMAIN got : \A j \in DOMAIN batch : got[i] < batch[j]

Seen == Behind(match.sent, match.batch, match.got, Len(match.events))

MatchInv == MatchTyped /\ Told /\ Seen

LEMMA EventsTyped ==
    /\ Undecided \in Events /\ MatchError \in Events /\ \A c \in PlayCells : MoveEvent(c) \in Events
    /\ \A w \in {"winner", "other", "nobody"} : Result(w) \in Events /\ Result(w).type = "match_result"
                                               /\ Result(w) # MatchError
    /\ MatchError.type = "match_error"
  BY DEF Undecided, MatchError, MoveEvent, Result, Events

LEMMA MatchStarts == MatchInit => MatchInv
<1> SUFFICES ASSUME MatchInit PROVE MatchInv
  OBVIOUS
<1>1. /\ match.thread = "none" /\ match.moves = << >> /\ match.events = << >> /\ match.verdict = Undecided
      /\ match.status = "none" /\ match.sent = 0 /\ match.batch = << >> /\ match.got = << >>
  BY DEF MatchInit
<1>2. MatchTyped
  BY EventsTyped DEF MatchInit, MatchTyped
<1>3. Len(<< >>) = 0 /\ DOMAIN << >> = {}
  OBVIOUS
<1>4. Told
  BY <1>1, <1>3 DEF Told, IsGame
<1>5. Seen
  BY <1>1, <1>3 DEF Seen, Behind
<1> QED
  BY <1>2, <1>4, <1>5 DEF MatchInv

LEMMA MatchLens ==
    ASSUME MatchTyped
    PROVE  /\ Len(match.moves) \in Nat /\ Len(match.events) \in Nat
           /\ DOMAIN match.moves = 1 .. Len(match.moves) /\ DOMAIN match.events = 1 .. Len(match.events)
           /\ DOMAIN match.batch = 1 .. Len(match.batch) /\ DOMAIN match.got = 1 .. Len(match.got)
           /\ Len(match.batch) \in Nat /\ Len(match.got) \in Nat
           /\ match.batch = << >> <=> Len(match.batch) = 0
           /\ \A i \in DOMAIN match.batch : match.batch[i] \in Nat
           /\ \A i \in DOMAIN match.got : match.got[i] \in Nat
           /\ \A i \in DOMAIN match.events : match.events[i] \in Events
<1>1. /\ match.moves \in Seq(PlayCells) /\ match.events \in Seq(Events)
      /\ match.batch \in Seq(Nat) /\ match.got \in Seq(Nat)
  BY DEF MatchTyped
<1> QED
  BY <1>1, EmptySeq, LenProperties, ElementOfSeq

LEMMA EventAppended ==
    ASSUME MatchTyped, NEW e \in Events
    PROVE  /\ Append(match.events, e) \in Seq(Events)
           /\ Len(Append(match.events, e)) = Len(match.events) + 1
           /\ Append(match.events, e)[Len(match.events) + 1] = e
           /\ \A i \in 1 .. Len(match.events) : Append(match.events, e)[i] = match.events[i]
<1>1. match.events \in Seq(Events)
  BY DEF MatchTyped
<1> QED
  BY <1>1, AppendProperties

(* More events take nothing from the spectator.                              *)
LEMMA MoreEvents ==
    ASSUME MatchTyped, MatchTyped', Seen, Len(match'.events) >= Len(match.events),
           match'.sent = match.sent, match'.batch = match.batch, match'.got = match.got
    PROVE  Seen'
<1>1. /\ Len(match.events) \in Nat /\ Len(match'.events) \in Nat /\ match.sent \in Nat
      /\ \A i \in DOMAIN match.batch : match.batch[i] \in Nat
      /\ \A i \in DOMAIN match.got : match.got[i] \in Nat
  BY MatchLens DEF MatchTyped
<1>2. Len(match'.events) \in Nat
  <2>1. match'.events \in Seq(Events)
    BY DEF MatchTyped
  <2> QED
    BY <2>1, LenProperties
<1>3. \A x \in Nat : x <= Len(match.events) => x <= Len(match'.events)
  BY <1>1, <1>2
<1>4. /\ match.sent <= Len(match.events)
      /\ \A i \in DOMAIN match.batch : match.batch[i] <= Len(match.events)
      /\ \A i \in DOMAIN match.got : match.got[i] <= Len(match.events)
  BY DEF Seen, Behind
<1>5. /\ match.sent <= Len(match'.events)
      /\ \A i \in DOMAIN match.batch : match.batch[i] <= Len(match'.events)
      /\ \A i \in DOMAIN match.got : match.got[i] <= Len(match'.events)
  BY <1>1, <1>3, <1>4
<1>6. /\ \A i, j \in DOMAIN match.got : i < j => match.got[i] < match.got[j]
      /\ \A i, j \in DOMAIN match.batch : i < j => match.batch[i] < match.batch[j]
      /\ match.batch = << >> => \A i \in DOMAIN match.got : match.got[i] <= match.sent
      /\ \A i \in DOMAIN match.got : \A j \in DOMAIN match.batch : match.got[i] < match.batch[j]
  BY DEF Seen, Behind
<1> QED
  BY <1>5, <1>6, Zenon DEF Seen, Behind

(* The thread announces how the match ended.                                 *)
LEMMA AnnounceStep ==
    ASSUME MatchInv, NEW e \in Events, match' = Announce(e),
           e.type = (IF e = MatchError THEN "match_error" ELSE "match_result"),
           \/ match.thread = "playing"
           \/ match.thread = "finishing" /\ match.verdict # MatchError /\ e = MatchError,
           match.status # "complete"
    PROVE  MatchInv'
<1> DEFINE t == Append(match.events, e)
           n == Len(match.moves)
           m == Len(match.events)
<1>1. MatchTyped /\ Told /\ Seen /\ n \in Nat /\ m \in Nat
  BY MatchLens DEF MatchInv
<1>2. match' = [[[match EXCEPT !.events = t] EXCEPT !.verdict = e] EXCEPT !.thread = "finishing"]
  BY <1>1 DEF Announce, Emit, MatchTyped
<1>3. t \in Seq(Events) /\ Len(t) = m + 1 /\ t[m + 1] = e /\ \A i \in 1 .. m : t[i] = match.events[i]
  BY <1>1, EventAppended, Zenon
<1> HIDE DEF t
<1>4. /\ MatchTyped' /\ match'.events = t /\ match'.verdict = e /\ match'.thread = "finishing"
      /\ match'.moves = match.moves /\ match'.status = match.status
      /\ match'.sent = match.sent /\ match'.batch = match.batch /\ match'.got = match.got
  BY <1>1, <1>2, <1>3 DEF MatchTyped
<1>5. Seen'
  BY <1>1, <1>3, <1>4, MoreEvents
<1>6. \A i \in 1 .. n : m + 1 >= i + 1 /\ t[i + 1] = MoveEvent(match.moves[i])
  <2> SUFFICES ASSUME NEW i \in 1 .. n PROVE m + 1 >= i + 1 /\ t[i + 1] = MoveEvent(match.moves[i])
    OBVIOUS
  <2>1. m >= i + 1 /\ match.events[i + 1] = MoveEvent(match.moves[i])
    BY <1>1 DEF Told
  <2>2. i + 1 \in 1 .. m
    BY <1>1, <2>1
  <2> QED
    BY <1>1, <1>3, <2>1, <2>2
<1>7. /\ m + 1 \in {n + 2, n + 3}
      /\ m + 1 = n + 3 => e = MatchError /\ t[n + 2].type = "match_result"
  <2>1. CASE match.thread = "playing"
    BY <1>1, <2>1 DEF Told
  <2>2. CASE match.thread = "finishing" /\ match.verdict # MatchError /\ e = MatchError
    <3>1. m = n + 2 /\ match.events[m] = match.verdict /\ match.verdict.type = "match_result"
      BY <1>1, <2>2 DEF Told
    <3>2. t[n + 2] = match.verdict
      BY <1>1, <1>3, <3>1
    <3> QED
      BY <1>1, <2>2, <3>1, <3>2
  <2> QED
    BY <2>1, <2>2
<1>8. Told'
  <2>1. IsGame(match'.moves)
    BY <1>1, <1>4 DEF Told
  <2> QED
    BY <1>3, <1>4, <1>6, <1>7, <2>1 DEF Told
<1> QED
  BY <1>4, <1>5, <1>8 DEF MatchInv

LEMMA StartStep ==
    ASSUME MatchInv, StartMatch
    PROVE  MatchInv'
<1> DEFINE e == [type |-> "match_start", about |-> "sides"]
           t == <<e>>
<1>1. MatchTyped /\ Told /\ Seen /\ match.thread = "none" /\ match.status = match.status
  BY DEF MatchInv, StartMatch
<1>2. e \in Events
  BY DEF Events
<1>3. match' = [[[match EXCEPT !.thread = "playing"] EXCEPT !.status = "running"] EXCEPT !.events = t]
  BY <1>1 DEF StartMatch, MatchTyped
<1>4. t \in Seq(Events) /\ Len(t) = 1
  BY <1>2
<1> HIDE DEF e, t
<1>5. /\ MatchTyped' /\ match'.events = t /\ match'.thread = "playing" /\ match'.status = "running"
      /\ match'.moves = match.moves /\ match'.verdict = match.verdict
      /\ match'.sent = match.sent /\ match'.batch = match.batch /\ match'.got = match.got
  BY <1>1, <1>3, <1>4 DEF MatchTyped
<1>6. Len(match.events) = 0 /\ Len(match.moves) = 0 /\ match.verdict = Undecided /\ IsGame(match.moves)
  BY <1>1 DEF Told
<1>7. Seen'
  BY <1>1, <1>4, <1>5, <1>6, MoreEvents
<1>8. Told'
  BY <1>4, <1>5, <1>6 DEF Told
<1> QED
  BY <1>5, <1>7, <1>8 DEF MatchInv

LEMMA MoveStep ==
    ASSUME MatchInv, NEW cell \in CellsFor(match.moves), MatchMove(cell)
    PROVE  MatchInv'
<1> DEFINE e == MoveEvent(cell)
           t == Append(match.events, e)
           g == Append(match.moves, cell)
           n == Len(match.moves)
           m == Len(match.events)
<1>1. /\ MatchTyped /\ Told /\ Seen /\ n \in Nat /\ m \in Nat /\ match.thread = "playing"
      /\ cell \in PlayCells /\ match.moves \in Seq(PlayCells)
  BY MatchLens, CellsAreCells DEF MatchInv, MatchMove, MatchTyped
<1>2. match' = [[match EXCEPT !.events = t] EXCEPT !.moves = g]
  BY <1>1 DEF MatchMove, Emit, MatchTyped
<1>3. e \in Events
  BY <1>1, EventsTyped
<1> HIDE DEF e
<1>4. t \in Seq(Events) /\ Len(t) = m + 1 /\ t[m + 1] = e /\ \A i \in 1 .. m : t[i] = match.events[i]
  BY <1>1, <1>3, EventAppended, Zenon
<1>5. g \in Seq(PlayCells) /\ IsGame(g)
  BY <1>1, MoveIsGame DEF Told
<1>6. Len(g) = n + 1 /\ g[n + 1] = cell /\ \A i \in 1 .. n : g[i] = match.moves[i]
  BY <1>1, AppendProperties
<1> HIDE DEF t, g
<1>7. /\ MatchTyped' /\ match'.events = t /\ match'.moves = g /\ match'.thread = "playing"
      /\ match'.verdict = match.verdict /\ match'.status = match.status
      /\ match'.sent = match.sent /\ match'.batch = match.batch /\ match'.got = match.got
  BY <1>1, <1>2, <1>4, <1>5 DEF MatchTyped
<1>8. Seen'
  BY <1>1, <1>4, <1>7, MoreEvents
<1>9. m = n + 1 /\ match.verdict = Undecided /\ match.status # "complete"
  BY <1>1 DEF Told
<1>10. \A i \in 1 .. n + 1 : m + 1 >= i + 1 /\ t[i + 1] = MoveEvent(g[i])
  <2> SUFFICES ASSUME NEW i \in 1 .. n + 1 PROVE m + 1 >= i + 1 /\ t[i + 1] = MoveEvent(g[i])
    OBVIOUS
  <2>1. CASE i = n + 1
    BY <1>1, <1>4, <1>6, <1>9, <2>1 DEF e
  <2>2. CASE i # n + 1
    <3>1. i \in 1 .. n /\ i + 1 \in 1 .. m
      BY <1>1, <1>9, <2>2
    <3>2. match.events[i + 1] = MoveEvent(match.moves[i])
      BY <1>1, <3>1 DEF Told
    <3> QED
      BY <1>1, <1>4, <1>6, <3>1, <3>2
  <2> QED
    BY <2>1, <2>2
<1>11. Told'
  BY <1>1, <1>4, <1>5, <1>6, <1>7, <1>9, <1>10 DEF Told
<1> QED
  BY <1>7, <1>8, <1>11 DEF MatchInv

LEMMA EndStep ==
    ASSUME MatchInv, FinishMatch \/ (FinishRaises /\ match.verdict = MatchError)
    PROVE  MatchInv'
<1>1. MatchTyped /\ Told /\ Seen /\ match.thread = "finishing"
  BY DEF MatchInv, FinishMatch, FinishRaises
<1>2. /\ MatchTyped' /\ match'.events = match.events /\ match'.moves = match.moves
      /\ match'.thread = "gone" /\ match'.verdict = match.verdict
      /\ match'.status = "complete" => match'.result = match.verdict
      /\ match'.sent = match.sent /\ match'.batch = match.batch /\ match'.got = match.got
  <2>1. CASE FinishMatch
    BY <1>1, <2>1 DEF FinishMatch, MatchTyped
  <2>2. CASE FinishRaises /\ match.verdict = MatchError
    <3>1. match' = [match EXCEPT !.thread = "gone"]
      BY <2>2 DEF FinishRaises
    <3>2. match.status # "complete"
      BY <1>1 DEF Told
    <3> QED
      BY <1>1, <3>1, <3>2 DEF MatchTyped
  <2> QED
    BY <2>1, <2>2
<1>3. Seen'
  BY <1>1, <1>2 DEF Seen, Behind
<1>4. Told'
  BY <1>1, <1>2 DEF Told
<1> QED
  BY <1>2, <1>3, <1>4 DEF MatchInv

LEMMA RoundStep ==
    ASSUME MatchInv, BeginRound
    PROVE  MatchInv'
<1> DEFINE k == Len(match.events) - match.sent
           b == [i \in 1 .. k |-> match.sent + i]
<1>1. /\ MatchTyped /\ Told /\ Seen /\ match.batch = << >> /\ Len(match.events) \in Nat /\ match.sent \in Nat
      /\ match.sent < Len(match.events)
  BY MatchLens DEF MatchInv, MatchTyped, BeginRound
<1>2. k \in Nat \ {0} /\ match.sent + k = Len(match.events)
  BY <1>1
<1>3. match' = [match EXCEPT !.batch = b]
  BY DEF BeginRound
<1> HIDE DEF k
<1>4. b \in Seq(Nat) /\ DOMAIN b = 1 .. k /\ \A i \in 1 .. k : b[i] = match.sent + i
  BY <1>1, <1>2
<1> HIDE DEF b
<1>5. /\ MatchTyped' /\ match'.batch = b /\ match'.events = match.events /\ match'.moves = match.moves
      /\ match'.thread = match.thread /\ match'.verdict = match.verdict /\ match'.status = match.status
      /\ match'.result = match.result /\ match'.sent = match.sent /\ match'.got = match.got
  BY <1>1, <1>3, <1>4 DEF MatchTyped
<1>6. Told'
  BY <1>1, <1>5 DEF Told
<1>7. \A i \in DOMAIN match.got : match.got[i] \in Nat /\ match.got[i] <= match.sent
  BY <1>1, MatchLens DEF Seen, Behind
<1>8. /\ \A i, j \in DOMAIN b : i < j => b[i] < b[j]
      /\ \A i \in DOMAIN b : b[i] <= Len(match.events)
      /\ \A i \in DOMAIN match.got : \A j \in DOMAIN b : match.got[i] < b[j]
      /\ b # << >>
  <2>1. \A i \in 1 .. k : b[i] > match.sent /\ b[i] <= Len(match.events)
    BY <1>1, <1>2, <1>4
  <2>2. \A i \in DOMAIN match.got : \A j \in DOMAIN b : match.got[i] < b[j]
    BY <1>1, <1>4, <1>7, <2>1
  <2>3. b # << >>
    BY <1>2, <1>4
  <2> QED
    BY <1>1, <1>2, <1>4, <2>1, <2>2, <2>3
<1>9. Seen'
  BY <1>1, <1>5, <1>8 DEF Seen, Behind
<1> QED
  BY <1>5, <1>6, <1>9 DEF MatchInv

NatLen(s) == /\ Len(s) \in Nat /\ DOMAIN s = 1 .. Len(s) /\ (s = << >> <=> Len(s) = 0)
             /\ \A i \in 1 .. Len(s) : s[i] \in Nat

LEMMA NatLens == \A s \in Seq(Nat) : NatLen(s)
  BY EmptySeq, LenProperties, ElementOfSeq DEF NatLen

Rising(s) == \A i, j \in DOMAIN s : i < j => s[i] < s[j]
Before(s, t) == \A i \in DOMAIN s : \A j \in DOMAIN t : s[i] < t[j]

(* The head of a rising sequence goes to the end of one that is before it.   *)
LEMMA HeadGoesOn ==
    ASSUME NEW b \in Seq(Nat), b # << >>, NEW got \in Seq(Nat), NEW m \in Nat,
           Rising(b), Rising(got), Before(got, b), \A i \in DOMAIN b : b[i] <= m
    PROVE  /\ Append(got, Head(b)) \in Seq(Nat) /\ Tail(b) \in Seq(Nat)
           /\ Rising(Append(got, Head(b))) /\ Rising(Tail(b)) /\ Before(Append(got, Head(b)), Tail(b))
           /\ \A i \in DOMAIN Append(got, Head(b)) : Append(got, Head(b))[i] <= m
           /\ \A i \in DOMAIN Tail(b) : Tail(b)[i] <= m
           /\ Len(b) # 1 => Tail(b) # << >>
<1> DEFINE h == Head(b)
           t == Tail(b)
           g == Append(got, h)
           k == Len(got)
           n == Len(b)
<1>1. /\ h \in Nat /\ t \in Seq(Nat) /\ Len(t) = n - 1 /\ \A i \in 1 .. Len(t) : t[i] = b[i + 1]
  BY HeadTailProperties, Zenon
<1>2. h = b[1]
  OBVIOUS
<1> HIDE DEF h
<1>3. g \in Seq(Nat) /\ Len(g) = k + 1 /\ g[k + 1] = h /\ \A i \in 1 .. k : g[i] = got[i]
  BY <1>1, AppendProperties
<1> HIDE DEF g, t
<1>4. NatLen(b) /\ NatLen(got) /\ NatLen(t) /\ NatLen(g)
  BY <1>1, <1>3, NatLens, Zenon
<1>5. n \in Nat \ {0} /\ k \in Nat
  BY <1>4 DEF NatLen
<1> HIDE DEF n, k
<1>6. DOMAIN b = 1 .. n /\ DOMAIN got = 1 .. k /\ DOMAIN t = 1 .. n - 1 /\ DOMAIN g = 1 .. k + 1
  BY <1>1, <1>3, <1>4 DEF NatLen, n, k
<1>7. /\ \A i \in 1 .. n : b[i] \in Nat /\ b[i] <= m
      /\ \A i \in 1 .. k : got[i] \in Nat
  BY <1>4, <1>6 DEF NatLen, n, k
<1>8. /\ \A i, j \in 1 .. n : i < j => b[i] < b[j]
      /\ \A i, j \in 1 .. k : i < j => got[i] < got[j]
      /\ \A i \in 1 .. k : \A j \in 1 .. n : got[i] < b[j]
  BY <1>6 DEF Rising, Before
<1>9. \A i \in 1 .. n - 1 : t[i] = b[i + 1] /\ i + 1 \in 1 .. n
  BY <1>1, <1>5
<1>10. \A i \in 1 .. k : got[i] < h /\ h \in Nat /\ h <= m
  BY <1>2, <1>5, <1>7, <1>8
<1>11. \A i \in 1 .. n - 1 : h < t[i] /\ t[i] \in Nat /\ t[i] <= m
  <2> SUFFICES ASSUME NEW i \in 1 .. n - 1 PROVE h < t[i] /\ t[i] \in Nat /\ t[i] <= m
    OBVIOUS
  <2>1. t[i] = b[i + 1] /\ i + 1 \in 1 .. n /\ 1 \in 1 .. n /\ 1 < i + 1
    BY <1>5, <1>9
  <2> QED
    BY <1>2, <1>7, <1>8, <2>1
<1>12. \A i \in 1 .. k + 1 : g[i] \in Nat /\ g[i] <= h /\ (i # k + 1 => i \in 1 .. k /\ g[i] = got[i])
  <2> SUFFICES ASSUME NEW i \in 1 .. k + 1
               PROVE  g[i] \in Nat /\ g[i] <= h /\ (i # k + 1 => i \in 1 .. k /\ g[i] = got[i])
    OBVIOUS
  <2>1. CASE i = k + 1
    BY <1>1, <1>3, <2>1
  <2>2. CASE i # k + 1
    <3>1. i \in 1 .. k
      BY <1>5, <2>2
    <3>2. g[i] = got[i]
      BY <1>3, <3>1 DEF k
    <3> QED
      BY <1>7, <1>10, <3>1, <3>2
  <2> QED
    BY <2>1, <2>2
<1>13. h <= m
  BY <1>2, <1>5, <1>7
<1>14. Rising(t)
  BY <1>5, <1>6, <1>8, <1>9 DEF Rising
<1>15. Rising(g)
  <2> SUFFICES ASSUME NEW i \in 1 .. k + 1, NEW j \in 1 .. k + 1, i < j PROVE g[i] < g[j]
    BY <1>6 DEF Rising
  <2>1. i \in 1 .. k /\ g[i] = got[i]
    BY <1>5, <1>12
  <2>2. CASE j = k + 1
    BY <1>3, <1>10, <2>1, <2>2 DEF k
  <2>3. CASE j # k + 1
    BY <1>8, <1>12, <2>1, <2>3
  <2> QED
    BY <2>2, <2>3
<1>16. Before(g, t)
  <2> SUFFICES ASSUME NEW i \in 1 .. k + 1, NEW j \in 1 .. n - 1 PROVE g[i] < t[j]
    BY <1>6 DEF Before
  <2> QED
    BY <1>1, <1>11, <1>12
<1>17. \A i \in DOMAIN g : g[i] <= m
  BY <1>1, <1>6, <1>12, <1>13
<1>18. \A i \in DOMAIN t : t[i] <= m
  BY <1>6, <1>11
<1>19. n # 1 => t # << >>
  BY <1>1, <1>4, <1>5 DEF NatLen
<1>20. g \in Seq(Nat) /\ t \in Seq(Nat)
  BY <1>1, <1>3
<1> QED
  BY <1>14, <1>15, <1>16, <1>17, <1>18, <1>19, <1>20, Zenon DEF g, t, h, n

LEMMA SendStep ==
    ASSUME MatchInv, SendEvent
    PROVE  MatchInv'
<1> DEFINE g == Append(match.got, Head(match.batch))
           t == Tail(match.batch)
           m == Len(match.events)
           s == IF Len(match.batch) = 1 THEN m ELSE match.sent
<1>1. /\ MatchTyped /\ Told /\ Seen /\ match.batch # << >> /\ match.batch \in Seq(Nat)
      /\ match.got \in Seq(Nat) /\ m \in Nat /\ match.sent \in Nat
  BY MatchLens DEF MatchInv, MatchTyped, SendEvent
<1>2. /\ Rising(match.batch) /\ Rising(match.got) /\ Before(match.got, match.batch)
      /\ \A i \in DOMAIN match.batch : match.batch[i] <= m
  BY <1>1 DEF Seen, Behind, Rising, Before
<1>3. /\ g \in Seq(Nat) /\ t \in Seq(Nat) /\ Rising(g) /\ Rising(t) /\ Before(g, t)
      /\ \A i \in DOMAIN g : g[i] <= m
      /\ \A j \in DOMAIN t : t[j] <= m
      /\ Len(match.batch) # 1 => t # << >>
  <2> HIDE DEF m
  <2>1. /\ g \in Seq(Nat) /\ t \in Seq(Nat) /\ Rising(g) /\ Rising(t) /\ Before(g, t)
        /\ Len(match.batch) # 1 => t # << >>
    BY <1>1, <1>2, HeadGoesOn
  <2>2. \A i \in DOMAIN g : g[i] <= m
    BY <1>1, <1>2, HeadGoesOn
  <2>3. \A i \in DOMAIN t : t[i] <= m
    BY <1>1, <1>2, HeadGoesOn
  <2> QED
    BY <2>1, <2>2, <2>3
<1>4. match' = [[[match EXCEPT !.got = g] EXCEPT !.batch = t] EXCEPT !.sent = s]
  BY <1>1 DEF SendEvent, MatchTyped
<1>5. s \in Nat /\ s <= m /\ (t = << >> => s = m)
  <2>1. match.sent <= m
    BY <1>1 DEF Seen, Behind
  <2>2. Len(match.batch) # 1 => t # << >>
    BY <1>3
  <2> HIDE DEF m, t
  <2> QED
    BY <1>1, <2>1, <2>2
<1> HIDE DEF t, g, s
<1>6. /\ MatchTyped' /\ match'.got = g /\ match'.batch = t /\ match'.sent = s
      /\ match'.events = match.events /\ match'.moves = match.moves
      /\ match'.thread = match.thread /\ match'.verdict = match.verdict /\ match'.status = match.status
      /\ match'.result = match.result
  BY <1>1, <1>3, <1>4, <1>5 DEF MatchTyped
<1>7. Told'
  BY <1>1, <1>6 DEF Told
<1>8. Seen'
  <2>1. /\ \A i, j \in DOMAIN g : i < j => g[i] < g[j]
        /\ \A i, j \in DOMAIN t : i < j => t[i] < t[j]
        /\ \A i \in DOMAIN g : \A j \in DOMAIN t : g[i] < t[j]
    BY <1>3 DEF Rising, Before
  <2>2. t = << >> => \A i \in DOMAIN g : g[i] <= s
    BY <1>3, <1>5
  <2>3. Behind(s, t, g, m)
    BY <1>3, <1>5, <2>1, <2>2, Zenon DEF Behind
  <2>4. m = Len(match'.events) /\ match'.sent = s /\ match'.batch = t /\ match'.got = g
    BY <1>6
  <2> HIDE DEF m
  <2> QED
    BY <2>3, <2>4 DEF Seen
<1> QED
  BY <1>6, <1>7, <1>8 DEF MatchInv

LEMMA MatchStep == MatchInv /\ [MatchNext]_match => MatchInv'
<1> SUFFICES ASSUME MatchInv, [MatchNext]_match PROVE MatchInv'
  OBVIOUS
<1>1. CASE UNCHANGED match
  BY <1>1 DEF MatchInv, MatchTyped, Told, Seen
<1>2. match.thread = "playing" \/ match.thread = "finishing" => match.status # "complete"
  BY DEF MatchInv, Told
<1>3. CASE Forfeit
  BY <1>2, <1>3, AnnounceStep, EventsTyped DEF Forfeit
<1>4. CASE MatchEnds
  BY <1>2, <1>4, AnnounceStep, EventsTyped DEF MatchEnds
<1>5. CASE MatchRaises
  BY <1>2, <1>5, AnnounceStep, EventsTyped DEF MatchRaises
<1>6. CASE FinishRaises
  <2>1. CASE match.verdict = MatchError
    BY <1>6, <2>1, EndStep
  <2>2. CASE match.verdict # MatchError
    BY <1>2, <1>6, <2>2, AnnounceStep, EventsTyped DEF FinishRaises
  <2> QED
    BY <2>1, <2>2
<1>7. CASE FinishMatch
  BY <1>7, EndStep
<1>8. CASE StartMatch
  BY <1>8, StartStep
<1>9. CASE \E cell \in CellsFor(match.moves) : MatchMove(cell)
  BY <1>9, MoveStep
<1>10. CASE BeginRound
  BY <1>10, RoundStep
<1>11. CASE SendEvent
  BY <1>11, SendStep
<1> QED
  BY <1>1, <1>3, <1>4, <1>5, <1>6, <1>7, <1>8, <1>9, <1>10, <1>11 DEF MatchNext

(* What follows the moves in the list of events.                             *)
LEMMA AfterMoves ==
    ASSUME MatchInv
    PROVE  LET n == Len(match.moves)
               m == Len(match.events)
               after == SubSeq(match.events, n + 2, m)
           IN  /\ DOMAIN after = 1 .. Len(after) /\ Len(after) = (IF m = 0 THEN 0 ELSE m - n - 1)
               /\ \A i \in DOMAIN after : after[i] = match.events[n + 1 + i]
<1> DEFINE n == Len(match.moves)
           m == Len(match.events)
           after == SubSeq(match.events, n + 2, m)
<1>1. /\ n \in Nat /\ m \in Nat /\ \A i \in 1 .. m : match.events[i] \in Events
      /\ m = 0 => n = 0
      /\ m # 0 => m >= n + 1
  <2>1. MatchTyped /\ Told
    BY DEF MatchInv
  <2>2. match.thread \in {"none", "playing", "finishing", "gone"}
    BY <2>1 DEF MatchTyped
  <2> QED
    BY <2>1, <2>2, MatchLens DEF Told
<1> HIDE DEF n, m
<1>2. /\ after \in Seq(Events) /\ Len(after) = (IF n + 2 <= m THEN m - (n + 2) + 1 ELSE 0)
      /\ \A i \in 1 .. m - (n + 2) + 1 : after[i] = match.events[n + 2 + i - 1]
  <2> DEFINE from == n + 2
  <2>1. from \in Int /\ m \in Int /\ \A i \in from .. m : match.events[i] \in Events
    BY <1>1
  <2>2. after = SubSeq(match.events, from, m)
    BY Zenon DEF m, n
  <2> HIDE DEF from, after
  <2>3. /\ SubSeq(match.events, from, m) \in Seq(Events)
        /\ Len(SubSeq(match.events, from, m)) = IF from <= m THEN m - from + 1 ELSE 0
        /\ \A i \in 1 .. m - from + 1 : SubSeq(match.events, from, m)[i] = match.events[from + i - 1]
    BY <2>1, SubSeqProperties
  <2> QED
    BY <2>2, <2>3 DEF from
<1>3. DOMAIN after = 1 .. Len(after)
  BY <1>2, LenProperties
<1> HIDE DEF after
<1>4. Len(after) = (IF m = 0 THEN 0 ELSE m - n - 1)
  BY <1>1, <1>2
<1>5. ASSUME NEW i \in DOMAIN after PROVE after[i] = match.events[n + 1 + i]
  <2>1. i \in 1 .. Len(after)
    BY <1>3
  <2>2. i \in 1 .. m - (n + 2) + 1 /\ n + 2 + i - 1 = n + 1 + i
    BY <1>1, <1>2, <2>1
  <2> QED
    BY <1>2, <2>2
<1> QED
  BY <1>3, <1>4, <1>5, Zenon DEF after, n, m

LEMMA MatchesAreTold == MatchInv => MatchIsTold
<1> SUFFICES ASSUME MatchInv PROVE MatchIsTold
  OBVIOUS
<1> DEFINE n == Len(match.moves)
           m == Len(match.events)
           after == SubSeq(match.events, n + 2, Len(match.events))
<1>1. MatchTyped /\ Told /\ Seen /\ n \in Nat /\ m \in Nat
      /\ match.thread \in {"none", "playing", "finishing", "gone"}
  BY MatchLens DEF MatchInv, MatchTyped
<1>2. /\ DOMAIN after = 1 .. Len(after) /\ Len(after) = (IF m = 0 THEN 0 ELSE m - n - 1)
      /\ \A i \in DOMAIN after : after[i] = match.events[n + 1 + i]
  BY AfterMoves, Zenon
<1>3. /\ match.thread \in {"none", "playing"} => m = 0 \/ m = n + 1
      /\ match.thread \in {"finishing", "gone"} =>
            /\ m \in {n + 2, n + 3} /\ match.events[m] = match.verdict
            /\ match.verdict.type = (IF match.verdict = MatchError THEN "match_error" ELSE "match_result")
            /\ m = n + 3 => match.verdict = MatchError /\ match.events[n + 2].type = "match_result"
  BY <1>1 DEF Told
<1> HIDE DEF after, n, m
<1>4. Len(after) <= 2
  BY <1>1, <1>2, <1>3
<1>5. ASSUME NEW i \in DOMAIN after
      PROVE  after[i].type = (IF i = Len(after) /\ match.verdict = MatchError THEN "match_error" ELSE "match_result")
  <2>1. match.thread \in {"finishing", "gone"}
    BY <1>1, <1>2, <1>3
  <2>2. /\ m \in {n + 2, n + 3} /\ match.events[m] = match.verdict
        /\ match.verdict.type = (IF match.verdict = MatchError THEN "match_error" ELSE "match_result")
        /\ m = n + 3 => match.verdict = MatchError /\ match.events[n + 2].type = "match_result"
    BY <2>1, <1>3
  <2>3. CASE i = Len(after)
    <3>1. after[i] = match.verdict
      BY <1>1, <1>2, <2>2, <2>3
    <3> QED
      BY <2>2, <2>3, <3>1
  <2>4. CASE i # Len(after)
    <3>1. i = 1 /\ m = n + 3
      BY <1>1, <1>2, <2>2, <2>4
    <3> QED
      BY <1>1, <1>2, <2>2, <2>4, <3>1
  <2> QED
    BY <2>3, <2>4
<1>6. match.status = "complete" => Last(match.events) = match.result
  BY <1>1 DEF Told, Last, n, m
<1>7. /\ IsGame(match.moves) /\ \A i \in 1 .. n : match.events[i + 1] = MoveEvent(match.moves[i])
      /\ \A i, j \in DOMAIN match.got : i < j => match.got[i] < match.got[j]
  BY <1>1 DEF Told, Seen, Behind, n, m
<1> QED
  BY <1>4, <1>5, <1>6, <1>7, Zenon DEF MatchIsTold, after, n, m

(* However requests overlap, a session holds a game and says so when it is   *)
(* over; the events of a match are its moves and then how it ended, and a    *)
(* spectator gets them in their order (play.py, arena_service.py).           *)
THEOREM ShowsGamesHolds == PlayRoomSpec => []ShowsGames
<1>1. SessionInv /\ MatchInv => ShowsGames
  BY SessionsShowGames, MatchesAreTold DEF ShowsGames
<1> QED
  BY <1>1, SessionStarts, SessionStep, MatchStarts, MatchStep, PTL DEF PlayRoomSpec
=============================================================================
