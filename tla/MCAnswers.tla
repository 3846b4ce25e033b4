----------------------------- MODULE MCAnswers -----------------------------
(* TLC instance of what must eventually happen: the inference channel and    *)
(* the process that owns a replay buffer answer their requests, and a        *)
(* self-play epoch comes to its end. A behaviour is one of one part; the     *)
(* epoch of a behaviour that is not about it is over.                        *)
EXTENDS InferenceChannel, BufferProcess, SelfPlayRun

VARIABLE part

answerVars == <<vars, owned, runVars, part>>

AnswersInit ==
    /\ part \in {"channel", "buffer", "run"} /\ Init /\ BufferInit
    /\ IF part = "run" THEN RunInit ELSE InitAt("closed")

AnswersNext ==
    /\ \/ part = "channel" /\ Next /\ UNCHANGED <<owned, runVars>>
       \/ part = "buffer" /\ BufferNext /\ UNCHANGED <<vars, runVars>>
       \/ part = "run" /\ RunNext /\ UNCHANGED <<vars, owned>>
       \/ part = "buffer" /\ UNCHANGED <<vars, owned, runVars>>
    /\ UNCHANGED part

(* The fairness of the part that runs: servers, workers, feeders and the     *)
(* orchestrator's threads keep going, and a worker that keeps playing        *)
(* finishes a game now and then.                                             *)
AnswersFairness ==
    /\ WF_vars(part = "channel" /\ ServerStep)
    /\ \A w \in Workers : WF_vars(part = "channel" /\ WorkerStep(w))
    /\ WF_owned(part = "buffer" /\ Serve)
    /\ \A c \in Callers : WF_owned(part = "buffer" /\ Feed(c)) /\ WF_owned(part = "buffer" /\ SampleTimesOut(c))
    /\ WF_runVars(part = "run" /\ OrchestratorStep)
    /\ WF_runVars(part = "run" /\ CollectorStep)
    /\ \A w \in Players :
          /\ WF_runVars(part = "run" /\ ProcessStep(w)) /\ WF_runVars(part = "run" /\ FeederStep(w))
          /\ SF_runVars(part = "run" /\ FinishGame(w))

AnswersSpec == AnswersInit /\ [][AnswersNext]_answerVars /\ AnswersFairness
=============================================================================
