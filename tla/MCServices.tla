----------------------------- MODULE MCServices -----------------------------
(* TLC instance of the services a game is played with: the inference channel *)
(* with the layout of its batches and the life of its process, the search    *)
(* engine under an arbitrary caller, what the dashboard records and offers,  *)
(* and the matches of the arena. A behaviour is one of one part; the others stay as they begin.    *)
(* Only the channel never stops.                                             *)
(* Engine: a board of three cells, where the second player wins by taking a  *)
(* and then b. The dashboard's games end after the third stone on two lines. *)
EXTENDS InferenceChannel, BatchLayout, ServerLifecycle, MctsCaller, Telemetry, PlayRoom, ArenaMatch

VARIABLE part

MCWins == {<<"o", "a", "b">>}
MCThreatened == {<<"o", "b">>}
MCStarts == {<<"o">>}
MCCells == {"o", "a", "b"}
MCBlocks == {"a"}

MCPlayCells == {"o", "a", "b", "c"}
MCWonGames == {<<"o", "a", "b">>, <<"o", "b", "a">>}

(* In the arena the second player wins by taking a and b, in either order.   *)
MCArenaCells == {"o", "a", "b", "c"}
MCPairings == {<<"model", "classical">>, <<"classical", "classical">>}
MCMockEnds == {<<0, 2>>}

dashboardVars == <<tele, session, match, models>>
serviceVars == <<vars, layout, server, engineVars, dashboardVars, series, part>>

ServicesInit ==
    /\ part \in {"channel", "layout", "lifecycle", "engine", "telemetry", "session", "match", "models", "arena"}
    /\ Init /\ LayoutInit /\ LifecycleInit /\ EngineInit
    /\ TelemetryInit /\ (part # "telemetry" => tele = StoreOf({}, 0))
    /\ SessionInit /\ MatchInit /\ ModelsInit
    /\ IF part = "arena" THEN ArenaInit ELSE ArenaInit /\ ~series.engine /\ series.kinds[1] = "model"

Dashboard ==
    \/ part = "telemetry" /\ TelemetryNext /\ UNCHANGED <<session, match, models>>
    \/ part = "session" /\ SessionNext /\ UNCHANGED <<tele, match, models>>
    \/ part = "match" /\ MatchNext /\ UNCHANGED <<tele, session, models>>
    \/ part = "models" /\ ModelsNext /\ UNCHANGED <<tele, session, match>>

ServicesNext ==
    /\ \/ part = "channel" /\ Next /\ UNCHANGED <<layout, server, engineVars, dashboardVars, series>>
       \/ part = "layout" /\ LayoutNext /\ UNCHANGED <<vars, server, engineVars, dashboardVars, series>>
       \/ part = "lifecycle" /\ LifecycleNext /\ UNCHANGED <<vars, layout, engineVars, dashboardVars, series>>
       \/ part = "engine" /\ CallerNext /\ UNCHANGED <<vars, layout, server, dashboardVars, series>>
       \/ Dashboard /\ UNCHANGED <<vars, layout, server, engineVars, series>>
       \/ part = "arena" /\ ArenaNext /\ UNCHANGED <<vars, layout, server, engineVars, dashboardVars>>
       \/ part # "channel" /\ UNCHANGED <<vars, layout, server, engineVars, dashboardVars, series>>
    /\ UNCHANGED part

ServicesSpec == ServicesInit /\ [][ServicesNext]_serviceVars
=============================================================================
