------------------------------ MODULE MCRecords ------------------------------
(* TLC instance of the way of a game's records: from the workers over the    *)
(* queue to the collector (SelfPlayRun), and from several processes to the   *)
(* buffer in a process of its own (BufferProcess). A behaviour is one of     *)
(* either; the callers of the buffer process may stop.                       *)
EXTENDS SelfPlayRun, BufferProcess

VARIABLE part

recordVars == <<runVars, owned, part>>

RecordsInit ==
    part \in {"run", "process"} /\ RunInit /\ BufferInit

RecordsNext ==
    /\ \/ part = "run" /\ RunNext /\ UNCHANGED owned
       \/ part = "process" /\ BufferNext /\ UNCHANGED runVars
       \/ part # "run" /\ UNCHANGED <<runVars, owned>>
    /\ UNCHANGED part

RecordsSpec == RecordsInit /\ [][RecordsNext]_recordVars
=============================================================================
