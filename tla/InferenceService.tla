------------------------- MODULE InferenceService -------------------------
(***************************************************************************)
(* What the shared-memory inference channel promises to its workers.       *)
(*                                                                         *)
(* A worker asks for the evaluation of one batch at a time and is handed   *)
(* an evaluation.  As long as the worker has never abandoned a call, the   *)
(* evaluation it is handed is the one of the batch it asked about.         *)
(* A worker that abandoned a call (its wait timed out, or its process was  *)
(* replaced) is promised nothing: the slot carries no request identity.    *)
(***************************************************************************)
EXTENDS Integers

CONSTANTS NumWorkers,   \* number of worker slots
          MaxId         \* request identities are 0 .. MaxId

VARIABLES phase,        \* "idle", "asked" or "answered", per worker
          asked,        \* identity of the worker's latest request
          answer,       \* identity of the request the answer evaluates
          abandoned     \* TRUE once the worker gave up on a call

vars == <<phase, asked, answer, abandoned>>

Workers == 0 .. NumWorkers - 1
Ids == 0 .. MaxId

Init ==
    /\ phase = [w \in Workers |-> "idle"]
    /\ asked = [w \in Workers |-> 0]
    /\ answer = [w \in Workers |-> 0]
    /\ abandoned = [w \in Workers |-> FALSE]

(* A call of InferenceClient.submit and its variants begins. *)
Ask(w) ==
    /\ phase[w] = "idle"
    /\ phase' = [phase EXCEPT ![w] = "asked"]
    /\ \E id \in Ids : asked' = [asked EXCEPT ![w] = id]
    /\ UNCHANGED <<answer, abandoned>>

(* The service makes an evaluation available to the worker. *)
Answer(w) ==
    /\ phase[w] = "asked"
    /\ phase' = [phase EXCEPT ![w] = "answered"]
    /\ \E id \in Ids :
          /\ abandoned[w] \/ id = asked[w]
          /\ answer' = [answer EXCEPT ![w] = id]
    /\ UNCHANGED <<asked, abandoned>>

(* The worker has used the evaluation. *)
Take(w) ==
    /\ phase[w] = "answered"
    /\ phase' = [phase EXCEPT ![w] = "idle"]
    /\ answer' = [answer EXCEPT ![w] = 0]
    /\ UNCHANGED <<asked, abandoned>>

(* The worker gives the call up; from here on it is promised nothing. *)
Abandon(w) ==
    /\ phase' = [phase EXCEPT ![w] = "idle"]
    /\ answer' = [answer EXCEPT ![w] = 0]
    /\ abandoned' = [abandoned EXCEPT ![w] = TRUE]
    /\ UNCHANGED asked

(* Whatever a worker that once gave up sees of its slot. *)
Disturbed(w) ==
    /\ abandoned[w]
    /\ \E p \in {"idle", "asked", "answered"} : phase' = [phase EXCEPT ![w] = p]
    /\ \E id \in Ids : answer' = [answer EXCEPT ![w] = id]
    /\ UNCHANGED <<asked, abandoned>>

Next ==
    \E w \in Workers :
        Ask(w) \/ Answer(w) \/ Take(w) \/ Abandon(w) \/ Disturbed(w)

Spec == Init /\ [][Next]_vars
=============================================================================
