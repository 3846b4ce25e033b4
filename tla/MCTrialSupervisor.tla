--------------------------- MODULE MCTrialSupervisor ---------------------------
(* TLC instance of TrialSupervisor alone: the configuration gives the values. *)
EXTENDS TrialSupervisor

MCFamilies == <<"f", "g">>
MCResources == <<1, 2>>
=============================================================================
