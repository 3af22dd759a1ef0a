-------------------------- MODULE MCProjectEvents --------------------------
(***************************************************************************)
(* Instances of ProjectEvents for TLC.                                     *)
(***************************************************************************)
EXTENDS ProjectEvents

FairSpec == InitLog(1) /\ [][EventsNext]_eventsVars /\ EventsFairness
=============================================================================
