------------------------ MODULE MCProjectMembership ------------------------
(***************************************************************************)
(* An instance of ProjectMembership for TLC.                               *)
(***************************************************************************)
EXTENDS ProjectMembership
CONSTANTS a, b, c, o1, v1, i1, i2, w1, rec
=============================================================================
