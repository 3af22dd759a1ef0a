----------------------- MODULE MCDevelopmentBootstrap -----------------------
(* Instances of DevelopmentBootstrap for TLC: model values for the attempts, *)
(* the Members and the requests; the configurations give the bounds.         *)
EXTENDS DevelopmentBootstrap
=============================================================================
