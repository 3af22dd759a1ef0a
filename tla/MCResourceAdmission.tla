------------------------ MODULE MCResourceAdmission ------------------------
(***************************************************************************)
(* Instances of ResourceAdmission for TLC.                                 *)
(***************************************************************************)
EXTENDS ResourceAdmission, TLC

PerClass(reads, writes) == ("read" :> reads) @@ ("write" :> writes)

Actives == PerClass(1, 1)
Waiters == PerClass(2, 1)

Symmetry == Permutations(Call) \cup Permutations(Project)

FairSpec == AdmissionSpec /\ AdmissionFairness
=============================================================================
