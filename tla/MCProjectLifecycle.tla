------------------------- MODULE MCProjectLifecycle -------------------------
(***************************************************************************)
(* Instances of ProjectLifecycle: a principal that creates, retires and    *)
(* may recreate a Project ID, another Member, and recovery workers.        *)
(***************************************************************************)
EXTENDS ProjectLifecycle
=============================================================================
