------------------------ MODULE MCCloudToLanTransfer ------------------------
(* An instance of CloudToLanTransfer for TLC. *)
EXTENDS CloudToLanTransfer, TLC

=============================================================================
