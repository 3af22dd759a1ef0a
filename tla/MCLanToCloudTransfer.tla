------------------------ MODULE MCLanToCloudTransfer ------------------------
(* Instances of LanToCloudTransfer for TLC; the configurations give the sets. *)
EXTENDS LanToCloudTransfer
=============================================================================
