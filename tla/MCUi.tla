-------------------------------- MODULE MCUi --------------------------------
(* Instances of Ui for TLC. *)
EXTENDS Ui
=============================================================================
