-------------------------------- MODULE MCClient --------------------------------
(* Instances of Client for TLC. *)
EXTENDS Client

MCInputs == <<1, 2>>

================================================================================
