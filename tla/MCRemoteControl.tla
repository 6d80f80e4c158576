-------------------------- MODULE MCRemoteControl --------------------------
(***************************************************************************)
(* A finite instance of RemoteControl: RemoteControl.cfg.                  *)
(***************************************************************************)
EXTENDS RemoteControl
=============================================================================
