---------------------------- MODULE MCLiveStream ----------------------------
(***************************************************************************)
(* Finite instances of LiveStream.                                         *)
(***************************************************************************)
EXTENDS LiveStream
=============================================================================
