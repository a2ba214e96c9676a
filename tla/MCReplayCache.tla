---------------------------- MODULE MCReplayCache ----------------------------
(***************************************************************************)
(* Small instances of ReplayCache for TLC.  The first allocation has one   *)
(* slot instead of eight, so that three nonces make the array grow twice.  *)
(***************************************************************************)
EXTENDS ReplayCache
=============================================================================
