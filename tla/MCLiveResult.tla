---------------------------- MODULE MCLiveResult ----------------------------
(* Small instances of LiveResult. *)
EXTENDS LiveResult
=============================================================================
