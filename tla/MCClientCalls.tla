---------------------------- MODULE MCClientCalls ----------------------------
(* Two threads in calls.                                                   *)
EXTENDS ClientCalls
=============================================================================
