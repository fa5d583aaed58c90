-------------------------- MODULE MCStreamLifecycle --------------------------
(* Two applications and a requested stop for StreamLifecycle.            *)
EXTENDS StreamLifecycle
=============================================================================
