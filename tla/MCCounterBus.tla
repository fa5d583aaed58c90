----------------------------- MODULE MCCounterBus -----------------------------
(* Small constants for CounterBus.  The countdowns and the timeout are      *)
(* scaled down together: the timeout still spans several countdowns.        *)
EXTENDS CounterBus

OneStore == {[bin |-> 0, value |-> 1]}
================================================================================
