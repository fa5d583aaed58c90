--------------------------- MODULE MCCounterFpga ----------------------------
(* Instances of CounterFpga for TLC: one input line that is both counted   *)
(* and the trigger, registers of two or three bits, two bins.              *)
EXTENDS CounterRefinement

MCInputs == {0}
NoCounters == {}

(* Trigger on a high line.  After reset no line is selected, which          *)
(* triggers at once.                                                       *)
MCOnHigh == {[mask |-> {0}, invert |-> {}, polarity |-> TRUE]}

==========================================================================
