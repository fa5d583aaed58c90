-------------------------- MODULE CounterRefinement --------------------------
(* How the registers of CounterFpga are read as the measurements of         *)
(* CounterModes.                                                            *)
EXTENDS CounterFpga

mode ==
    IF counter_state = "idle" THEN "none"
    ELSE IF counter_state \in ImmediateStates THEN "immediate"
    ELSE IF counter_state \in TriggeredStates THEN "triggered" ELSE "gated"

FinishedStates == {"triggeredCounting_prestore", "gatedCounting_prestore"}

phase ==
    IF counter_state = "idle" THEN "idle"
    ELSE IF counter_state \in CountingStates THEN "counting"
    ELSE IF counter_state \in FinishedStates THEN "finished"
    ELSE IF counter_state \in StoreStates THEN "storing" ELSE "waiting"

(* The edge counters are cleared one edge after they are held.              *)
elapsed == IF counters_reset THEN 0 ELSE window
pulses == IF counters_reset THEN Zero ELSE counters_current_count
high == IF counters_reset THEN {} ELSE signal_last
target == IF counter_state \in TimedStates THEN counters_last_duration ELSE 0

result == [counts |-> counters_last_count, duration |-> counters_last_duration]
port ==
    IF cnt_counter_ram_write_enable
    THEN {[counts |-> cnt_counter_ram_wdata, duration |-> cnt_duration_ram_wdata]} ELSE {}

Modes == INSTANCE CounterModes WITH
    Lines <- Counters,
    bin <- cnt_counter_ram_addr,
    timeout <- counter_timeout,
    limit <- counter_max_bin_address

(* With software that starts a mode only from idle the state machine, its   *)
(* handshake, timer, synchronisers and edge counters are a counter as       *)
(* CounterModes describes it: every result has the pulses of exactly the    *)
(* edges it says, and goes into the bin after the one before.               *)
ImplementsModes == Modes!Spec

=============================================================================
