-------------------------- MODULE CounterFpgaProofs -------------------------
(****************************************************************************)
(* What holds of the counter for every register width, number of bins,      *)
(* set of commands and configuration: its registers keep their types        *)
(* whatever is written (TypeCorrect), and with orderly software every count *)
(* belongs to the window and the duration it is stored with, and the        *)
(* registers implement the measurements of CounterModes.                    *)
(****************************************************************************)
EXTENDS CounterRefinement, TLAPS

(* A register that counts up stays within its width.                        *)
LEMMA IncrementType ==
    ASSUME NEW n \in Word
    PROVE  Increment(n) \in Word
  BY CounterFpgaAssumption DEF Increment, Word

(* A command only redirects the machine to one of its states.               *)
LEMMA CommandedType ==
    ASSUME TypeOK
    PROVE  Commanded \in counter_state_t
  <1> USE DEF counter_state_t, ImmediateStates, TriggeredStates, GatedStates
  <1>1. counter_state \in counter_state_t /\ control_command \in control_command_t
    BY DEF TypeOK, StateMachineTypeOK, BusTypeOK
  <1>2. CASE ~control_command_signal \/ control_command \in {"none", "trigger"}
    BY <1>1, <1>2 DEF Commanded
  <1>3. CASE control_command_signal /\ control_command \notin {"none", "trigger"}
    <2>1. control_command \in {"gotoIdle", "reset"} \cup StartCommands
      BY <1>1, <1>3 DEF control_command_t
    <2>2. CommandTarget[control_command] \in counter_state_t
      BY <2>1 DEF CommandTarget, StartCommands
    <2> QED BY <1>3, <2>2 DEF Commanded
  <1> QED BY <1>2, <1>3

(* The address the machine goes on with is one of a bin in use.             *)
LEMMA BinInUseBound ==
    ASSUME TypeOK
    PROVE  /\ BinInUse \in 0..MaxBin
           /\ BinInUse <= counter_max_bin_address
           /\ NextBin \in 0..MaxBin
           /\ NextBin <= counter_max_bin_address
  BY CounterFpgaAssumption
  DEF TypeOK, StateMachineTypeOK, BusTypeOK, BinInUse, NextBin

(* Every case of the state machine keeps the types of its registers.        *)
LEMMA StateMachineType ==
    ASSUME TypeOK, StateMachine
    PROVE  StateMachineTypeOK'
  <1> USE DEF StateMachineTypeOK
  <1>0. /\ Commanded \in counter_state_t /\ BinInUse \in 0..MaxBin
        /\ NextBin \in 0..MaxBin
        /\ 0 \in Word /\ 1 \in Word /\ Zero \in [Counters -> Word] /\ 0 \in 0..MaxBin
    BY CommandedType, BinInUseBound, CounterFpgaAssumption DEF Zero, Word
  <1>1. /\ StateMachineTypeOK /\ control_command_signal \in BOOLEAN
        /\ counters_current_count \in [Counters -> Word]
        /\ counter_timeout \in Word /\ counter_predelay \in Word
    BY DEF TypeOK, CountingTypeOK, BusTypeOK
  <1>2. control_command_ack' \in BOOLEAN
    BY <1>1 DEF StateMachine
  <1>3. CASE Idle
    BY <1>0, <1>1, <1>2, <1>3 DEF Idle, ClosePort, counter_state_t
  <1>4. CASE Active /\ \E lines \in SUBSET Inputs : Synchronise(lines)
    <2> USE DEF counter_state_t, ImmediateStates, TriggeredStates, GatedStates
    <2>1. /\ inputs_meta' \subseteq Inputs /\ inputs_meta2' \subseteq Inputs
          /\ inputs_buffer' \subseteq Inputs
      BY <1>1, <1>4 DEF Synchronise
    <2>2. ASSUME NEW s \in counter_state_t, StartTimer(s)
          PROVE  StateMachineTypeOK'
      BY <1>0, <1>1, <1>2, <2>1, <2>2 DEF StartTimer, KeepBin, store
    <2>3. ASSUME NEW s \in counter_state_t, Latch(s)
          PROVE  StateMachineTypeOK'
      BY <1>0, <1>1, <1>2, <2>1, <2>3 DEF Latch, KeepBin, store
    <2>4. ASSUME Stay, counter_clock' \in Word, counters_last_duration' \in Word
          PROVE  StateMachineTypeOK'
      BY <1>0, <1>1, <1>2, <2>1, <2>4 DEF Stay, KeepBin, store
    <2>5. CASE CountDown
      <3>1. counter_clock' \in Word
        BY <1>1, <2>5, CounterFpgaAssumption DEF CountDown, Word
      <3> QED BY <1>1, <2>4, <2>5, <3>1 DEF CountDown
    <2>6. CASE ImmediateStart \/ TriggerToCounting \/ PredelayDone
      BY <2>2, <2>6 DEF ImmediateStart, TriggerToCounting, PredelayDone
    <2>7. CASE ImmediateCountDown \/ PredelayCountDown \/ TriggeredCountDown
      BY <2>5, <2>7 DEF ImmediateCountDown, PredelayCountDown, TriggeredCountDown
    <2>8. CASE ImmediateDone \/ TriggeredDone \/ GateFall
      BY <2>3, <2>8 DEF ImmediateDone, TriggeredDone, GateFall
    <2>9. CASE AwaitTrigger \/ AwaitGateRise
      BY <1>1, <2>4, <2>9 DEF AwaitTrigger, AwaitGateRise
    <2>10. CASE TriggerToPredelay
      BY <1>0, <1>1, <1>2, <2>1, <2>10 DEF TriggerToPredelay, KeepBin, results, store
    <2>11. CASE GateRise
      BY <1>0, <1>1, <1>2, <2>1, <2>11 DEF GateRise, KeepBin, store
    <2>12. CASE GateOpen
      <3>1. counters_last_duration' \in Word
        BY <1>1, <2>12, IncrementType DEF GateOpen
      <3> QED BY <1>1, <2>4, <2>12, <3>1 DEF GateOpen
    <2>13. CASE Prestore
      BY <1>0, <1>1, <1>2, <2>1, <2>13 DEF Prestore, KeepBin, results
    <2>14. CASE Store
      BY <1>0, <1>1, <1>2, <2>1, <2>14 DEF Store, ClosePort, results
    <2> QED
      BY <1>4, <2>6, <2>7, <2>8, <2>9, <2>10, <2>11, <2>12, <2>13, <2>14 DEF Active
  <1> QED BY <1>3, <1>4 DEF StateMachine

(* The edge counters wrap within their width.                               *)
LEMMA CountingType ==
    ASSUME TypeOK, InputCounters
    PROVE  CountingTypeOK'
  <1>1. 0 \in Word
    BY CounterFpgaAssumption DEF Word
  <1>2. \A i \in Counters : Increment(counters_current_count[i]) \in Word
    BY IncrementType DEF TypeOK, CountingTypeOK
  <1>3. counters_current_count' \in [Counters -> Word]
    BY <1>1, <1>2 DEF InputCounters, TypeOK, CountingTypeOK
  <1>4. window' \in Word
    BY <1>1, IncrementType DEF InputCounters, TypeOK, CountingTypeOK
  <1> QED BY <1>3, <1>4 DEF InputCounters, CountingTypeOK

(* What a bus write carries is of the type of the register it addresses.    *)
LEMMA BusWriteValue ==
    ASSUME NEW w \in BusWrites
    PROVE  /\ w.register = "control" => w.value \in control_command_t
           /\ w.register = "timeout" => w.value \in Word
           /\ w.register = "predelay" => w.value \in Word
           /\ w.register = "numberOfBins" => w.value \in 0..MaxBin
           /\ w.register = "config" => w.value \in TriggerConfig
  <1> USE CounterFpgaAssumption
  <1>1. CASE w = NoWrite
    BY <1>1 DEF NoWrite
  <1>2. CASE w \in [register : {"control"}, value : Commands]
    BY <1>2
  <1>3. CASE w \in [register : {"timeout"}, value : Timeouts]
    BY <1>3
  <1>4. CASE w \in [register : {"predelay"}, value : Predelays]
    BY <1>4
  <1>5. CASE w \in [register : {"numberOfBins"}, value : BinLimits]
    BY <1>5
  <1>6. CASE w \in [register : {"config"}, value : TriggerConfigs]
    BY <1>6
  <1> QED BY <1>1, <1>2, <1>3, <1>4, <1>5, <1>6 DEF BusWrites

(* A bus write stores only values of the register's type.                   *)
LEMMA BusType ==
    ASSUME TypeOK, NEW w \in BusWrites, SystemBusWrite(w)
    PROVE  BusTypeOK'
  <1>0. BusTypeOK /\ control_command_ack \in BOOLEAN
    BY DEF TypeOK, StateMachineTypeOK
  <1>1. write_wait' \in 0..WriteGap
    <2>1. CASE w # NoWrite
      BY <2>1, CounterFpgaAssumption DEF SystemBusWrite
    <2>2. CASE w = NoWrite /\ write_wait > 0
      <3>1. write_wait' = write_wait - 1
        BY <2>2 DEF SystemBusWrite
      <3> QED BY <1>0, <2>2, <3>1, CounterFpgaAssumption DEF BusTypeOK
    <2>3. CASE w = NoWrite /\ ~(write_wait > 0)
      <3>1. write_wait' = 0
        BY <2>3 DEF SystemBusWrite
      <3> QED BY <3>1, CounterFpgaAssumption
    <2> QED BY <2>1, <2>2, <2>3
  <1>2. /\ control_command' \in control_command_t
        /\ control_command_signal' \in BOOLEAN
    <2>1. CASE w.register = "control"
      BY <2>1, BusWriteValue DEF SystemBusWrite, ControlRegister
    <2>2. CASE w.register # "control"
      BY <1>0, <2>2 DEF SystemBusWrite, ControlRegister, BusTypeOK, control_command_t
    <2> QED BY <2>1, <2>2
  <1>3. /\ counter_timeout' \in Word /\ counter_predelay' \in Word
        /\ counter_max_bin_address' \in 0..MaxBin
        /\ trigger' \in TriggerConfig
    BY <1>0, BusWriteValue DEF SystemBusWrite, Written, BusTypeOK
  <1> QED BY <1>1, <1>2, <1>3 DEF BusTypeOK

(* The reset values are of their types.                                     *)
LEMMA InitTypeOK ==
    ASSUME Init
    PROVE  TypeOK
  <1>0. 0 \in Word /\ 0 \in 0..MaxBin /\ 0 \in 0..WriteGap /\ MaxBin \in 0..MaxBin
    BY CounterFpgaAssumption DEF Word
  <1>1. StateMachineTypeOK
    BY <1>0 DEF Init, StateMachineTypeOK, counter_state_t, Zero
  <1>2. CountingTypeOK
    BY <1>0 DEF Init, CountingTypeOK, Zero
  <1>3. BusTypeOK
    BY <1>0, CounterFpgaAssumption DEF Init, BusTypeOK, control_command_t, TriggerConfig
  <1> QED BY <1>1, <1>2, <1>3 DEF TypeOK

(* One clock edge keeps the types, whatever is written on it.               *)
LEMMA ClockTypeOK ==
    ASSUME TypeOK, NEW w \in BusWrites, Clock(w)
    PROVE  TypeOK'
  BY StateMachineType, CountingType, BusType DEF Clock, TypeOK

(* Every register of the counter keeps a value of its type, whatever        *)
(* software writes and whenever it writes it.                               *)
THEOREM TypeCorrect == Spec => []TypeOK
  <1>1. Init => TypeOK
    BY InitTypeOK
  <1>2. TypeOK /\ [Next]_vars => TypeOK'
    <2>1. CASE UNCHANGED vars
      BY <2>1 DEF vars, counting, results, store, synchroniser, handshake, config,
                  TypeOK, StateMachineTypeOK, CountingTypeOK, BusTypeOK
    <2> QED BY <2>1, ClockTypeOK DEF Next
  <1> QED BY <1>1, <1>2, PTL DEF Spec

----------------------------------------------------------------------------
(* Orderly software.                                                        *)

(* A case of the state machine runs from its own state or, for the first    *)
(* case of a mode, from idle: the counters and the memory port are where    *)
(* that case expects them.                                                  *)
LEMMA OrderlyCommanded ==
    ASSUME OrderlyInv
    PROVE  /\ Commanded \in CountingStates => Commanded = counter_state /\ ~counters_reset
           /\ Commanded \notin CountingStates \cup {"idle"} => counters_reset
           /\ Commanded \notin StoreStates \cup {"idle"} => ~cnt_counter_ram_write_enable
  <1> DEFINE Starts == {"immediateCounting_start", "triggeredCounting_waitForTrigger",
                        "gatedCounting_waitForGateRise"}
  <1>1. /\ control_command \in control_command_t
        /\ counters_reset \in BOOLEAN /\ cnt_counter_ram_write_enable \in BOOLEAN
    BY DEF OrderlyInv, TypeOK, StateMachineTypeOK, BusTypeOK
  <1>2. \/ Commanded = counter_state
        \/ Commanded = "idle"
        \/ counter_state = "idle" /\ Commanded \in Starts
    BY <1>1 DEF OrderlyInv, StartsFromIdle, Commanded, CommandTarget, StartCommands,
                control_command_t
  <1>3. CASE Commanded = counter_state
    BY <1>1, <1>3 DEF OrderlyInv, OpenWhileCounting, StoresLastResult
  <1>4. CASE Commanded = "idle"
    BY <1>4 DEF CountingStates, TimedStates
  <1>5. CASE counter_state = "idle" /\ Commanded \in Starts
    BY <1>1, <1>5
    DEF OrderlyInv, OpenWhileCounting, StoresLastResult, CountingStates, TimedStates, StoreStates
  <1> QED BY <1>2, <1>3, <1>4, <1>5

(* The edge counters either start from zero or see one edge more.           *)
LEMMA WindowStep ==
    ASSUME OrderlyInv, InputCounters
    PROVE  /\ counters_reset => window' = 0
           /\ counters_reset => \A i \in Counters : counters_current_count'[i] = 0
           /\ ~counters_reset => window' = Increment(window)
  BY DEF InputCounters

(* Counting an edge keeps a pulse to two edges, as long as the window does  *)
(* not wrap.                                                                *)
LEMMA PulseStep ==
    ASSUME OrderlyInv, InputCounters, counter_state \in TimedStates, ~counters_reset,
           window' = window + 1, NEW i \in Counters
    PROVE  2 * counters_current_count'[i] <= window' + (IF i \in signal_last' THEN 1 ELSE 0)
  <1>1. /\ counters_current_count[i] \in Word /\ window \in Word
        /\ 2 * counters_current_count[i] <= window + (IF i \in signal_last THEN 1 ELSE 0)
    BY DEF OrderlyInv, TypeOK, CountingTypeOK, PulsesTakeTwoEdges
  <1>2. counters_current_count'[i] = IF i \in inputs_buffer /\ i \notin signal_last
                                     THEN Increment(counters_current_count[i])
                                     ELSE counters_current_count[i]
    BY DEF InputCounters
  <1>3. i \in signal_last' <=> i \in inputs_buffer
    BY DEF InputCounters
  <1>4. Increment(counters_current_count[i]) \in {0, counters_current_count[i] + 1}
    BY DEF Increment
  <1>5. counters_current_count[i] \in Int /\ window \in Int /\ window >= 0
    BY <1>1, CounterFpgaAssumption DEF Word
  <1> QED
    <2>1. CASE i \in inputs_buffer /\ i \notin signal_last
      BY <1>1, <1>2, <1>3, <1>4, <1>5, <2>1
    <2>2. CASE i \in inputs_buffer /\ i \in signal_last
      BY <1>1, <1>2, <1>3, <1>5, <2>2
    <2>3. CASE i \notin inputs_buffer
      BY <1>1, <1>2, <1>3, <1>5, <2>3
    <2> QED BY <2>1, <2>2, <2>3

(* What a case of the state machine has to keep besides the types.          *)
MachineInv == OpenWhileCounting /\ WindowTracksTimer /\ PulsesTakeTwoEdges /\ StoresLastResult

(* A case that leaves the counting states closed and the port shut.         *)
LEMMA QuietStep ==
    ASSUME counter_state' \notin CountingStates, counter_state' \notin StoreStates,
           counters_reset' = TRUE, cnt_counter_ram_write_enable' = FALSE
    PROVE  MachineInv'
  <1>1. counter_state' \notin TimedStates /\ counter_state' # "gatedCounting_waitForGateFall"
    BY DEF CountingStates
  <1>2. WindowTracksTimer' /\ PulsesTakeTwoEdges'
    BY <1>1 DEF WindowTracksTimer, PulsesTakeTwoEdges
  <1> QED BY <1>2 DEF MachineInv, OpenWhileCounting, StoresLastResult

(* Every start of a timed count begins with closed counters, and leaves a   *)
(* window of zero edges before a full timer.                                *)
LEMMA StartTimerStep ==
    ASSUME OrderlyInv, InputCounters, NEW s \in TimedStates, StartTimer(s),
           counters_reset, ~cnt_counter_ram_write_enable
    PROVE  MachineInv'
  <1>1. window' = 0 /\ \A i \in Counters : counters_current_count'[i] = 0
    BY WindowStep
  <1>2. counter_timeout \in Int
    BY CounterFpgaAssumption DEF OrderlyInv, TypeOK, BusTypeOK, Word
  <1>3. /\ counter_state' \in TimedStates /\ counters_reset' = FALSE
        /\ counter_clock' = counter_timeout /\ counters_last_duration' = counter_timeout
        /\ cnt_counter_ram_write_enable' = cnt_counter_ram_write_enable
    BY DEF StartTimer, store
  <1>4. OpenWhileCounting'
    BY <1>3 DEF OpenWhileCounting, CountingStates
  <1>5. WindowTracksTimer'
    BY <1>1, <1>2, <1>3 DEF WindowTracksTimer, TimedStates
  <1>6. PulsesTakeTwoEdges'
    <2>1. ASSUME NEW i \in Counters
          PROVE  2 * counters_current_count'[i] <= window' + (IF i \in signal_last' THEN 1 ELSE 0)
      BY <1>1
    <2> QED BY <2>1 DEF PulsesTakeTwoEdges
  <1>7. StoresLastResult'
    <2>1. counter_state' \notin StoreStates
      BY <1>3 DEF TimedStates, StoreStates
    <2>2. cnt_counter_ram_write_enable' = FALSE
      BY <1>3 DEF OrderlyInv, TypeOK, StateMachineTypeOK
    <2> QED BY <2>1, <2>2 DEF StoresLastResult
  <1> QED BY <1>4, <1>5, <1>6, <1>7 DEF MachineInv

(* While the timer runs the window grows as the timer falls.                *)
LEMMA TimedCountDownStep ==
    ASSUME OrderlyInv, InputCounters, CountDown, Commanded \in TimedStates
    PROVE  MachineInv'
  <1>1. /\ counter_state' = counter_state /\ counter_state \in TimedStates
        /\ ~counters_reset /\ counters_reset' = FALSE
        /\ ~cnt_counter_ram_write_enable /\ cnt_counter_ram_write_enable' = FALSE
    <2>1. Commanded \in CountingStates /\ Commanded \notin StoreStates \cup {"idle"}
      BY DEF CountingStates, TimedStates, StoreStates
    <2>2. Commanded = counter_state /\ ~counters_reset /\ ~cnt_counter_ram_write_enable
      BY <2>1, OrderlyCommanded
    <2>3. counters_reset \in BOOLEAN /\ cnt_counter_ram_write_enable \in BOOLEAN
      BY DEF OrderlyInv, TypeOK, StateMachineTypeOK
    <2> QED BY <2>2, <2>3 DEF CountDown, Stay, store
  <1>2. /\ window + counter_clock = counters_last_duration
        /\ counter_clock \in Int /\ counter_clock > 0 /\ window \in Int
        /\ counters_last_duration \in Int /\ counters_last_duration <= MaxWord
    BY <1>1, CounterFpgaAssumption
    DEF OrderlyInv, WindowTracksTimer, TypeOK, StateMachineTypeOK, CountingTypeOK, Word, CountDown
  <1>3. window' = window + 1
    <2>1. window # MaxWord
      BY <1>2, CounterFpgaAssumption
    <2> QED BY <1>1, <2>1, WindowStep DEF Increment
  <1>4. OpenWhileCounting'
    BY <1>1 DEF OpenWhileCounting, CountingStates
  <1>5. WindowTracksTimer'
    <2>1. /\ counter_clock' = counter_clock - 1
          /\ counters_last_duration' = counters_last_duration
      BY DEF CountDown
    <2>2. counter_state' # "gatedCounting_waitForGateFall"
      BY <1>1 DEF TimedStates
    <2>3. window' + counter_clock' = counters_last_duration'
      BY <1>2, <1>3, <2>1
    <2> QED BY <2>2, <2>3 DEF WindowTracksTimer
  <1>6. PulsesTakeTwoEdges'
    <2>1. ASSUME NEW i \in Counters
          PROVE  2 * counters_current_count'[i] <= window' + (IF i \in signal_last' THEN 1 ELSE 0)
      BY <1>1, <1>3, PulseStep
    <2> QED BY <2>1 DEF PulsesTakeTwoEdges
  <1>7. StoresLastResult'
    <2>1. counter_state' \notin StoreStates
      BY <1>1 DEF TimedStates, StoreStates
    <2> QED BY <1>1, <2>1 DEF StoresLastResult
  <1> QED BY <1>4, <1>5, <1>6, <1>7 DEF MachineInv

(* The gate rises over closed counters, whose first counted edge is the     *)
(* next one: the duration is one ahead of the window from the start.        *)
LEMMA GateRiseStep ==
    ASSUME OrderlyInv, InputCounters, GateRise
    PROVE  MachineInv'
  <1>1. counters_reset /\ ~cnt_counter_ram_write_enable
    BY OrderlyCommanded DEF GateRise, CountingStates, TimedStates, StoreStates
  <1>2. window' = 0 /\ Increment(0) = 1
    BY <1>1, WindowStep, CounterFpgaAssumption DEF Increment
  <1>3. /\ counter_state' = "gatedCounting_waitForGateFall" /\ counters_reset' = FALSE
        /\ counters_last_duration' = 1
        /\ cnt_counter_ram_write_enable' = cnt_counter_ram_write_enable
    BY DEF GateRise, store
  <1>4. OpenWhileCounting'
    BY <1>3 DEF OpenWhileCounting, CountingStates
  <1>5. WindowTracksTimer'
    BY <1>2, <1>3 DEF WindowTracksTimer, TimedStates, Increment
  <1>6. PulsesTakeTwoEdges'
    BY <1>3 DEF PulsesTakeTwoEdges, TimedStates
  <1>7. StoresLastResult'
    BY <1>1, <1>3 DEF StoresLastResult, StoreStates
  <1> QED BY <1>4, <1>5, <1>6, <1>7 DEF MachineInv

(* While the gate is open, duration and window count the same edges, and    *)
(* wrap alike.                                                              *)
LEMMA GateOpenStep ==
    ASSUME OrderlyInv, InputCounters, GateOpen
    PROVE  MachineInv'
  <1>1. Commanded = counter_state /\ ~counters_reset /\ ~cnt_counter_ram_write_enable
    BY OrderlyCommanded DEF GateOpen, CountingStates, TimedStates, StoreStates
  <1>2. window' = Increment(window)
    BY <1>1, WindowStep
  <1>3. /\ counter_state' = "gatedCounting_waitForGateFall" /\ ~counters_reset'
        /\ counter_state = "gatedCounting_waitForGateFall"
        /\ counters_last_duration' = Increment(counters_last_duration)
        /\ ~cnt_counter_ram_write_enable'
    BY <1>1 DEF GateOpen, Stay, store
  <1>4. OpenWhileCounting'
    BY <1>3 DEF OpenWhileCounting, CountingStates
  <1>5. WindowTracksTimer'
    <2>1. Increment(window) = counters_last_duration
      BY <1>3 DEF OrderlyInv, WindowTracksTimer
    <2>2. Increment(window') = counters_last_duration'
      BY <1>2, <1>3, <2>1
    <2> QED BY <1>3, <2>2 DEF WindowTracksTimer, TimedStates, Increment
  <1>6. PulsesTakeTwoEdges'
    BY <1>3 DEF PulsesTakeTwoEdges, TimedStates
  <1>7. StoresLastResult'
    BY <1>3 DEF StoresLastResult, StoreStates
  <1> QED BY <1>4, <1>5, <1>6, <1>7 DEF MachineInv

(* No case of the state machine mixes up two measurements.                  *)
LEMMA MachineStep ==
    ASSUME OrderlyInv, StateMachine, InputCounters
    PROVE  MachineInv'
  <1> USE DEF CountingStates, TimedStates, StoreStates
  <1>1. CASE Idle
    BY <1>1, QuietStep DEF Idle, ClosePort
  <1>2. CASE ImmediateStart \/ TriggerToCounting \/ PredelayDone
    BY <1>2, OrderlyCommanded, StartTimerStep DEF ImmediateStart, TriggerToCounting, PredelayDone
  <1>3. CASE ImmediateCountDown \/ TriggeredCountDown
    BY <1>3, TimedCountDownStep DEF ImmediateCountDown, TriggeredCountDown
  <1>4. CASE ImmediateDone \/ TriggeredDone \/ GateFall
    <2>1. ~cnt_counter_ram_write_enable
      BY <1>4, OrderlyCommanded DEF ImmediateDone, TriggeredDone, GateFall
    <2>2. cnt_counter_ram_write_enable' = FALSE
      BY <1>4, <2>1 DEF ImmediateDone, TriggeredDone, GateFall, Latch, store,
                       OrderlyInv, TypeOK, StateMachineTypeOK
    <2> QED BY <1>4, <2>2, QuietStep DEF ImmediateDone, TriggeredDone, GateFall, Latch
  <1>5. CASE AwaitTrigger \/ AwaitGateRise \/ PredelayCountDown \/ TriggerToPredelay
    <2>1. /\ Commanded \in {"triggeredCounting_waitForTrigger", "gatedCounting_waitForGateRise",
                            "triggeredCounting_predelay"}
          /\ counter_state' \in {"triggeredCounting_waitForTrigger",
                "gatedCounting_waitForGateRise", "triggeredCounting_predelay"}
          /\ counters_reset' = counters_reset
          /\ cnt_counter_ram_write_enable' = cnt_counter_ram_write_enable
      BY <1>5 DEF AwaitTrigger, AwaitGateRise, PredelayCountDown, TriggerToPredelay,
                  CountDown, Stay, store
    <2>2. counters_reset = TRUE /\ cnt_counter_ram_write_enable = FALSE
      BY <2>1, OrderlyCommanded DEF OrderlyInv, TypeOK, StateMachineTypeOK
    <2> QED BY <2>1, <2>2, QuietStep
  <1>6. CASE GateRise
    BY <1>6, GateRiseStep
  <1>7. CASE GateOpen
    BY <1>7, GateOpenStep
  <1>8. CASE Prestore
    <2>1. /\ Commanded \in {"triggeredCounting_prestore", "gatedCounting_prestore"}
          /\ counter_state' \in StoreStates /\ counters_reset' = counters_reset
          /\ cnt_counter_ram_write_enable' = TRUE
          /\ cnt_counter_ram_wdata' = counters_last_count'
          /\ cnt_duration_ram_wdata' = counters_last_duration'
      BY <1>8 DEF Prestore, results
    <2>2. counters_reset
      BY <2>1, OrderlyCommanded
    <2>3. StoresLastResult'
      BY <2>1 DEF StoresLastResult
    <2>4. OpenWhileCounting' /\ WindowTracksTimer' /\ PulsesTakeTwoEdges'
      BY <2>1, <2>2 DEF OpenWhileCounting, WindowTracksTimer, PulsesTakeTwoEdges
    <2> QED BY <2>3, <2>4 DEF MachineInv
  <1>9. CASE Store
    <2>1. counters_reset /\ counters_reset' = counters_reset
      BY <1>9, OrderlyCommanded DEF Store
    <2>2. counters_reset' = TRUE
      BY <2>1 DEF OrderlyInv, TypeOK, StateMachineTypeOK
    <2> QED BY <1>9, <2>2, QuietStep DEF Store, ClosePort
  <1> QED
    BY <1>1, <1>2, <1>3, <1>4, <1>5, <1>6, <1>7, <1>8, <1>9 DEF StateMachine, Active

(* A start command is written into an idle machine that has acknowledged    *)
(* before, so it is pending on one edge only and meets idle there.          *)
LEMMA CommandStep ==
    ASSUME OrderlyInv, NEW w \in BusWrites, Orderly(w), Clock(w)
    PROVE  StartsFromIdle'
  <1>1. /\ control_command_signal \in BOOLEAN /\ control_command_ack \in BOOLEAN
        /\ StartsFromIdle
    BY DEF OrderlyInv, TypeOK, StateMachineTypeOK, BusTypeOK
  <1>2. CASE w.register = "control"
    <2>1. control_command' = w.value /\ control_command' # "trigger"
      BY <1>2 DEF Clock, SystemBusWrite, ControlRegister, Orderly
    <2>2. ASSUME control_command' \in StartCommands
          PROVE  counter_state' = "idle" /\ control_command_ack'
      <3>1. counter_state = "idle" /\ ~control_command_signal /\ control_command_ack
        BY <1>2, <2>1, <2>2 DEF Orderly
      <3>2. Commanded = "idle"
        BY <3>1 DEF Commanded
      <3>3. counter_state' = "idle"
        BY <3>2 DEF Clock, StateMachine, Active, Idle, ImmediateStart, ImmediateCountDown,
             ImmediateDone, AwaitTrigger, TriggerToPredelay, TriggerToCounting,
             PredelayCountDown, PredelayDone, TriggeredCountDown, TriggeredDone,
             AwaitGateRise, GateRise, GateOpen, GateFall, Prestore, Store
      <3> QED BY <3>1, <3>3 DEF Clock, StateMachine
    <2> QED BY <2>1, <2>2 DEF StartsFromIdle
  <1>3. CASE w.register # "control"
    <2>1. control_command_signal' => control_command_signal /\ ~control_command_ack
      BY <1>3 DEF Clock, SystemBusWrite, ControlRegister
    <2>2. ~control_command_ack => control_command' = control_command
      BY <1>3 DEF Clock, SystemBusWrite, ControlRegister
    <2> QED BY <1>1, <2>1, <2>2 DEF StartsFromIdle
  <1> QED BY <1>2, <1>3

(* With orderly software the invariant holds on every edge.                 *)
THEOREM OrderlyInvariant == OrderlySpec => []OrderlyInv
  <1>1. Init => OrderlyInv
    <2> SUFFICES ASSUME Init PROVE OrderlyInv
      OBVIOUS
    <2>1. TypeOK
      BY InitTypeOK
    <2>2. OpenWhileCounting /\ WindowTracksTimer /\ PulsesTakeTwoEdges /\ StoresLastResult
      BY DEF Init, OpenWhileCounting, WindowTracksTimer, PulsesTakeTwoEdges, StoresLastResult,
             CountingStates, TimedStates, StoreStates
    <2> QED BY <2>1, <2>2 DEF OrderlyInv, StartsFromIdle, Init
  <1>2. OrderlyInv /\ [OrderlyNext]_vars => OrderlyInv'
    <2>1. ASSUME OrderlyInv, NEW w \in BusWrites, Orderly(w), Clock(w)
          PROVE  OrderlyInv'
      <3>1. TypeOK'
        BY <2>1, ClockTypeOK DEF OrderlyInv
      <3>2. MachineInv'
        BY <2>1, MachineStep DEF Clock
      <3>3. StartsFromIdle'
        BY <2>1, CommandStep
      <3> QED BY <3>1, <3>2, <3>3 DEF OrderlyInv, MachineInv
    <2>2. CASE OrderlyInv /\ UNCHANGED vars
      BY <2>2 DEF vars, counting, results, store, synchroniser, handshake, config, OrderlyInv,
                  TypeOK, StateMachineTypeOK, CountingTypeOK, BusTypeOK, OpenWhileCounting,
                  WindowTracksTimer, PulsesTakeTwoEdges, StoresLastResult, StartsFromIdle
    <2> QED BY <2>1, <2>2 DEF OrderlyNext
  <1> QED BY <1>1, <1>2, PTL DEF OrderlySpec

(* A count ended by a timeout was gathered over exactly the edges of the    *)
(* duration it is stored with and divided by.                               *)
THEOREM TimedCountCorrect == OrderlySpec => TimedCountMatchesDuration
  <1>1. OrderlyInv /\ (ImmediateDone \/ TriggeredDone) => window = counters_last_duration
    <2> SUFFICES ASSUME OrderlyInv, ImmediateDone \/ TriggeredDone
                 PROVE  window = counters_last_duration
      OBVIOUS
    <2>1. counter_state \in TimedStates /\ counter_clock = 0
      BY OrderlyCommanded DEF ImmediateDone, TriggeredDone, CountingStates, TimedStates
    <2>2. window \in Int
      BY CounterFpgaAssumption DEF OrderlyInv, TypeOK, CountingTypeOK, Word
    <2> QED BY <2>1, <2>2 DEF OrderlyInv, WindowTracksTimer
  <1>2. OrderlyInv /\ [OrderlyNext]_vars =>
          [ImmediateDone \/ TriggeredDone => window = counters_last_duration]_vars
    BY <1>1
  <1> QED BY <1>2, OrderlyInvariant, PTL DEF OrderlySpec, TimedCountMatchesDuration

(* A gated duration is one edge ahead of the edges that were counted.       *)
THEOREM GatedCountCorrect == OrderlySpec => GatedCountMatchesDuration
  <1>1. OrderlyInv /\ GateFall => Increment(window) = counters_last_duration
    <2> SUFFICES ASSUME OrderlyInv, GateFall
                 PROVE  Increment(window) = counters_last_duration
      OBVIOUS
    <2>1. counter_state = "gatedCounting_waitForGateFall"
      BY OrderlyCommanded DEF GateFall, CountingStates
    <2> QED BY <2>1 DEF OrderlyInv, WindowTracksTimer
  <1>2. OrderlyInv /\ [OrderlyNext]_vars =>
          [GateFall => Increment(window) = counters_last_duration]_vars
    BY <1>1
  <1> QED BY <1>2, OrderlyInvariant, PTL DEF OrderlySpec, GatedCountMatchesDuration

(* No pulse is counted twice: a timed count is at most half its window.     *)
THEOREM PulsesFit == OrderlySpec => []PulsesFitWindow
  <1>1. OrderlyInv => PulsesFitWindow
    <2> SUFFICES ASSUME OrderlyInv, counter_state \in TimedStates, NEW i \in Counters
                 PROVE  2 * counters_current_count[i] <= window + 1
      BY DEF PulsesFitWindow
    <2>1. /\ 2 * counters_current_count[i] <= window + (IF i \in signal_last THEN 1 ELSE 0)
          /\ counters_current_count[i] \in Int /\ window \in Int
      BY CounterFpgaAssumption DEF OrderlyInv, PulsesTakeTwoEdges, TypeOK, CountingTypeOK, Word
    <2> QED BY <2>1
  <1> QED BY <1>1, OrderlyInvariant, PTL

(* The memory is written only with the counts and the duration of the       *)
(* measurement that ended last.                                             *)
THEOREM StoreCorrect == OrderlySpec => []StoresLastResult
  <1>1. OrderlyInv => StoresLastResult
    BY DEF OrderlyInv
  <1> QED BY <1>1, OrderlyInvariant, PTL

(* The bin address follows the limit within one edge, whatever is written.  *)
THEOREM BinAddressBounded == Spec => BinAddressFollowsLimit
  <1>1. TypeOK /\ Next => cnt_counter_ram_addr' <= counter_max_bin_address
    <2> SUFFICES ASSUME TypeOK, StateMachine
                 PROVE  cnt_counter_ram_addr' <= counter_max_bin_address
      BY DEF Next, Clock
    <2>1. /\ BinInUse <= counter_max_bin_address /\ NextBin <= counter_max_bin_address
          /\ 0 <= counter_max_bin_address
      BY BinInUseBound, CounterFpgaAssumption DEF TypeOK, BusTypeOK
    <2>2. cnt_counter_ram_addr' \in {0, BinInUse, NextBin}
      BY DEF StateMachine, Active, Idle, ImmediateStart, ImmediateCountDown,
             ImmediateDone, AwaitTrigger, TriggerToPredelay, TriggerToCounting,
             PredelayCountDown, PredelayDone, TriggeredCountDown, TriggeredDone,
             AwaitGateRise, GateRise, GateOpen, GateFall, Prestore, Store,
             StartTimer, Latch, CountDown, Stay, KeepBin
    <2> QED BY <2>1, <2>2
  <1>2. TypeOK /\ [Next]_vars => [cnt_counter_ram_addr' <= counter_max_bin_address]_vars
    BY <1>1
  <1> QED BY <1>2, TypeCorrect, PTL DEF Spec, BinAddressFollowsLimit

(* The write port is open in the store states.                              *)
LEMMA PortStep == TypeOK /\ PortInv /\ StateMachine => PortInv'
  <1> SUFFICES ASSUME TypeOK, PortInv, StateMachine, counter_state' \in StoreStates
               PROVE  cnt_counter_ram_write_enable'
    BY DEF PortInv
  <1>1. CASE Prestore
    BY <1>1 DEF Prestore
  <1>2. CASE ~Prestore
    <2>1. counter_state' \notin StoreStates
      BY <1>2 DEF StateMachine, Active, Idle, ImmediateStart, StartTimer, ImmediateCountDown, CountDown,
              Stay, ImmediateDone, Latch, AwaitTrigger, TriggerToPredelay, TriggerToCounting,
              PredelayCountDown, PredelayDone, TriggeredCountDown, TriggeredDone, AwaitGateRise,
              GateRise, GateOpen, GateFall, Store, StoreStates
    <2> QED BY <2>1
  <1> QED BY <1>1, <1>2

(* No bin is skipped: it is left in the store states only, or because it is *)
(* out of use or reset, whatever software writes and when.                  *)
THEOREM BinLeftCorrect == Spec => BinLeftWhenWritten
  <1>1. Init => PortInv
    BY DEF Init, PortInv, StoreStates
  <1>2. TypeOK /\ PortInv /\ [Next]_vars => PortInv'
    <2>1. UNCHANGED vars /\ PortInv => PortInv'
      BY DEF vars, store, PortInv
    <2> QED BY <2>1, PortStep DEF Next, Clock
  <1>3. TypeOK /\ PortInv /\ Next /\ cnt_counter_ram_addr' # cnt_counter_ram_addr =>
          \/ cnt_counter_ram_write_enable
          \/ Resetting
          \/ cnt_counter_ram_addr > counter_max_bin_address
    <2> SUFFICES ASSUME TypeOK, PortInv, StateMachine, cnt_counter_ram_addr' # cnt_counter_ram_addr,
                        ~Resetting, ~(cnt_counter_ram_addr > counter_max_bin_address)
                 PROVE  cnt_counter_ram_write_enable
      BY DEF Next, Clock
    <2>1. BinInUse = cnt_counter_ram_addr
      BY DEF BinInUse
    <2>2. Store
      BY <2>1 DEF StateMachine, Active, Idle, ImmediateStart, StartTimer, ImmediateCountDown, CountDown,
              Stay, ImmediateDone, Latch, AwaitTrigger, TriggerToPredelay, TriggerToCounting,
              PredelayCountDown, PredelayDone, TriggeredCountDown, TriggeredDone, AwaitGateRise,
              GateRise, GateOpen, GateFall, Prestore, KeepBin
    <2>3. Commanded \in StoreStates => Commanded = counter_state
      <3>1. control_command \in control_command_t
        BY DEF TypeOK, BusTypeOK
      <3> QED BY <3>1 DEF Commanded, CommandTarget, StoreStates, control_command_t, StartCommands
    <2> QED BY <2>2, <2>3 DEF Store, StoreStates, PortInv
  <1> QED BY <1>1, <1>2, <1>3, TypeCorrect, PTL DEF Spec, BinLeftWhenWritten

(* A command is pending for at most two edges, so the acknowledge, which is *)
(* never taken back, cannot let it act again with a later write.            *)
LEMMA CommandEdge ==
    ASSUME TypeOK, AckInv, CommandTransient, NEW w \in BusWrites, Clock(w)
    PROVE  AckInv' /\ CommandTransient'
  <1>0. /\ write_wait \in Nat /\ WriteGap \in Nat
        /\ control_command_signal \in BOOLEAN /\ control_command_ack \in BOOLEAN
    BY CounterFpgaAssumption DEF TypeOK, BusTypeOK, StateMachineTypeOK
  <1>1. /\ w # NoWrite => write_wait = 0
        /\ write_wait' = IF w # NoWrite THEN WriteGap
                         ELSE IF write_wait > 0 THEN write_wait - 1 ELSE 0
        /\ control_command_ack' = (control_command_ack \/ control_command_signal)
    BY DEF Clock, SystemBusWrite, StateMachine
  <1>2. CASE w.register = "control"
    <2>1. w # NoWrite
      BY <1>2 DEF NoWrite
    <2> QED BY <1>0, <1>1, <2>1 DEF AckInv, CommandTransient
  <1>3. CASE w.register # "control"
    <2>1. control_command_signal' = (control_command_signal /\ ~control_command_ack)
      BY <1>3 DEF Clock, SystemBusWrite, ControlRegister
    <2>2. CASE control_command_signal /\ ~control_command_ack
      <3>1. control_command_ack' /\ write_wait >= WriteGap
        BY <1>0, <1>1, <2>2 DEF AckInv
      <3>2. write_wait' + 1 >= WriteGap
        BY <1>0, <1>1, <3>1
      <3> QED BY <3>1, <3>2 DEF AckInv, CommandTransient
    <2>3. CASE ~(control_command_signal /\ ~control_command_ack)
      BY <2>1, <2>3 DEF AckInv, CommandTransient
    <2> QED BY <2>2, <2>3
  <1> QED BY <1>2, <1>3

(* The command handshake, for any gap between writes and any software.      *)
THEOREM CommandCorrect == Spec => []CommandTransient
  <1>1. Init => AckInv /\ CommandTransient
    BY DEF Init, AckInv, CommandTransient
  <1>2. TypeOK /\ AckInv /\ CommandTransient /\ [Next]_vars => AckInv' /\ CommandTransient'
    <2>1. UNCHANGED vars /\ AckInv /\ CommandTransient => AckInv' /\ CommandTransient'
      BY DEF vars, handshake, AckInv, CommandTransient
    <2> QED BY <2>1, CommandEdge DEF Next
  <1> QED BY <1>1, <1>2, TypeCorrect, PTL DEF Spec

----------------------------------------------------------------------------
(* The counter implements CounterModes: each case of the state machine is   *)
(* one of the steps a measurement may take.                                 *)

(* A command redirects the machine only to idle, or from it.                *)
LEMMA CommandedFrom ==
    ASSUME OrderlyInv
    PROVE  \/ Commanded = counter_state
           \/ Commanded = "idle"
           \/ counter_state = "idle" /\ Commanded \in
                {"immediateCounting_start", "triggeredCounting_waitForTrigger",
                 "gatedCounting_waitForGateRise"}
  <1>1. control_command \in control_command_t
    BY DEF OrderlyInv, TypeOK, BusTypeOK
  <1> QED BY <1>1 DEF OrderlyInv, StartsFromIdle, Commanded, CommandTarget, StartCommands,
                      control_command_t

(* The bin and the counting of the two specifications are the same.         *)
LEMMA SameOperators ==
    /\ Modes!InUse = BinInUse
    /\ Modes!Nothing = [counts |-> Zero, duration |-> 0]
    /\ Modes!Nothing.counts = Zero
    /\ \A n : Modes!Up(n) = Increment(n)
  BY DEF Modes!InUse, BinInUse, Modes!Nothing, Zero, Modes!Up, Increment

(* Counters that are held show an edge later what a closed measurement has. *)
LEMMA HeldIsClosed ==
    ASSUME counters_reset' = TRUE, counter_state' \notin TimedStates
    PROVE  Modes!Closed
  <1>1. elapsed' = 0 /\ pulses' = Zero /\ high' = {} /\ target' = 0
    BY DEF elapsed, pulses, high, target, Zero
  <1> QED BY <1>1, SameOperators DEF Modes!Closed

(* The machine in idle: the counter is stopped, and reset if told to.       *)
LEMMA StopStep ==
    ASSUME OrderlyInv, Idle
    PROVE  Modes!Stop
  <1>1. /\ counter_state' = "idle" /\ counters_reset' = TRUE
        /\ cnt_counter_ram_write_enable' = FALSE
    BY DEF Idle, ClosePort
  <1>2. mode' = "none" /\ phase' = "idle" /\ port' = {}
    BY <1>1 DEF mode, phase, port
  <1>3. Modes!Closed
    BY <1>1, HeldIsClosed DEF TimedStates
  <1>4. CASE Resetting
    <2>1. cnt_counter_ram_addr' = 0 /\ counters_last_count' = Zero /\ counters_last_duration' = 0
      BY <1>4 DEF Idle
    <2>2. result' = Modes!Nothing
      BY <2>1, SameOperators DEF result, Zero
    <2> QED BY <1>2, <1>3, <2>1, <2>2 DEF Modes!Stop
  <1>5. CASE ~Resetting
    <2>1. /\ cnt_counter_ram_addr' = BinInUse /\ counters_last_count' = counters_last_count
          /\ counters_last_duration' = counters_last_duration
      BY <1>5 DEF Idle
    <2>2. result' = result /\ Modes!SameBin
      BY <2>1, SameOperators DEF result, Modes!SameBin
    <2> QED BY <1>2, <1>3, <2>2 DEF Modes!Stop
  <1> QED BY <1>4, <1>5

(* The states in which a repeated mode waits, the predelay among them.      *)
WaitingStates == {"triggeredCounting_waitForTrigger", "triggeredCounting_predelay",
                  "gatedCounting_waitForGateRise"}

(* Waiting for the trigger, and after it for the predelay to pass.          *)
LEMMA WaitStep ==
    ASSUME OrderlyInv, AwaitTrigger \/ TriggerToPredelay \/ PredelayCountDown \/ AwaitGateRise
    PROVE  Modes!Wait
  <1>1. /\ Commanded \in WaitingStates /\ counter_state' \in WaitingStates
        /\ Commanded = "gatedCounting_waitForGateRise"
             <=> counter_state' = "gatedCounting_waitForGateRise"
        /\ counters_reset' = counters_reset
        /\ UNCHANGED <<counters_last_count, counters_last_duration, store>>
        /\ cnt_counter_ram_addr' = BinInUse
    BY DEF AwaitTrigger, TriggerToPredelay, PredelayCountDown, AwaitGateRise, CountDown, Stay,
           KeepBin, results, WaitingStates
  <1>2. counters_reset' = TRUE
    <2>1. counters_reset \in BOOLEAN
      BY DEF OrderlyInv, TypeOK, StateMachineTypeOK
    <2> QED BY <1>1, <2>1, OrderlyCommanded DEF CountingStates, TimedStates, WaitingStates
  <1>3. counter_state = "idle" \/ counter_state = Commanded
    BY <1>1, CommandedFrom DEF WaitingStates
  <1>4. /\ mode' \in {"triggered", "gated"} /\ phase' = "waiting"
        /\ phase \in {"idle", "waiting"} /\ (phase = "waiting" => mode' = mode)
    BY <1>1, <1>3 DEF mode, phase, WaitingStates, ImmediateStates, TriggeredStates,
       CountingStates, TimedStates, FinishedStates, StoreStates
  <1>5. Modes!Closed
    BY <1>1, <1>2, HeldIsClosed DEF TimedStates, WaitingStates
  <1>6. result' = result /\ port' = port /\ Modes!SameBin
    BY <1>1, SameOperators DEF result, port, store, Modes!SameBin
  <1> QED BY <1>4, <1>5, <1>6 DEF Modes!Wait

(* A timed measurement opens with the timeout that is set now.              *)
LEMMA OpenTimedStep ==
    ASSUME OrderlyInv, OrderlyInv', InputCounters,
           ImmediateStart \/ TriggerToCounting \/ PredelayDone
    PROVE  Modes!Open
  <1>1. /\ Commanded \in {"immediateCounting_start", "triggeredCounting_waitForTrigger",
                         "triggeredCounting_predelay"}
        /\ counter_state' = IF Commanded = "immediateCounting_start"
                            THEN "immediateCounting_waitForTimeout"
                            ELSE "triggeredCounting_waitForTimeout"
        /\ counters_reset' = FALSE /\ counters_last_duration' = counter_timeout
        /\ UNCHANGED <<counters_last_count, store>> /\ cnt_counter_ram_addr' = BinInUse
    BY DEF ImmediateStart, TriggerToCounting, PredelayDone, StartTimer, KeepBin
  <1>2. counters_reset
    BY <1>1, OrderlyCommanded DEF CountingStates, TimedStates
  <1>3. counter_state = "idle" \/ counter_state = Commanded
    BY <1>1, CommandedFrom
  <1>4. /\ phase \in {"idle", "waiting"} /\ phase' = "counting"
        /\ mode' \in {"immediate", "triggered"} /\ (phase = "waiting" => mode' = mode)
    BY <1>1, <1>3 DEF mode, phase, ImmediateStates, TriggeredStates,
       CountingStates, TimedStates, FinishedStates, StoreStates
  <1>5. elapsed' = 0 /\ pulses' = Zero /\ high' = {}
    BY <1>1, <1>2 DEF InputCounters, elapsed, pulses, high, Zero
  <1>6. target' = counter_timeout
    BY <1>1 DEF target, TimedStates
  <1>7. Modes!Overwritten
    <2>1. counter_timeout \in Modes!Word
      BY DEF OrderlyInv, TypeOK, BusTypeOK, Word, Modes!Word
    <2>2. result' = [result EXCEPT !.duration = counter_timeout]
      BY <1>1 DEF result
    <2> QED BY <2>1, <2>2 DEF Modes!Overwritten
  <1>8. port' = port /\ Modes!SameBin
    BY <1>1, SameOperators DEF port, store, Modes!SameBin
  <1> QED BY <1>4, <1>5, <1>6, <1>7, <1>8, SameOperators DEF Modes!Open, Modes!Modes

(* A gated measurement opens as the gate rises.                             *)
LEMMA OpenGatedStep ==
    ASSUME OrderlyInv, OrderlyInv', InputCounters, GateRise
    PROVE  Modes!Open
  <1>1. /\ Commanded = "gatedCounting_waitForGateRise"
        /\ counter_state' = "gatedCounting_waitForGateFall"
        /\ counters_reset' = FALSE /\ counters_last_duration' = 1
        /\ UNCHANGED <<counters_last_count, store>> /\ cnt_counter_ram_addr' = BinInUse
    BY DEF GateRise, KeepBin
  <1>2. counters_reset
    BY <1>1, OrderlyCommanded DEF CountingStates, TimedStates
  <1>3. counter_state = "idle" \/ counter_state = Commanded
    BY <1>1, CommandedFrom
  <1>4. /\ phase \in {"idle", "waiting"} /\ phase' = "counting"
        /\ mode' = "gated" /\ (phase = "waiting" => mode' = mode)
    BY <1>1, <1>3 DEF mode, phase, ImmediateStates, TriggeredStates,
       CountingStates, TimedStates, FinishedStates, StoreStates
  <1>5. elapsed' = 0 /\ pulses' = Zero /\ high' = {}
    BY <1>1, <1>2 DEF InputCounters, elapsed, pulses, high, Zero
  <1>6. target' = 0
    BY <1>1 DEF target, TimedStates
  <1>7. Modes!Overwritten
    <2>1. 1 \in Modes!Word
      BY CounterFpgaAssumption DEF Modes!Word
    <2>2. result' = [result EXCEPT !.duration = 1]
      BY <1>1 DEF result
    <2> QED BY <2>1, <2>2 DEF Modes!Overwritten
  <1>8. port' = port /\ Modes!SameBin
    BY <1>1, SameOperators DEF port, store, Modes!SameBin
  <1> QED BY <1>4, <1>5, <1>6, <1>7, <1>8, SameOperators DEF Modes!Open, Modes!Modes

(* One edge of a measurement.                                               *)
LEMMA CountStep ==
    ASSUME OrderlyInv, OrderlyInv', InputCounters,
           ImmediateCountDown \/ TriggeredCountDown \/ GateOpen
    PROVE  Modes!Count
  <1>1. /\ Commanded \in CountingStates /\ counter_state' = Commanded
        /\ counters_reset' = counters_reset
        /\ UNCHANGED <<counters_last_count, store>> /\ cnt_counter_ram_addr' = BinInUse
        /\ counter_state' \in TimedStates => counters_last_duration' = counters_last_duration
    BY DEF ImmediateCountDown, TriggeredCountDown, GateOpen, CountDown, Stay, KeepBin,
           CountingStates, TimedStates
  <1>2. counter_state = Commanded /\ counters_reset = FALSE
    <2>1. counters_reset \in BOOLEAN
      BY DEF OrderlyInv, TypeOK, StateMachineTypeOK
    <2> QED BY <1>1, <2>1, OrderlyCommanded
  <1>3. phase = "counting" /\ phase' = phase /\ mode' = mode /\ target' = target
    BY <1>1, <1>2 DEF phase, mode, target, CountingStates, TimedStates
  <1>4. elapsed' = Increment(elapsed)
    BY <1>1, <1>2 DEF elapsed, InputCounters
  <1>5. /\ high' \in SUBSET Counters
        /\ pulses' = [i \in Counters |-> IF i \in high' \ high THEN Increment(pulses[i])
                                                              ELSE pulses[i]]
    <2>1. high = signal_last /\ high' = inputs_buffer \cap Counters
      BY <1>1, <1>2 DEF high, InputCounters
    <2>2. pulses = counters_current_count /\ pulses' = counters_current_count'
      BY <1>1, <1>2 DEF pulses
    <2>3. counters_current_count' = [i \in Counters |->
            IF i \in inputs_buffer /\ i \notin signal_last
            THEN Increment(counters_current_count[i]) ELSE counters_current_count[i]]
      BY <1>2 DEF InputCounters
    <2> QED BY <2>1, <2>2, <2>3
  <1>6. Modes!Overwritten
    <2>1. counters_last_duration' \in Modes!Word
      BY DEF OrderlyInv, TypeOK, StateMachineTypeOK, Word, Modes!Word
    <2>2. result' = [result EXCEPT !.duration = counters_last_duration']
      BY <1>1 DEF result
    <2> QED BY <2>1, <2>2 DEF Modes!Overwritten
  <1>7. port' = port /\ Modes!SameBin
    BY <1>1, SameOperators DEF port, store, Modes!SameBin
  <1> QED BY <1>3, <1>4, <1>5, <1>6, <1>7, SameOperators DEF Modes!Count

(* The measurement ends: its result is the pulses of the edges it was to    *)
(* see, or of the edges the gate was open.                                  *)
LEMMA FinishStep ==
    ASSUME OrderlyInv, OrderlyInv', InputCounters, ImmediateDone \/ TriggeredDone \/ GateFall
    PROVE  Modes!Finish
  <1>1. /\ Commanded \in CountingStates
        /\ counter_state' = IF Commanded = "immediateCounting_waitForTimeout" THEN "idle"
                            ELSE IF Commanded = "triggeredCounting_waitForTimeout"
                            THEN "triggeredCounting_prestore" ELSE "gatedCounting_prestore"
        /\ counters_reset' = TRUE /\ counters_last_count' = counters_current_count
        /\ counters_last_duration' = counters_last_duration
        /\ UNCHANGED store /\ cnt_counter_ram_addr' = BinInUse
        /\ Commanded \in TimedStates => counter_clock = 0
    BY DEF ImmediateDone, TriggeredDone, GateFall, Latch, KeepBin, CountingStates, TimedStates
  <1>2. counter_state = Commanded /\ counters_reset = FALSE
    <2>1. counters_reset \in BOOLEAN
      BY DEF OrderlyInv, TypeOK, StateMachineTypeOK
    <2> QED BY <1>1, <2>1, OrderlyCommanded
  <1>3. /\ phase = "counting"
        /\ IF mode = "immediate" THEN mode' = "none" /\ phase' = "idle"
                                 ELSE mode' = mode /\ phase' = "finished"
        /\ mode = "gated" <=> counter_state \notin TimedStates
    BY <1>1, <1>2 DEF phase, mode, ImmediateStates, TriggeredStates, CountingStates,
       TimedStates, FinishedStates
  <1>4. Modes!Closed
    BY <1>1, HeldIsClosed DEF TimedStates, CountingStates
  <1>5. elapsed = window /\ pulses = counters_current_count
    BY <1>2 DEF elapsed, pulses
  <1>6. counter_state \in TimedStates => window = counters_last_duration
    <2>1. window \in Int
      BY CounterFpgaAssumption DEF OrderlyInv, TypeOK, CountingTypeOK, Word
    <2> QED BY <1>1, <1>2, <2>1 DEF OrderlyInv, WindowTracksTimer
  <1>7. counter_state \notin TimedStates => Increment(window) = counters_last_duration
    BY <1>1, <1>2 DEF OrderlyInv, WindowTracksTimer, CountingStates
  <1>8. mode # "gated" => elapsed = target
    BY <1>3, <1>5, <1>6 DEF target
  <1>9. result' = [counts |-> pulses, duration |-> IF mode = "gated" THEN Increment(elapsed)
                                                                      ELSE elapsed]
    BY <1>1, <1>3, <1>5, <1>6, <1>7 DEF result
  <1>10. port' = port /\ Modes!SameBin
    BY <1>1, SameOperators DEF port, store, Modes!SameBin
  <1> QED BY <1>3, <1>4, <1>8, <1>9, <1>10, SameOperators DEF Modes!Finish

(* The result is presented to the memory for one edge.                      *)
LEMMA PutStep ==
    ASSUME OrderlyInv, Prestore
    PROVE  Modes!Put
  <1>1. /\ Commanded \in FinishedStates
        /\ counter_state' = IF Commanded = "triggeredCounting_prestore"
                            THEN "triggeredCounting_store" ELSE "gatedCounting_store"
        /\ counters_reset' = counters_reset /\ cnt_counter_ram_write_enable' = TRUE
        /\ cnt_counter_ram_wdata' = counters_last_count
        /\ cnt_duration_ram_wdata' = counters_last_duration
        /\ UNCHANGED <<counters_last_count, counters_last_duration>>
        /\ cnt_counter_ram_addr' = BinInUse
    BY DEF Prestore, FinishedStates, KeepBin, results
  <1>2. counters_reset' = TRUE
    <2>1. counters_reset \in BOOLEAN
      BY DEF OrderlyInv, TypeOK, StateMachineTypeOK
    <2> QED BY <1>1, <2>1, OrderlyCommanded DEF CountingStates, TimedStates, FinishedStates
  <1>3. counter_state = Commanded
    BY <1>1, CommandedFrom DEF FinishedStates
  <1>4. phase = "finished" /\ phase' = "storing" /\ mode' = mode
    BY <1>1, <1>3 DEF phase, mode, ImmediateStates, TriggeredStates, CountingStates,
       TimedStates, FinishedStates, StoreStates
  <1>5. Modes!Closed
    BY <1>1, <1>2, HeldIsClosed DEF TimedStates
  <1>6. port' = {result} /\ result' = result /\ Modes!SameBin
    BY <1>1, SameOperators DEF port, result, Modes!SameBin
  <1> QED BY <1>4, <1>5, <1>6 DEF Modes!Put

(* The bin that was written is left for the next one.                       *)
LEMMA NextBinStep ==
    ASSUME OrderlyInv, Store
    PROVE  Modes!NextBin
  <1>1. /\ Commanded \in StoreStates
        /\ counter_state' = IF Commanded = "triggeredCounting_store"
                            THEN "triggeredCounting_waitForTrigger"
                            ELSE "gatedCounting_waitForGateRise"
        /\ counters_reset' = counters_reset /\ cnt_counter_ram_write_enable' = FALSE
        /\ UNCHANGED <<counters_last_count, counters_last_duration>>
        /\ cnt_counter_ram_addr' = NextBin
    BY DEF Store, StoreStates, ClosePort, results
  <1>2. counters_reset' = TRUE
    <2>1. counters_reset \in BOOLEAN
      BY DEF OrderlyInv, TypeOK, StateMachineTypeOK
    <2> QED BY <1>1, <2>1, OrderlyCommanded DEF CountingStates, TimedStates, StoreStates
  <1>3. counter_state = Commanded
    BY <1>1, CommandedFrom DEF StoreStates
  <1>4. phase = "storing" /\ phase' = "waiting" /\ mode' = mode
    BY <1>1, <1>3 DEF phase, mode, ImmediateStates, TriggeredStates, CountingStates,
       TimedStates, FinishedStates, StoreStates
  <1>5. Modes!Closed
    BY <1>1, <1>2, HeldIsClosed DEF TimedStates
  <1>6. port' = {} /\ result' = result
    BY <1>1 DEF port, result
  <1>7. cnt_counter_ram_addr' = IF Modes!InUse = counter_max_bin_address THEN 0 ELSE Modes!InUse + 1
    BY <1>1, SameOperators DEF NextBin
  <1> QED BY <1>4, <1>5, <1>6, <1>7 DEF Modes!NextBin

(* Every edge is a step of a measurement, whatever is written on it.        *)
LEMMA EdgeImplementsModes ==
    ASSUME OrderlyInv, OrderlyInv', NEW w \in BusWrites, Clock(w)
    PROVE  Modes!Next
  <1>1. counter_timeout' \in Modes!Word /\ counter_max_bin_address' \in 0..MaxBin
    BY DEF OrderlyInv, TypeOK, BusTypeOK, Word, Modes!Word
  <1>2. StateMachine /\ InputCounters
    BY DEF Clock
  <1>3. CASE Idle
    BY <1>1, <1>3, StopStep DEF Modes!Next
  <1>4. CASE Active
    <2>1. CASE AwaitTrigger \/ TriggerToPredelay \/ PredelayCountDown \/ AwaitGateRise
      BY <1>1, <2>1, WaitStep DEF Modes!Next
    <2>2. CASE ImmediateStart \/ TriggerToCounting \/ PredelayDone
      BY <1>1, <1>2, <2>2, OpenTimedStep DEF Modes!Next
    <2>3. CASE GateRise
      BY <1>1, <1>2, <2>3, OpenGatedStep DEF Modes!Next
    <2>4. CASE ImmediateCountDown \/ TriggeredCountDown \/ GateOpen
      BY <1>1, <1>2, <2>4, CountStep DEF Modes!Next
    <2>5. CASE ImmediateDone \/ TriggeredDone \/ GateFall
      BY <1>1, <1>2, <2>5, FinishStep DEF Modes!Next
    <2>6. CASE Prestore
      BY <1>1, <2>6, PutStep DEF Modes!Next
    <2>7. CASE Store
      BY <1>1, <2>7, NextBinStep DEF Modes!Next
    <2> QED BY <1>4, <2>1, <2>2, <2>3, <2>4, <2>5, <2>6, <2>7 DEF Active
  <1> QED BY <1>2, <1>3, <1>4 DEF StateMachine

(* Released from reset, nothing has been measured.                          *)
LEMMA InitImplementsModes ==
    ASSUME Init
    PROVE  Modes!Init
  <1>1. /\ counter_state = "idle" /\ counters_reset = TRUE
        /\ cnt_counter_ram_write_enable = FALSE
        /\ counters_last_count = Zero /\ counters_last_duration = 0
        /\ cnt_counter_ram_addr = 0 /\ counter_max_bin_address = MaxBin
    BY DEF Init
  <1>2. mode = "none" /\ phase = "idle" /\ target = 0
    BY <1>1 DEF mode, phase, target, TimedStates
  <1>3. elapsed = 0 /\ pulses = Zero /\ high = {} /\ port = {}
    BY <1>1 DEF elapsed, pulses, high, port
  <1>4. result = Modes!Nothing
    BY <1>1, SameOperators DEF result
  <1>5. counter_timeout \in Modes!Word
    BY CounterFpgaAssumption DEF Init, Word, Modes!Word
  <1> QED BY <1>1, <1>2, <1>3, <1>4, <1>5, SameOperators DEF Modes!Init

(* With orderly software the registers of the counter implement the         *)
(* measurements of CounterModes.                                            *)
THEOREM CounterImplementsModes == OrderlySpec => ImplementsModes
  <1>1. Init => Modes!Init
    BY InitImplementsModes
  <1>2. OrderlyInv /\ OrderlyInv' /\ [OrderlyNext]_vars => [Modes!Next]_(Modes!vars)
    <2>1. CASE OrderlyInv /\ OrderlyInv' /\ OrderlyNext
      BY <2>1, EdgeImplementsModes DEF OrderlyNext
    <2>2. CASE UNCHANGED vars
      BY <2>2 DEF vars, counting, results, store, synchroniser, handshake, config, Modes!vars,
         mode, phase, elapsed, pulses, high, target, result, port
    <2> QED BY <2>1, <2>2
  <1> QED BY <1>1, <1>2, OrderlyInvariant, PTL DEF OrderlySpec, ImplementsModes, Modes!Spec

=============================================================================
