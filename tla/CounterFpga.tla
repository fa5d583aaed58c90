----------------------------- MODULE CounterFpga -----------------------------
(****************************************************************************)
(* The photon counter of the FPGA image: the state machine, the control     *)
(* command handshake and the configuration registers of                     *)
(* fpga/prj/counter/rtl/red_pitaya_counter.sv, with the edge counters of    *)
(* input_counter.sv.  One step of Next is one rising edge of i_clk.  Every  *)
(* unprimed variable is the value a register holds before the edge, which   *)
(* is what every other always_ff block of the synthesised design reads;     *)
(* blocking assignments inside the state machine block are LET values.      *)
(*                                                                          *)
(* Abstractions.  The LEDs, debug_clock, the DNA and the registers that no  *)
(* logic reads (counter_number_of_bin_repetitions, bin_repetition_index)    *)
(* are left out, and so is counting_stopped, which is assigned together     *)
(* with counters_reset and always equals it.  counters_reset has the same   *)
(* value for every channel and is one Boolean.  The bin memory itself and   *)
(* the bus handshake are in CounterBus; here is the port it is written by.  *)
(****************************************************************************)
EXTENDS Integers

CONSTANTS
    Inputs,          \* the input lines, num_inputs of them
    Counters,        \* the lines that have an edge counter
    MaxWord,         \* largest value of a 32-bit register
    MaxBin,          \* largest bin address
    Commands,        \* commands software writes into the control register
    Timeouts,        \* values software writes into counter_timeout
    Predelays,       \* values software writes into counter_predelay
    BinLimits,       \* values software writes into counter_max_bin_address
    TriggerConfigs,  \* values software writes into the trigger configuration
    DefaultTimeout,  \* counter_timeout after reset
    WriteGap         \* edges between two bus writes that carry no write

ImmediateStates == {"immediateCounting_start", "immediateCounting_waitForTimeout"}
TriggeredStates == {"triggeredCounting_waitForTrigger", "triggeredCounting_store",
                    "triggeredCounting_predelay", "triggeredCounting_prestore",
                    "triggeredCounting_waitForTimeout"}
GatedStates == {"gatedCounting_waitForGateRise", "gatedCounting_waitForGateFall",
                "gatedCounting_prestore", "gatedCounting_store"}
counter_state_t == {"idle"} \cup ImmediateStates \cup TriggeredStates \cup GatedStates

StartCommands == {"countImmediately", "countTriggered", "countGated"}
control_command_t == {"none", "gotoIdle", "reset", "trigger"} \cup StartCommands

Word == 0..MaxWord
TriggerConfig == [mask : SUBSET Inputs, invert : SUBSET Inputs, polarity : BOOLEAN]

ASSUME CounterFpgaAssumption ==
    /\ Counters \subseteq Inputs
    /\ MaxWord \in Nat \ {0} /\ MaxBin \in Nat /\ WriteGap \in Nat
    /\ Commands \subseteq control_command_t
    /\ Timeouts \subseteq Word /\ Predelays \subseteq Word
    /\ BinLimits \subseteq 0..MaxBin
    /\ TriggerConfigs \subseteq TriggerConfig
    /\ DefaultTimeout \in Word

VARIABLES
    counter_state, counter_clock,
    counters_reset,                      \* the edge counters are held at zero
    counters_current_count, signal_last, \* the edge counters
    counters_last_count, counters_last_duration,
    cnt_counter_ram_addr, cnt_counter_ram_write_enable,
    cnt_counter_ram_wdata, cnt_duration_ram_wdata,
    inputs_meta, inputs_meta2, inputs_buffer,
    control_command, control_command_signal, control_command_ack,
    counter_timeout, counter_predelay, counter_max_bin_address, trigger,
    write_wait,                          \* edges until the bus can write again
    window                               \* history: edges the open counters have seen

counting == <<counters_current_count, signal_last, window>>
results == <<counters_last_count, counters_last_duration>>
store == <<cnt_counter_ram_write_enable, cnt_counter_ram_wdata, cnt_duration_ram_wdata>>
synchroniser == <<inputs_meta, inputs_meta2, inputs_buffer>>
handshake == <<control_command, control_command_signal, control_command_ack>>
config == <<counter_timeout, counter_predelay, counter_max_bin_address, trigger>>
vars == <<counter_state, counter_clock, counters_reset, counting, results,
          cnt_counter_ram_addr, store, synchroniser, handshake, config, write_wait>>

Zero == [i \in Counters |-> 0]
Increment(n) == IF n = MaxWord THEN 0 ELSE n + 1

----------------------------------------------------------------------------
(* Released from reset.  control_command_signal is not reset by the code;   *)
(* a configured FPGA powers it up at zero.                                  *)
Init ==
    /\ counter_state = "idle" /\ counter_clock = 0
    /\ counters_reset = TRUE
    /\ counters_current_count = Zero /\ signal_last = {} /\ window = 0
    /\ counters_last_count = Zero /\ counters_last_duration = 0
    /\ cnt_counter_ram_addr = 0 /\ cnt_counter_ram_write_enable = FALSE
    /\ cnt_counter_ram_wdata = Zero /\ cnt_duration_ram_wdata = 0
    /\ inputs_meta = {} /\ inputs_meta2 = {} /\ inputs_buffer = {}
    /\ control_command = "none" /\ control_command_signal = FALSE
    /\ control_command_ack = FALSE
    /\ counter_timeout = DefaultTimeout /\ counter_predelay = 0
    /\ counter_max_bin_address = MaxBin
    /\ trigger = [mask |-> {}, invert |-> {}, polarity |-> TRUE]
    /\ write_wait = 0

----------------------------------------------------------------------------
(* System bus write.  The AXI slave raises sys_wen for one edge and keeps   *)
(* it low for at least WriteGap edges before the next write.                *)

NoWrite == [register |-> "nothing"]
BusWrites ==
    {NoWrite}
    \cup [register : {"control"}, value : Commands]
    \cup [register : {"timeout"}, value : Timeouts]
    \cup [register : {"predelay"}, value : Predelays]
    \cup [register : {"numberOfBins"}, value : BinLimits]
    \cup [register : {"config"}, value : TriggerConfigs]

(* Mutant of ControlRegister: the acknowledge clears the command, not its   *)
(* signal.                                                                  *)
ControlRegisterKeepsSignal(w) ==
    IF w.register = "control"
    THEN control_command' = w.value /\ control_command_signal' = TRUE
    ELSE /\ control_command' = IF control_command_ack THEN "none" ELSE control_command
         /\ UNCHANGED control_command_signal

(* An acknowledged command is withdrawn, unless this edge writes a new one: *)
(* the write is the later nonblocking assignment.                           *)
ControlRegister(w) ==
    IF w.register = "control"
    THEN /\ control_command' = w.value
         /\ control_command_signal' = TRUE
    ELSE /\ control_command' = IF control_command_ack THEN "none" ELSE control_command
         /\ control_command_signal' = (control_command_signal /\ ~control_command_ack)

Written(w, register, old) == IF w.register = register THEN w.value ELSE old

SystemBusWrite(w) ==
    /\ w # NoWrite => write_wait = 0
    /\ write_wait' = IF w # NoWrite THEN WriteGap
                     ELSE IF write_wait > 0 THEN write_wait - 1 ELSE 0
    /\ ControlRegister(w)
    /\ counter_timeout' = Written(w, "timeout", counter_timeout)
    /\ counter_predelay' = Written(w, "predelay", counter_predelay)
    /\ counter_max_bin_address' = Written(w, "numberOfBins", counter_max_bin_address)
    /\ trigger' = Written(w, "config", trigger)

----------------------------------------------------------------------------
(* The edge counters and the signals the state machine reads.               *)

InputCounters ==
    /\ counters_current_count' =
         [i \in Counters |->
            IF counters_reset THEN 0
            ELSE IF i \in inputs_buffer /\ i \notin signal_last
                 THEN Increment(counters_current_count[i])
                 ELSE counters_current_count[i]]
    /\ signal_last' = IF counters_reset THEN {} ELSE inputs_buffer \cap Counters
    /\ window' = IF counters_reset THEN 0 ELSE Increment(window)

(* An empty mask matches every input, so with polarity 1 it always triggers. *)
Inverted == (inputs_buffer \ trigger.invert) \cup (trigger.invert \ inputs_buffer)
trigger_signal == (trigger.mask \subseteq Inverted) = trigger.polarity

Resetting == control_command_signal /\ control_command = "reset"

CommandTarget ==
    [c \in {"gotoIdle", "reset"} \cup StartCommands |->
        CASE c = "countImmediately" -> "immediateCounting_start"
          [] c = "countTriggered" -> "triggeredCounting_waitForTrigger"
          [] c = "countGated" -> "gatedCounting_waitForGateRise"
          [] OTHER -> "idle"]

(* The state whose case runs on this edge: a pending command redirects the  *)
(* machine before the case statement looks at counter_state.                *)
Commanded ==
    IF ~control_command_signal \/ control_command = "none" THEN counter_state
    ELSE IF control_command # "trigger" THEN CommandTarget[control_command]
    ELSE IF counter_state = "triggeredCounting_waitForTrigger"
         THEN "triggeredCounting_waitForTimeout" ELSE counter_state

(* Mutant of BinInUse: the limit is not checked.                            *)
BinUnchecked == cnt_counter_ram_addr

(* The bin address, brought back into the bins in use.                      *)
BinInUse == IF cnt_counter_ram_addr > counter_max_bin_address THEN 0 ELSE cnt_counter_ram_addr

(* Mutant of NextBin: the bin is not left.                                  *)
NextBinStays == BinInUse

NextBin == IF BinInUse = counter_max_bin_address THEN 0 ELSE BinInUse + 1

(* Mutant of KeepBin: every command restarts the bins, not only a reset.    *)
CommandRestartsBins ==
    cnt_counter_ram_addr' = IF control_command_signal THEN 0 ELSE BinInUse

KeepBin == cnt_counter_ram_addr' = BinInUse

ClosePort ==
    /\ cnt_counter_ram_write_enable' = FALSE
    /\ UNCHANGED <<cnt_counter_ram_wdata, cnt_duration_ram_wdata>>

Synchronise(lines) ==
    /\ inputs_meta' = lines
    /\ inputs_meta2' = inputs_meta
    /\ inputs_buffer' = inputs_meta2

----------------------------------------------------------------------------
(* The cases of the state machine.                                          *)

Idle ==
    /\ Commanded = "idle"
    /\ counter_state' = "idle"
    /\ counters_reset' = TRUE
    /\ inputs_meta' = {} /\ inputs_meta2' = {} /\ inputs_buffer' = {}
    /\ ClosePort
    /\ counters_last_count' = IF Resetting THEN Zero ELSE counters_last_count
    /\ counters_last_duration' = IF Resetting THEN 0 ELSE counters_last_duration
    /\ cnt_counter_ram_addr' = IF Resetting THEN 0 ELSE BinInUse
    /\ UNCHANGED counter_clock

(* Load the timer and release the edge counters.                            *)
StartTimer(wait) ==
    /\ counter_clock' = counter_timeout
    /\ counters_last_duration' = counter_timeout
    /\ counters_reset' = FALSE
    /\ counter_state' = wait
    /\ KeepBin
    /\ UNCHANGED <<counters_last_count, store>>

(* Latch the counts and hold the edge counters in reset.                    *)
Latch(next) ==
    /\ counters_last_count' = counters_current_count
    /\ counters_reset' = TRUE
    /\ counter_state' = next
    /\ KeepBin
    /\ UNCHANGED <<counter_clock, counters_last_duration, store>>

Stay ==
    /\ counter_state' = Commanded
    /\ KeepBin
    /\ UNCHANGED <<counters_reset, counters_last_count, store>>

CountDown ==
    /\ counter_clock # 0
    /\ counter_clock' = counter_clock - 1
    /\ UNCHANGED counters_last_duration
    /\ Stay

ImmediateStart ==
    /\ Commanded = "immediateCounting_start"
    /\ StartTimer("immediateCounting_waitForTimeout")

ImmediateCountDown == Commanded = "immediateCounting_waitForTimeout" /\ CountDown

(* Mutant of ImmediateDone: the counter starts over instead of stopping.    *)
ImmediateRepeats ==
    /\ Commanded = "immediateCounting_waitForTimeout"
    /\ counter_clock = 0
    /\ Latch("immediateCounting_start")

ImmediateDone ==
    /\ Commanded = "immediateCounting_waitForTimeout"
    /\ counter_clock = 0
    /\ Latch("idle")

AwaitTrigger ==
    /\ Commanded = "triggeredCounting_waitForTrigger"
    /\ ~trigger_signal
    /\ Stay
    /\ UNCHANGED <<counter_clock, counters_last_duration>>

TriggerToPredelay ==
    /\ Commanded = "triggeredCounting_waitForTrigger"
    /\ trigger_signal /\ counter_predelay # 0
    /\ counter_clock' = counter_predelay
    /\ counter_state' = "triggeredCounting_predelay"
    /\ KeepBin
    /\ UNCHANGED <<counters_reset, results, store>>

TriggerToCounting ==
    /\ Commanded = "triggeredCounting_waitForTrigger"
    /\ trigger_signal /\ counter_predelay = 0
    /\ StartTimer("triggeredCounting_waitForTimeout")

PredelayCountDown == Commanded = "triggeredCounting_predelay" /\ CountDown

PredelayDone ==
    /\ Commanded = "triggeredCounting_predelay"
    /\ counter_clock = 0
    /\ StartTimer("triggeredCounting_waitForTimeout")

TriggeredCountDown == Commanded = "triggeredCounting_waitForTimeout" /\ CountDown

TriggeredDone ==
    /\ Commanded = "triggeredCounting_waitForTimeout"
    /\ counter_clock = 0
    /\ Latch("triggeredCounting_prestore")

AwaitGateRise ==
    /\ Commanded = "gatedCounting_waitForGateRise"
    /\ ~trigger_signal
    /\ Stay
    /\ UNCHANGED <<counter_clock, counters_last_duration>>

GateRise ==
    /\ Commanded = "gatedCounting_waitForGateRise"
    /\ trigger_signal
    /\ counters_last_duration' = 1
    /\ counters_reset' = FALSE
    /\ counter_state' = "gatedCounting_waitForGateFall"
    /\ KeepBin
    /\ UNCHANGED <<counter_clock, counters_last_count, store>>

GateOpen ==
    /\ Commanded = "gatedCounting_waitForGateFall"
    /\ trigger_signal
    /\ counters_last_duration' = Increment(counters_last_duration)
    /\ Stay
    /\ UNCHANGED counter_clock

GateFall ==
    /\ Commanded = "gatedCounting_waitForGateFall"
    /\ ~trigger_signal
    /\ Latch("gatedCounting_prestore")

Prestore ==
    /\ Commanded \in {"triggeredCounting_prestore", "gatedCounting_prestore"}
    /\ cnt_counter_ram_wdata' = counters_last_count
    /\ cnt_duration_ram_wdata' = counters_last_duration
    /\ cnt_counter_ram_write_enable' = TRUE
    /\ counter_state' = IF Commanded = "triggeredCounting_prestore"
                        THEN "triggeredCounting_store" ELSE "gatedCounting_store"
    /\ KeepBin
    /\ UNCHANGED <<counter_clock, counters_reset, results>>

Store ==
    /\ Commanded \in {"triggeredCounting_store", "gatedCounting_store"}
    /\ ClosePort
    /\ cnt_counter_ram_addr' = NextBin
    /\ counter_state' = IF Commanded = "triggeredCounting_store"
                        THEN "triggeredCounting_waitForTrigger"
                        ELSE "gatedCounting_waitForGateRise"
    /\ UNCHANGED <<counter_clock, counters_reset, results>>

Active ==
    \/ ImmediateStart \/ ImmediateCountDown \/ ImmediateDone
    \/ AwaitTrigger \/ TriggerToPredelay \/ TriggerToCounting
    \/ PredelayCountDown \/ PredelayDone
    \/ TriggeredCountDown \/ TriggeredDone
    \/ AwaitGateRise \/ GateRise \/ GateOpen \/ GateFall
    \/ Prestore \/ Store

StateMachine ==
    /\ control_command_ack' = (control_command_ack \/ control_command_signal)
    /\ \/ Idle
       \/ Active /\ \E lines \in SUBSET Inputs : Synchronise(lines)

Clock(w) == StateMachine /\ InputCounters /\ SystemBusWrite(w)

Next == \E w \in BusWrites : Clock(w)

(* The clock never stops.                                                   *)
Spec == Init /\ [][Next]_vars /\ WF_vars(Next)

----------------------------------------------------------------------------
(* Software that owns the counter: its first command is not a start (the    *)
(* first command after configuration is executed on two edges), it starts a *)
(* mode only after reading back idle, as counter_WaitAndReadAndStartCounting *)
(* does, and it does not use the software trigger.                          *)
Orderly(w) ==
    w.register = "control" =>
        /\ w.value # "trigger"
        /\ w.value \in StartCommands =>
             counter_state = "idle" /\ ~control_command_signal /\ control_command_ack

OrderlyNext == \E w \in BusWrites : Orderly(w) /\ Clock(w)
OrderlySpec == Init /\ [][OrderlyNext]_vars /\ WF_vars(OrderlyNext)

----------------------------------------------------------------------------
(* Properties.                                                              *)

StateMachineTypeOK ==
    /\ counter_state \in counter_state_t
    /\ counter_clock \in Word
    /\ counters_reset \in BOOLEAN
    /\ counters_last_count \in [Counters -> Word]
    /\ counters_last_duration \in Word
    /\ cnt_counter_ram_addr \in 0..MaxBin
    /\ cnt_counter_ram_write_enable \in BOOLEAN
    /\ cnt_counter_ram_wdata \in [Counters -> Word]
    /\ cnt_duration_ram_wdata \in Word
    /\ inputs_meta \subseteq Inputs /\ inputs_meta2 \subseteq Inputs
    /\ inputs_buffer \subseteq Inputs
    /\ control_command_ack \in BOOLEAN

CountingTypeOK ==
    /\ counters_current_count \in [Counters -> Word]
    /\ signal_last \subseteq Counters /\ window \in Word

BusTypeOK ==
    /\ control_command \in control_command_t
    /\ control_command_signal \in BOOLEAN
    /\ counter_timeout \in Word /\ counter_predelay \in Word
    /\ counter_max_bin_address \in 0..MaxBin
    /\ trigger \in TriggerConfig
    /\ write_wait \in 0..WriteGap

(* Every register keeps a value of its width and kind.                      *)
TypeOK == StateMachineTypeOK /\ CountingTypeOK /\ BusTypeOK

(* A count that a timeout ends was gathered over exactly as many edges as   *)
(* the duration stored with it: counts are divided by that duration, so a   *)
(* window longer or shorter than it is a wrong rate.                        *)
TimedCountMatchesDuration ==
    [][ImmediateDone \/ TriggeredDone => window = counters_last_duration]_vars

(* A gated duration is the number of edges the gate was seen open; the edge *)
(* that sees it rise is not counted, so the counters saw one edge less.     *)
GatedCountMatchesDuration ==
    [][GateFall => Increment(window) = counters_last_duration]_vars

TimedStates == {"immediateCounting_waitForTimeout", "triggeredCounting_waitForTimeout"}
StoreStates == {"triggeredCounting_store", "gatedCounting_store"}

(* Between two counted edges the line was low, so a timed count is at most  *)
(* half the window, rounded up: no pulse is counted twice.                  *)
PulsesFitWindow ==
    counter_state \in TimedStates =>
        \A i \in Counters : 2 * counters_current_count[i] <= window + 1

(* The memory is written in the store states only, and what is written is   *)
(* the pair of counts and duration of the measurement that ended last.      *)
StoresLastResult ==
    /\ cnt_counter_ram_write_enable <=> counter_state \in StoreStates
    /\ cnt_counter_ram_write_enable =>
         /\ cnt_counter_ram_wdata = counters_last_count
         /\ cnt_duration_ram_wdata = counters_last_duration

(* Whatever software writes and whenever, one edge later the bin address is *)
(* within the limit that was in force.                                      *)
BinAddressFollowsLimit ==
    [][cnt_counter_ram_addr' <= counter_max_bin_address]_vars

(* A bin is left only while it is being written, or because the counter is  *)
(* reset or the bin is no longer in use: no bin is skipped.                 *)
BinLeftWhenWritten ==
    [][cnt_counter_ram_addr' # cnt_counter_ram_addr =>
         \/ cnt_counter_ram_write_enable
         \/ Resetting
         \/ cnt_counter_ram_addr > counter_max_bin_address]_vars

(* The acknowledge is never taken back, yet a command stays pending for at  *)
(* most the two edges after its write, so it cannot act again later.        *)
CommandTransient == control_command_signal => write_wait + 1 >= WriteGap

(* A started measurement ends: it reaches the store state or idle.          *)
MeasurementEnds ==
    /\ counter_state \in ImmediateStates ~> counter_state = "idle"
    /\ counter_state \in {"triggeredCounting_predelay", "triggeredCounting_waitForTimeout",
                          "triggeredCounting_prestore"}
         ~> counter_state \in {"triggeredCounting_store", "idle"}

----------------------------------------------------------------------------
(* The invariant that orderly software keeps, in its parts.                 *)

CountingStates == TimedStates \cup {"gatedCounting_waitForGateFall"}

(* The edge counters run in the counting states and only there, so each     *)
(* measurement starts them from zero.                                       *)
OpenWhileCounting == counters_reset <=> counter_state \notin CountingStates

(* What the timer still has to run is what the window lacks.                *)
WindowTracksTimer ==
    /\ counter_state \in TimedStates => window + counter_clock = counters_last_duration
    /\ counter_state = "gatedCounting_waitForGateFall" =>
         Increment(window) = counters_last_duration

(* A counted edge leaves the line high, so it takes two edges per pulse.    *)
PulsesTakeTwoEdges ==
    counter_state \in TimedStates =>
        \A i \in Counters :
            2 * counters_current_count[i] <= window + (IF i \in signal_last THEN 1 ELSE 0)

(* A start command meets an idle machine, and is withdrawn as it is taken.  *)
StartsFromIdle ==
    control_command_signal =>
        /\ control_command # "trigger"
        /\ control_command \in StartCommands =>
             counter_state = "idle" /\ control_command_ack

OrderlyInv ==
    /\ TypeOK
    /\ OpenWhileCounting
    /\ WindowTracksTimer
    /\ PulsesTakeTwoEdges
    /\ StoresLastResult
    /\ StartsFromIdle

----------------------------------------------------------------------------
(* Why the last two hold of any software: the write port is open in the     *)
(* store states, and the acknowledge comes one edge after the command.      *)
PortInv == counter_state \in StoreStates => cnt_counter_ram_write_enable
AckInv == control_command_signal /\ ~control_command_ack => write_wait >= WriteGap

============================================================================
