---------------------------- MODULE CounterModes ----------------------------
(****************************************************************************)
(* What the photon counter promises to software that starts a mode only     *)
(* from idle, without its registers, commands, synchronisers and timer: a   *)
(* measurement opens, sees some edges of the clock and ends with the pulses *)
(* of exactly the edges its result is divided by; in the repeated modes     *)
(* every result is put into a bin, and the bins follow one another.         *)
(* A step is one edge of the clock.                                         *)
(****************************************************************************)
EXTENDS Integers

CONSTANTS
    Lines,          \* the lines that are counted
    MaxWord,        \* the largest number of edges and of pulses
    MaxBin

VARIABLES
    mode,           \* what is measured
    phase,          \* how far it is
    elapsed,        \* edges seen since it opened
    pulses, high,   \* pulses so far, and the lines that were high
    target,         \* edges a timed measurement is to see
    result,         \* the last measurement
    port,           \* the results put into the memory: one or none
    bin,
    timeout, limit  \* set by software at any time

vars == <<mode, phase, elapsed, pulses, high, target, result, port, bin, timeout, limit>>

Modes == {"immediate", "triggered", "gated"}
Word == 0..MaxWord
Counts == [Lines -> Word]
Nothing == [counts |-> [i \in Lines |-> 0], duration |-> 0]
Up(n) == IF n = MaxWord THEN 0 ELSE n + 1

Init ==
    /\ mode = "none" /\ phase = "idle"
    /\ elapsed = 0 /\ pulses = Nothing.counts /\ high = {} /\ target = 0
    /\ result = Nothing /\ port = {}
    /\ bin = 0 /\ timeout \in Word /\ limit = MaxBin

Closed == elapsed' = 0 /\ pulses' = Nothing.counts /\ high' = {} /\ target' = 0
InUse == IF bin > limit THEN 0 ELSE bin
SameBin == bin' = InUse

(* While a measurement runs, the counts of the last one stay and its        *)
(* duration does not.                                                       *)
Overwritten == \E d \in Word : result' = [result EXCEPT !.duration = d]

(* The counter stops, or stays idle, with the result as it is; a reset      *)
(* clears the result and returns to the first bin.                          *)
Stop ==
    /\ mode' = "none" /\ phase' = "idle" /\ Closed /\ port' = {}
    /\ \/ SameBin /\ result' = result
       \/ bin' = 0 /\ result' = Nothing

(* A repeated mode waits for its trigger, and after it if it is told to.    *)
Wait ==
    /\ mode' \in {"triggered", "gated"} /\ phase' = "waiting"
    /\ phase \in {"idle", "waiting"}
    /\ phase = "waiting" => mode' = mode
    /\ Closed /\ SameBin /\ UNCHANGED <<result, port>>

(* A measurement opens, a timed one for as many edges as are asked now.     *)
Open ==
    /\ phase \in {"idle", "waiting"}
    /\ mode' \in Modes /\ (phase = "waiting" => mode' = mode)
    /\ phase' = "counting"
    /\ elapsed' = 0 /\ pulses' = Nothing.counts /\ high' = {}
    /\ target' = IF mode' = "gated" THEN 0 ELSE timeout
    /\ Overwritten /\ SameBin /\ UNCHANGED port

(* One edge: a line that was low and is high is a pulse.                    *)
Count ==
    /\ phase = "counting"
    /\ elapsed' = Up(elapsed)
    /\ high' \in SUBSET Lines
    /\ pulses' = [i \in Lines |-> IF i \in high' \ high THEN Up(pulses[i]) ELSE pulses[i]]
    /\ Overwritten /\ SameBin /\ UNCHANGED <<mode, phase, target, port>>

(* A timed measurement has seen what it was to see; a gated one says how    *)
(* long the gate was open, with the edge that saw it rise.                  *)
Finish ==
    /\ phase = "counting" /\ (mode # "gated" => elapsed = target)
    /\ result' = [counts |-> pulses, duration |-> IF mode = "gated" THEN Up(elapsed) ELSE elapsed]
    /\ IF mode = "immediate" THEN mode' = "none" /\ phase' = "idle"
                             ELSE mode' = mode /\ phase' = "finished"
    /\ Closed /\ SameBin /\ UNCHANGED port

(* The result is put into the bin, which is left as it is written.          *)
Put ==
    /\ phase = "finished" /\ phase' = "storing"
    /\ port' = {result}
    /\ Closed /\ SameBin /\ UNCHANGED <<mode, result>>

NextBin ==
    /\ phase = "storing" /\ phase' = "waiting"
    /\ port' = {}
    /\ bin' = IF InUse = limit THEN 0 ELSE InUse + 1
    /\ Closed /\ UNCHANGED <<mode, result>>

Next ==
    /\ Stop \/ Wait \/ Open \/ Count \/ Finish \/ Put \/ NextBin
    /\ timeout' \in Word /\ limit' \in 0..MaxBin

Spec == Init /\ [][Next]_vars

=============================================================================
