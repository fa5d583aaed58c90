----------------------------- MODULE CounterServer -----------------------------
(****************************************************************************)
(* The counter server: one forked process per client                        *)
(* (counter-server/src/counter-server.c), the command handlers              *)
(* (counter-server/src/counter.c) and the library functions they call       *)
(* (api/src/rp.c, api/src/counter.c), working on the one counter of the     *)
(* FPGA without any lock.  One step of a process is one bus access that     *)
(* reads or changes what others use; the bus orders them.                   *)
(*                                                                          *)
(* The counter is reduced to what software sees of CounterFpga: its mode,   *)
(* whether a window is open, and whose measurements the latched duration    *)
(* and counts come from.  A measurement is named by the client that started *)
(* it with the command it is executing; when a client begins a new command  *)
(* its earlier measurements become Stale.  A command takes effect with the  *)
(* bus write: CounterFpga executes it within two edges, and a second access *)
(* comes later (WriteGap).  The read that cmn_SetShiftedValue makes before  *)
(* every write matters only for the shared configuration register.          *)
(*                                                                          *)
(* Two variables only record what has happened: alone, whose count has had  *)
(* the counter to itself, and configurers, whose configurations overlapped. *)
(* A field of the configuration is the client that set it, or Stale when    *)
(* that was before the configurers began.                                   *)
(****************************************************************************)
EXTENDS Integers, Sequences

CONSTANTS
    Clients,
    Commands,       \* what each client sends: [Clients -> SUBSET Requests]
    MaxCounts,      \* bound on the argument of COUNTER:COUNT?
    Channels,       \* number of channels that are counted
    Terminates,     \* whether SIGTERM arrives
    NoOne, Stale    \* no measurement; a measurement of an earlier command

SendRequests == {"TRIG 1", "TRIG 0", "GATED 1", "GATED 0", "TRIG:IMM"}
Requests == {"COUNT?", "COUNT:SING?", "WRSC?", "RESET", "TRIG:CONF", "TRIG?"} \cup SendRequests

ASSUME CounterServerAssumption ==
    /\ Commands \in [Clients -> SUBSET Requests]
    /\ MaxCounts \in Nat \ {0} /\ Channels \in Nat \ {0} /\ Terminates \in BOOLEAN
    /\ {NoOne, Stale} \cap Clients = {} /\ NoOne # Stale

VARIABLES
    pc, request, left,   \* what each process does, and COUNT?'s counts to go
    duration, counts,    \* of counter_GetCounts: duration read, counts of the channels read
    shadow,              \* of cmn_SetShiftedValue: configuration read
    answer,              \* the last answer to the client
    app_exit,
    mode,                \* idle, immediate, triggered or gated
    timing,              \* the mode is in a window (waitForTimeout, waitForGateFall)
    open,                \* measurements the open edge counters have gathered for
    running,             \* who started the mode the counter is in
    duration_of, counts_of,
    config,
    alone, configurers   \* history

local == <<pc, request, left, duration, counts, shadow, answer>>
counter == <<mode, timing, open, running, duration_of, counts_of>>
history == <<alone, configurers>>
vars == <<local, app_exit, counter, config, history>>

Tags == Clients \cup {NoOne, Stale}
Fields == <<"trigger_mask", "trigger_invert", "trigger_polarity">>
Field == {"trigger_mask", "trigger_invert", "trigger_polarity"}
AllFields(t) == [f \in Field |-> t]
NoAnswer == [to |-> "nothing"]

Init ==
    /\ pc = [c \in Clients |-> "recv"] /\ request = [c \in Clients |-> "none"]
    /\ left = [c \in Clients |-> 0]
    /\ duration = [c \in Clients |-> NoOne] /\ counts = [c \in Clients |-> <<>>]
    /\ shadow = [c \in Clients |-> AllFields(NoOne)]
    /\ answer = [c \in Clients |-> NoAnswer]
    /\ app_exit = [c \in Clients |-> FALSE]
    /\ mode = "idle" /\ timing = FALSE /\ open = {} /\ running = NoOne
    /\ duration_of = NoOne /\ counts_of = {}
    /\ config = AllFields(NoOne)
    /\ alone = {} /\ configurers = {NoOne}

----------------------------------------------------------------------------
(* The counter, by itself.                                                  *)

(* The trigger, or the rise of the gate, opens the window; edge counters    *)
(* that were left open by an interrupted measurement are not cleared.       *)
WindowOpens ==
    /\ mode \in {"triggered", "gated"} /\ ~timing
    /\ timing' = TRUE
    /\ open' = open \cup {running}
    /\ duration_of' = running
    /\ UNCHANGED <<mode, running, counts_of>>

(* Mutant of WindowCloses: an immediate count does not return to idle.      *)
WindowClosesAndRepeats ==
    /\ timing
    /\ timing' = (mode = "immediate")
    /\ counts_of' = open
    /\ open' = IF mode = "immediate" THEN {running} ELSE {}
    /\ UNCHANGED <<mode, running, duration_of>>

WindowCloses ==
    /\ timing
    /\ timing' = FALSE
    /\ counts_of' = open
    /\ open' = {}
    /\ mode' = IF mode = "immediate" THEN "idle" ELSE mode
    /\ running' = IF mode = "immediate" THEN NoOne ELSE running
    /\ UNCHANGED duration_of

CounterStep == (WindowOpens \/ WindowCloses) /\ UNCHANGED <<local, app_exit, config, history>>

(* The effect of a control command written by client c.                     *)
CountImmediately(c) ==
    /\ mode' = "immediate" /\ timing' = TRUE
    /\ open' = open \cup {c} /\ running' = c /\ duration_of' = c
    /\ UNCHANGED counts_of

Arm(c, m) ==
    /\ mode' = m /\ timing' = FALSE /\ running' = c
    /\ UNCHANGED <<open, duration_of, counts_of>>

GotoIdle ==
    /\ mode' = "idle" /\ timing' = FALSE /\ open' = {} /\ running' = NoOne
    /\ UNCHANGED <<duration_of, counts_of>>

ResetCommand ==
    /\ mode' = "idle" /\ timing' = FALSE /\ open' = {} /\ running' = NoOne
    /\ duration_of' = NoOne /\ counts_of' = {}

(* From waitForTrigger the timed state is entered with the edge counters as *)
(* they are; in any other state, predelay and store included, the command   *)
(* is ignored.                                                              *)
TriggerCommand ==
    \/ /\ mode = "triggered" /\ ~timing
       /\ timing' = TRUE
       /\ UNCHANGED <<mode, open, running, duration_of, counts_of>>
    \/ UNCHANGED counter

----------------------------------------------------------------------------
(* The process of a client.                                                 *)

Goto(c, label) == pc' = [pc EXCEPT ![c] = label]

FirstStep(r) ==
    CASE r = "COUNT?" -> "start"
      [] r \in {"COUNT:SING?", "WRSC?"} -> "waitIdle"
      [] r = "TRIG:CONF" -> "confRead1"
      [] r = "TRIG?" -> "getState"
      [] OTHER -> "send"

(* Measurements of the client's earlier commands are not the ones it asks   *)
(* for now (history only).                                                  *)
Aged(c, t) == IF t = c THEN Stale ELSE t
AgedSet(c, ts) == {Aged(c, t) : t \in ts}

(* recv returns a command, and the handler is entered unless a signal has   *)
(* been seen.  COUNTER:COUNT? 0 is answered at once.                        *)
Receive(c) ==
    /\ pc[c] = "recv"
    /\ IF app_exit[c]
       THEN /\ Goto(c, "exited")
            /\ UNCHANGED <<request, left, answer, counter, alone>>
       ELSE \E r \in Commands[c], n \in 0..MaxCounts :
            /\ r # "COUNT?" => n = 1
            /\ Goto(c, IF n = 0 THEN "recv" ELSE FirstStep(r))
            /\ request' = [request EXCEPT ![c] = r]
            /\ left' = [left EXCEPT ![c] = n]
            /\ answer' = [answer EXCEPT ![c] = NoAnswer]
            /\ running' = Aged(c, running) /\ open' = AgedSet(c, open)
            /\ duration_of' = Aged(c, duration_of) /\ counts_of' = AgedSet(c, counts_of)
            /\ alone' = alone \ {c}
            /\ UNCHANGED <<mode, timing>>
    /\ UNCHANGED <<duration, counts, shadow, app_exit, config, configurers>>

(* The client closes its connection.                                        *)
Disconnect(c) ==
    /\ pc[c] = "recv"
    /\ Goto(c, "exited")
    /\ UNCHANGED <<request, left, duration, counts, shadow, answer, app_exit, counter, config, history>>

(* From here on c's count has the counter to itself, until another client   *)
(* sends a command (history only).                                          *)
Waited(c) == alone' = IF request[c] = "COUNT:SING?" THEN alone \cup {c} ELSE alone
Disturbs(c) == alone' = alone \cap {c}

(* Mutant of WaitIdle: the state is read once.                              *)
WaitIdleOnce(c) ==
    /\ pc[c] = "waitIdle"
    /\ Goto(c, IF request[c] = "WRSC?" THEN "readDuration" ELSE "start")
    /\ Waited(c)
    /\ UNCHANGED <<request, left, duration, counts, shadow, answer, app_exit, counter, config, configurers>>

(* counter_WaitForState(idle); the reads that see another state loop.       *)
WaitIdle(c) ==
    /\ pc[c] = "waitIdle" /\ mode = "idle"
    /\ Goto(c, IF request[c] = "WRSC?" THEN "readDuration" ELSE "start")
    /\ Waited(c)
    /\ UNCHANGED <<request, left, duration, counts, shadow, answer, app_exit, counter, config, configurers>>

(* COUNTER:COUNT? does not wait for the counter before it starts.           *)
Start(c) ==
    /\ pc[c] = "start"
    /\ CountImmediately(c)
    /\ Goto(c, "waitDone")
    /\ alone' = IF IF request[c] = "COUNT?" THEN mode = "idle" ELSE c \in alone THEN {c} ELSE {}
    /\ UNCHANGED <<request, left, duration, counts, shadow, answer, app_exit, config, configurers>>

(* Mutant of WaitDone: the counts are read without waiting.                 *)
WaitDoneNot(c) ==
    /\ pc[c] = "waitDone"
    /\ Goto(c, IF request[c] = "RESET" THEN "recv" ELSE "readDuration")
    /\ UNCHANGED <<request, left, duration, counts, shadow, answer, app_exit, counter, config, history>>

WaitDone(c) ==
    /\ pc[c] = "waitDone" /\ mode = "idle"
    /\ Goto(c, IF request[c] = "RESET" THEN "recv" ELSE "readDuration")
    /\ UNCHANGED <<request, left, duration, counts, shadow, answer, app_exit, counter, config, history>>

(* counter_GetCounts: the duration first, then the counts of one channel    *)
(* after the other; a duration of zero gives zero counts without reading    *)
(* them.                                                                    *)
ReadDuration(c) ==
    /\ pc[c] = "readDuration"
    /\ duration' = [duration EXCEPT ![c] = duration_of]
    /\ Goto(c, "readCounts")
    /\ UNCHANGED <<request, left, counts, shadow, answer, app_exit, counter, config, history>>

Counted(c, read) ==
    /\ answer' = [answer EXCEPT ![c] = [to |-> request[c], duration |-> duration[c],
                                        counts |-> read, alone |-> c \in alone]]
    /\ left' = [left EXCEPT ![c] = @ - 1]
    /\ duration' = [duration EXCEPT ![c] = NoOne] /\ counts' = [counts EXCEPT ![c] = <<>>]
    /\ Goto(c, IF request[c] = "WRSC?" THEN "restart"
               ELSE IF left[c] > 1 THEN "start" ELSE "recv")

ReadCounts(c) ==
    /\ pc[c] = "readCounts"
    /\ \/ duration[c] = NoOne /\ Counted(c, <<>>)
       \/ /\ duration[c] # NoOne /\ Len(counts[c]) + 1 = Channels
          /\ Counted(c, Append(counts[c], counts_of))
       \/ /\ duration[c] # NoOne /\ Len(counts[c]) + 1 < Channels
          /\ counts' = [counts EXCEPT ![c] = Append(@, counts_of)]
          /\ UNCHANGED <<pc, left, answer, duration>>
    /\ UNCHANGED <<request, shadow, app_exit, counter, config, history>>

(* The last step of counter_WaitAndReadAndStartCounting.                    *)
Restart(c) ==
    /\ pc[c] = "restart"
    /\ CountImmediately(c)
    /\ Goto(c, "recv")
    /\ Disturbs(c)
    /\ UNCHANGED <<request, left, duration, counts, shadow, answer, app_exit, config, configurers>>

Send(c) ==
    /\ pc[c] = "send"
    /\ \/ request[c] = "TRIG 1" /\ Arm(c, "triggered")
       \/ request[c] = "GATED 1" /\ Arm(c, "gated")
       \/ request[c] \in {"TRIG 0", "GATED 0"} /\ GotoIdle
       \/ request[c] = "RESET" /\ ResetCommand
       \/ request[c] = "TRIG:IMM" /\ TriggerCommand
    /\ Goto(c, IF request[c] = "RESET" THEN "waitDone" ELSE "recv")
    /\ Disturbs(c)
    /\ UNCHANGED <<request, left, duration, counts, shadow, answer, app_exit, config, configurers>>

(* Counter_GetTriggeredCounting asks rp_CounterGetGatedCounting.            *)
ModeAnswer == mode = "gated"

GetState(c) ==
    /\ pc[c] = "getState"
    /\ answer' = [answer EXCEPT ![c] = [to |-> "TRIG?", enabled |-> ModeAnswer, mode |-> mode]]
    /\ Goto(c, "recv")
    /\ UNCHANGED <<request, left, duration, counts, shadow, app_exit, counter, config, history>>

(* Between its first read and its last write.                               *)
ConfSteps == {"confWrite1", "confRead2", "confWrite2", "confRead3", "confWrite3"}
Configuring(c) == pc[c] \in ConfSteps

(* rp_CounterSetTriggerConfig: each field is set by reading the register    *)
(* and writing it back with the field replaced.  The first of several that  *)
(* overlap makes the fields Stale (history only).                           *)
ConfRead(c) ==
    \E i \in 1..3 :
        /\ pc[c] = <<"confRead1", "confRead2", "confRead3">>[i]
        /\ IF \E d \in Clients : Configuring(d)
           THEN configurers' = configurers \cup {c} /\ UNCHANGED config
           ELSE configurers' = {c} /\ config' = AllFields(Stale)
        /\ shadow' = [shadow EXCEPT ![c] = config']
        /\ Goto(c, <<"confWrite1", "confWrite2", "confWrite3">>[i])
        /\ UNCHANGED <<request, left, duration, counts, answer, app_exit, counter, alone>>

(* Mutant of ConfWrite: the other fields are not taken from the register.   *)
ConfWriteAlone(c) ==
    \E i \in 1..3 :
        /\ pc[c] = <<"confWrite1", "confWrite2", "confWrite3">>[i]
        /\ config' = [f \in Field |-> IF f = Fields[i] THEN c ELSE Stale]
        /\ Goto(c, <<"confRead2", "confRead3", "recv">>[i])
        /\ shadow' = [shadow EXCEPT ![c] = AllFields(NoOne)]
        /\ UNCHANGED <<request, left, duration, counts, answer, app_exit, counter, history>>

ConfWrite(c) ==
    \E i \in 1..3 :
        /\ pc[c] = <<"confWrite1", "confWrite2", "confWrite3">>[i]
        /\ config' = [shadow[c] EXCEPT ![Fields[i]] = c]
        /\ Goto(c, <<"confRead2", "confRead3", "recv">>[i])
        /\ shadow' = [shadow EXCEPT ![c] = AllFields(NoOne)]
        /\ UNCHANGED <<request, left, duration, counts, answer, app_exit, counter, history>>

(* SIGTERM: recv is interrupted and the process ends; anywhere else only    *)
(* the flag is set.                                                         *)
Term(c) ==
    /\ Terminates /\ pc[c] # "exited" /\ ~app_exit[c]
    /\ app_exit' = [app_exit EXCEPT ![c] = TRUE]
    /\ pc' = IF pc[c] = "recv" THEN [pc EXCEPT ![c] = "exited"] ELSE pc
    /\ UNCHANGED <<request, left, duration, counts, shadow, answer, counter, config, history>>

(* The bus accesses of a handler that has been entered.                     *)
Handle(c) ==
    \/ WaitIdle(c) \/ Start(c) \/ WaitDone(c) \/ ReadDuration(c) \/ ReadCounts(c) \/ Restart(c)
    \/ Send(c) \/ GetState(c) \/ ConfRead(c) \/ ConfWrite(c)

Process(c) == Receive(c) \/ Disconnect(c) \/ Handle(c) \/ Term(c)

Next == CounterStep \/ \E c \in Clients : Process(c)

(* A process the kernel runs goes on with its handler, and the timer of an  *)
(* open window runs down; clients and the trigger need not do anything.     *)
Spec ==
    /\ Init /\ [][Next]_vars
    /\ WF_vars(WindowCloses /\ UNCHANGED <<local, app_exit, config, history>>)
    /\ \A c \in Clients : WF_vars(Handle(c))

----------------------------------------------------------------------------
(* Properties.                                                              *)

Label == {"recv", "exited", "waitIdle", "start", "waitDone", "readDuration", "readCounts",
          "restart", "send", "getState", "confRead1", "confRead2", "confRead3",
          "confWrite1", "confWrite2", "confWrite3"}

Mode == {"idle", "immediate", "triggered", "gated"}
Readings == Seq(SUBSET Tags)
Answers == {NoAnswer}
    \cup [to : Requests \cup {"none"}, duration : Tags, counts : Readings, alone : BOOLEAN]
    \cup [to : {"TRIG?"}, enabled : BOOLEAN, mode : Mode]

(* The types, and that COUNTER:COUNT? never reads more counts than asked.   *)
TypeOK ==
    /\ pc \in [Clients -> Label] /\ request \in [Clients -> Requests \cup {"none"}]
    /\ left \in [Clients -> 0..MaxCounts]
    /\ \A c \in Clients : pc[c] \notin {"recv", "exited", "restart"} => left[c] > 0
    /\ duration \in [Clients -> Tags] /\ counts \in [Clients -> Readings]
    /\ \A c \in Clients : Len(counts[c]) < Channels
    /\ shadow \in [Clients -> [Field -> Tags]]
    /\ answer \in [Clients -> Answers] /\ app_exit \in [Clients -> BOOLEAN]
    /\ mode \in Mode /\ timing \in BOOLEAN
    /\ (mode = "idle" => ~timing) /\ (mode = "immediate" => timing)
    /\ open \subseteq Tags /\ counts_of \subseteq Tags /\ running \in Tags /\ duration_of \in Tags
    /\ config \in [Field -> Tags]
    /\ alone \subseteq Clients /\ configurers \subseteq Tags

Fresh(c) == answer[c].duration = c /\ answer[c].counts = [i \in 1..Channels |-> {c}]

(* command.c of COUNTER:COUNT:SING?: "waits for any running counting        *)
(* processes to end and starts counting.  Once the fresh counting process   *)
(* ends, it returns the counts."  Whatever runs when the command comes, and *)
(* whatever all clients have sent before, the duration and the counts of    *)
(* every channel are those of the measurement this very command started,    *)
(* unless another client sends a command between the look that finds the    *)
(* counter idle and the last read.                                          *)
SingleIsFresh == \A c \in Clients : answer[c].to = "COUNT:SING?" /\ answer[c].alone => Fresh(c)

(* COUNTER:COUNT? does not wait before it starts, although command.c says   *)
(* the same of it: each of its counts is fresh if it happened to find the   *)
(* counter idle, and no other client sends a command until it is read.      *)
CountIsFresh == \A c \in Clients : answer[c].to = "COUNT?" /\ answer[c].alone => Fresh(c)

(* When no client is in the middle of COUNTER:TRIG:CONF, the trigger        *)
(* configuration is the whole of what a client set that configured alone.   *)
(* Of several that overlapped each mask and polarity is one of theirs; of   *)
(* the middle field all their settings may be lost, and one be left that    *)
(* is older than they are (cmn_SetShiftedValue).                            *)
ConfigIsRecent ==
    (\A c \in Clients : ~Configuring(c)) =>
        /\ config["trigger_mask"] \in configurers /\ config["trigger_polarity"] \in configurers
        /\ \A c \in configurers : configurers = {c} => config["trigger_invert"] = c

----------------------------------------------------------------------------
(* Why the answers of a count that had the counter to itself are fresh:     *)
(* what it has reached at each of its steps.                                *)
IdleInv == mode = "idle" => ~timing /\ open = {}

AloneInv ==
    \A c \in alone :
        /\ request[c] \in {"COUNT?", "COUNT:SING?"}
        /\ pc[c] \in {"recv", "exited", "start", "waitDone", "readDuration", "readCounts"}
        /\ pc[c] # "waitDone" => mode = "idle"
        /\ pc[c] = "waitDone" =>
             /\ duration_of = c
             /\ \/ mode = "immediate" /\ open = {c}
                \/ mode = "idle" /\ counts_of = {c}
        /\ pc[c] \in {"readDuration", "readCounts"} => duration_of = c /\ counts_of = {c}
        /\ pc[c] = "readCounts" => duration[c] = c

(* What has been read of the channels, at its steps.                        *)
ReadingInv ==
    \A c \in Clients :
        /\ pc[c] # "readCounts" => counts[c] = <<>>
        /\ c \in alone => \A i \in 1..Len(counts[c]) : counts[c][i] = {c}

FreshInv == \A c \in Clients : answer[c].to \in {"COUNT?", "COUNT:SING?"} /\ answer[c].alone => Fresh(c)

MeasureInv == IdleInv /\ AloneInv /\ ReadingInv /\ FreshInv

Busy(c) == pc[c] \notin {"recv", "exited"}

(* Why the configuration is recent: once one of those that overlap has set  *)
(* the mask, it stays one of theirs, in the register and in every copy that *)
(* is still to be written back; the polarity is what the last one ends with;*)
(* and a client that is alone loses nothing.                                *)
MaskInv ==
    /\ config["trigger_mask"] \notin configurers => \E c \in Clients : Configuring(c)
    /\ config["trigger_mask"] \notin configurers => \A c \in Clients : Configuring(c) => pc[c] = "confWrite1"
    /\ \A c \in Clients : pc[c] \in {"confWrite2", "confWrite3"} => shadow[c]["trigger_mask"] \in configurers

PolarityInv ==
    /\ \A c \in Clients : Configuring(c) => c \in configurers
    /\ (\A c \in Clients : ~Configuring(c)) => config["trigger_polarity"] \in configurers

SoleInv ==
    \A c \in configurers : configurers = {c} =>
        /\ (\A d \in Clients : ~Configuring(d)) => config["trigger_invert"] = c
        /\ c \in Clients /\ pc[c] = "confRead3" => config["trigger_invert"] = c
        /\ c \in Clients /\ pc[c] = "confWrite3" => shadow[c]["trigger_invert"] = c

ConfigInv == MaskInv /\ PolarityInv /\ SoleInv

(* A command is answered: no process waits for ever for the counter.        *)
CommandAnswered == \A c \in Clients : Busy(c) ~> ~Busy(c)

================================================================================
