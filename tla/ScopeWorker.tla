----------------------------- MODULE ScopeWorker -----------------------------
(****************************************************************************)
(* The oscilloscope application: the web server's thread, which sets        *)
(* parameters, fetches signals and unloads the application                  *)
(* (apps-free/scope/src/main.c), and the worker thread, which acquires      *)
(* (apps-free/scope/src/worker.c).  They share the main parameters, the     *)
(* worker's control state and parameters, and the signals, each under a     *)
(* mutex of its own that is never held together with another: a step is one *)
(* critical section with the unlocked accesses next to it.                  *)
(*                                                                          *)
(* Abstractions.  A whole set of parameters is one setting, of which only   *)
(* the trigger mode and the length of the acquisition matter; the single    *)
(* and auto-set buttons are apart.  fpga_update is 1 in every call.  The    *)
(* FPGA accepts every setting (the web thread clamps them).  The generator, *)
(* the PID controllers and the measured values are left out.  No one sets   *)
(* rp_osc_abort_state.                                                      *)
(****************************************************************************)
EXTENDS Integers

CONSTANTS
    Settings,
    Mode,            \* the trigger mode of a setting: auto, normal or single
    Long,            \* the settings acquired in parts (1.5 s and longer)
    Default,         \* the setting of the application's start
    AutoResults,     \* what auto-set may find
    Requests,        \* what the user sends: setting and buttons
    MaxRequests,     \* bound on the number of requests
    Parts,           \* parts of a long acquisition
    Iterations       \* acquisitions of each of the two phases of auto-set

web == "web"
worker == "worker"
Threads == {web, worker}
Modes == {"auto", "normal", "single"}

ASSUME ScopeWorkerAssumption ==
    /\ Mode \in [Settings -> Modes] /\ Long \subseteq Settings
    /\ Default \in Settings /\ AutoResults \subseteq Settings
    /\ \A s \in AutoResults : Mode[s] # "single"
    /\ Requests \subseteq [setting : Settings, single : BOOLEAN, auto : BOOLEAN]
    /\ MaxRequests \in Nat /\ Parts \in Nat \ {0} /\ Iterations \in Nat \ {0}

VARIABLES
    pc, mode,                       \* of each thread; mode is rp_set_params's
    main, params_init,              \* rp_main_params; an update is not forced
    rp_osc_ctrl, rp_osc_params, rp_osc_params_dirty,
    rp_osc_signals, rp_osc_signals_dirty,
    state, old_state, curr_params, fpga_update, time_vect_update,
    long_acq_idx, iter,             \* locals of the worker
    fpga, triggered,                \* the setting in the registers, the trigger
    acquired,                       \* history: what the FPGA was armed for, the parts taken of it
    requests

control == <<rp_osc_ctrl, rp_osc_params, rp_osc_params_dirty>>
signals == <<rp_osc_signals, rp_osc_signals_dirty>>
locals == <<state, old_state, curr_params, fpga_update, time_vect_update, long_acq_idx, iter>>
acquisition == <<fpga, triggered, acquired>>
vars == <<pc, mode, main, params_init, control, signals, locals, acquisition, requests>>

(* The FPGA as auto-set configures it, for an immediate and for an edge     *)
(* trigger.                                                                 *)
AutoSetups == {"autoImmediate", "autoEdge"}
Immediate(s) == IF s \in Settings THEN Mode[s] = "auto" ELSE s = "autoImmediate"
LongAcq == curr_params.setting \in Long

(* A new arming, and the state after a reset of the FPGA, which gives up    *)
(* the acquisition.                                                         *)
Armed(s) == [of |-> s, parts |-> 0]
Nothing == Armed("nothing")

(* rp_app_init: the worker is started and the web thread enters             *)
(* rp_set_params with the default parameters.                               *)
Init ==
    /\ pc = [t \in Threads |-> IF t = web THEN "mode" ELSE "top"]
    /\ mode = [t \in Threads |-> "auto"]
    /\ main = [setting |-> Default, single |-> FALSE, auto |-> FALSE]
    /\ params_init = FALSE
    /\ rp_osc_ctrl = "idle"
    /\ rp_osc_params = main
    /\ rp_osc_params_dirty = FALSE
    /\ rp_osc_signals = [of |-> Default, captured |-> Default, whole |-> FALSE]
    /\ rp_osc_signals_dirty = FALSE
    /\ state = "idle" /\ old_state = "idle"
    /\ curr_params = main
    /\ fpga_update = FALSE /\ time_vect_update = FALSE /\ long_acq_idx = 0 /\ iter = 0
    /\ fpga = "autoImmediate" /\ triggered = FALSE /\ acquired = Nothing
    /\ requests = 0

At(t, label) == pc[t] = label
Goto(t, label) == pc' = [pc EXCEPT ![t] = label]
Return(t) == Goto(t, IF t = web THEN "ready" ELSE "top")

----------------------------------------------------------------------------
(* rp_set_params, in either thread.  The web thread stores the request;     *)
(* nothing more is done if it changes nothing and params_init is set.       *)
SetParams(r) ==
    /\ At(web, "ready") /\ requests < MaxRequests
    /\ requests' = requests + 1
    /\ main' = r
    /\ Goto(web, IF main = r THEN "enter" ELSE "mode")
    /\ UNCHANGED <<mode, params_init, control, signals, locals, acquisition>>

(* The worker gets here from rp_update_main_params with the main parameters *)
(* themselves.                                                              *)
Enter(t) ==
    /\ At(t, "enter")
    /\ IF params_init THEN Return(t) ELSE Goto(t, "mode")
    /\ UNCHANGED <<mode, main, params_init, control, signals, locals, acquisition, requests>>

ReadMode(t) ==
    /\ At(t, "mode")
    /\ mode' = [mode EXCEPT ![t] = Mode[main.setting]]
    /\ params_init' = TRUE
    /\ Goto(t, "autoFlag")
    /\ UNCHANGED <<main, control, signals, locals, acquisition, requests>>

(* The auto-set button: clear the signals, request auto-set and wait.       *)
CleanForAutoSet(t) ==
    /\ At(t, "autoFlag") /\ main.auto
    /\ rp_osc_signals_dirty' = FALSE
    /\ Goto(t, "autoState")
    /\ UNCHANGED <<mode, main, params_init, control, rp_osc_signals, locals, acquisition, requests>>

RequestAutoSet(t) ==
    /\ At(t, "autoState")
    /\ rp_osc_ctrl' = "auto_set"
    /\ Goto(t, "autoWait")
    /\ UNCHANGED <<mode, main, params_init, rp_osc_params, rp_osc_params_dirty, signals, locals,
                   acquisition, requests>>

NoAutoSet(t) ==
    /\ At(t, "autoFlag") /\ ~main.auto
    /\ Goto(t, "updateParams")
    /\ UNCHANGED <<mode, main, params_init, control, signals, locals, acquisition, requests>>

(* Auto-set has ended, or ten seconds have passed.                          *)
AutoWaitEnds(t) ==
    /\ At(t, "autoWait")
    /\ Return(t)
    /\ UNCHANGED <<mode, main, params_init, control, signals, locals, acquisition, requests>>

(* Mutant of UpdateParams: the flag is left to the next change.             *)
UpdateParamsUnmarked(t) ==
    /\ At(t, "updateParams")
    /\ rp_osc_params' = main
    /\ rp_osc_params_dirty' = (rp_osc_params.setting # main.setting)
    /\ Goto(t, "changeState")
    /\ UNCHANGED <<mode, main, params_init, rp_osc_ctrl, signals, locals, acquisition, requests>>

(* rp_osc_worker_update_params, with the main parameters as they are now.   *)
UpdateParams(t) ==
    /\ At(t, "updateParams")
    /\ rp_osc_params' = main
    /\ rp_osc_params_dirty' = TRUE
    /\ Goto(t, "changeState")
    /\ UNCHANGED <<mode, main, params_init, rp_osc_ctrl, signals, locals, acquisition, requests>>

ChangeState(t) ==
    /\ At(t, "changeState")
    /\ rp_osc_ctrl' = IF mode[t] = "single" THEN "idle" ELSE mode[t]
    /\ Goto(t, IF mode[t] = "single" THEN "cleanSignals" ELSE "singleButton")
    /\ UNCHANGED <<mode, main, params_init, rp_osc_params, rp_osc_params_dirty, signals, locals,
                   acquisition, requests>>

CleanSignals(t) ==
    /\ At(t, "cleanSignals")
    /\ rp_osc_signals_dirty' = FALSE
    /\ Goto(t, "singleButton")
    /\ UNCHANGED <<mode, main, params_init, control, rp_osc_signals, locals, acquisition, requests>>

NoSingle(t) ==
    /\ At(t, "singleButton") /\ ~main.single
    /\ Return(t)
    /\ UNCHANGED <<mode, main, params_init, control, signals, locals, acquisition, requests>>

SingleButton(t) ==
    /\ At(t, "singleButton") /\ main.single
    /\ main' = [main EXCEPT !.single = FALSE]
    /\ rp_osc_signals_dirty' = FALSE
    /\ Goto(t, "startSingle")
    /\ UNCHANGED <<mode, params_init, control, rp_osc_signals, locals, acquisition, requests>>

StartSingle(t) ==
    /\ At(t, "startSingle")
    /\ rp_osc_ctrl' = "single"
    /\ Return(t)
    /\ UNCHANGED <<mode, main, params_init, rp_osc_params, rp_osc_params_dirty, signals, locals,
                   acquisition, requests>>

SettingParams(t) ==
    \/ Enter(t) \/ ReadMode(t) \/ NoAutoSet(t) \/ CleanForAutoSet(t) \/ RequestAutoSet(t)
    \/ AutoWaitEnds(t) \/ UpdateParams(t)
    \/ ChangeState(t) \/ CleanSignals(t) \/ NoSingle(t) \/ SingleButton(t) \/ StartSingle(t)

----------------------------------------------------------------------------
(* The rest of the web thread.                                              *)

GetSignals ==
    /\ At(web, "ready") /\ rp_osc_signals_dirty
    /\ rp_osc_signals_dirty' = FALSE
    /\ UNCHANGED <<pc, mode, main, params_init, control, rp_osc_signals, locals, acquisition, requests>>

(* rp_osc_worker_exit: request to quit, and join the worker.                *)
Exit ==
    /\ At(web, "ready")
    /\ rp_osc_ctrl' = "quit"
    /\ Goto(web, "join")
    /\ UNCHANGED <<mode, main, params_init, rp_osc_params, rp_osc_params_dirty, signals, locals,
                   acquisition, requests>>

Join ==
    /\ At(web, "join") /\ At(worker, "ended")
    /\ Goto(web, "exited")
    /\ UNCHANGED <<mode, main, params_init, control, signals, locals, acquisition, requests>>

----------------------------------------------------------------------------
(* The worker.                                                              *)

(* Mutant of ReadControl: the FPGA is updated only if the setting differs.  *)
ReadControlNoUpdate ==
    /\ At(worker, "top")
    /\ state' = rp_osc_ctrl
    /\ IF rp_osc_params_dirty
       THEN /\ curr_params' = rp_osc_params /\ rp_osc_params_dirty' = FALSE
            /\ fpga_update' = (rp_osc_params # curr_params) /\ time_vect_update' = TRUE
       ELSE UNCHANGED <<curr_params, rp_osc_params_dirty, fpga_update, time_vect_update>>
    /\ Goto(worker, CASE rp_osc_ctrl = "quit" -> "ended"
                      [] rp_osc_ctrl = "auto_set" -> "autoSet"
                      [] OTHER -> "updateFpga")
    /\ UNCHANGED <<mode, main, params_init, rp_osc_ctrl, rp_osc_params, signals, old_state,
                   long_acq_idx, acquisition, requests>>
    /\ iter' = 0

(* The top of the loop: the control state and new parameters are taken.     *)
(* (old_state, assigned here too, is so again before it is read.)           *)
ReadControl ==
    /\ At(worker, "top")
    /\ state' = rp_osc_ctrl
    /\ IF rp_osc_params_dirty
       THEN /\ curr_params' = rp_osc_params /\ rp_osc_params_dirty' = FALSE
            /\ fpga_update' = TRUE /\ time_vect_update' = TRUE
       ELSE UNCHANGED <<curr_params, rp_osc_params_dirty, fpga_update, time_vect_update>>
    /\ Goto(worker, CASE rp_osc_ctrl = "quit" -> "ended"
                      [] rp_osc_ctrl = "auto_set" -> "autoSet"
                      [] OTHER -> "updateFpga")
    /\ iter' = 0
    /\ UNCHANGED <<mode, main, params_init, rp_osc_ctrl, rp_osc_params, signals, old_state,
                   long_acq_idx, acquisition, requests>>

UpdateFpga ==
    /\ At(worker, "updateFpga")
    /\ IF fpga_update
       THEN fpga' = curr_params.setting /\ acquired' = Nothing
       ELSE UNCHANGED <<fpga, acquired>>
    /\ fpga_update' = FALSE
    /\ Goto(worker, IF state = "idle" THEN "top" ELSE "arm")
    /\ UNCHANGED <<mode, main, params_init, control, signals, state, old_state, curr_params,
                   time_vect_update, long_acq_idx, iter, triggered, requests>>

(* Mutant of Arm: a long acquisition is not given up.                       *)
ArmContinues ==
    /\ At(worker, "arm")
    /\ time_vect_update' = FALSE
    /\ IF long_acq_idx = 0
       THEN triggered' = FALSE /\ acquired' = Armed(fpga)
       ELSE UNCHANGED <<triggered, acquired>>
    /\ Goto(worker, "startWorking")
    /\ UNCHANGED <<mode, main, params_init, control, signals, state, old_state, curr_params,
                   fpga_update, long_acq_idx, iter, fpga, requests>>

(* New parameters begin a new acquisition; its first part arms the trigger. *)
Arm ==
    /\ At(worker, "arm")
    /\ long_acq_idx' = IF time_vect_update THEN 0 ELSE long_acq_idx
    /\ time_vect_update' = FALSE
    /\ IF long_acq_idx' = 0
       THEN triggered' = FALSE /\ acquired' = Armed(fpga)
       ELSE UNCHANGED <<triggered, acquired>>
    /\ Goto(worker, "startWorking")
    /\ UNCHANGED <<mode, main, params_init, control, signals, state, old_state, curr_params,
                   fpga_update, iter, fpga, requests>>

(* From here on a change is one against the state read now.                 *)
StartWorking ==
    /\ At(worker, "startWorking")
    /\ state' = rp_osc_ctrl /\ old_state' = rp_osc_ctrl
    /\ Goto(worker, CASE rp_osc_ctrl = "idle" -> "top"
                      [] rp_osc_ctrl = "quit" -> "ended"
                      [] OTHER -> IF long_acq_idx = 0 THEN "poll" ELSE "check")
    /\ UNCHANGED <<mode, main, params_init, control, signals, curr_params, fpga_update,
                   time_vect_update, long_acq_idx, iter, acquisition, requests>>

Changed == rp_osc_ctrl # old_state \/ rp_osc_params_dirty

(* Mutant of Poll: only the trigger ends the polling.                       *)
PollTriggerOnly ==
    /\ At(worker, "poll") /\ triggered
    /\ state' = rp_osc_ctrl
    /\ Goto(worker, IF Changed THEN "top" ELSE "check")
    /\ UNCHANGED <<mode, main, params_init, control, signals, old_state, curr_params, fpga_update,
                   time_vect_update, long_acq_idx, iter, acquisition, requests>>

(* A change ends the polling, and so does the trigger.                      *)
Poll ==
    /\ At(worker, "poll") /\ (Changed \/ triggered)
    /\ state' = rp_osc_ctrl
    /\ Goto(worker, IF Changed THEN "top" ELSE "check")
    /\ UNCHANGED <<mode, main, params_init, control, signals, old_state, curr_params, fpga_update,
                   time_vect_update, long_acq_idx, iter, acquisition, requests>>

(* No change while the data were waited for.                                *)
Check ==
    /\ At(worker, "check")
    /\ state' = rp_osc_ctrl
    /\ Goto(worker, IF Changed THEN "top" ELSE "process")
    /\ UNCHANGED <<mode, main, params_init, control, signals, old_state, curr_params, fpga_update,
                   time_vect_update, long_acq_idx, iter, acquisition, requests>>

(* The samples are taken from the FPGA's buffer; the last part of a long    *)
(* acquisition ends a single one.                                           *)
Process ==
    /\ At(worker, "process")
    /\ long_acq_idx' = IF LongAcq THEN (long_acq_idx + 1) % Parts ELSE long_acq_idx
    /\ rp_osc_ctrl' = IF LongAcq /\ long_acq_idx' = 0 /\ state = "single" THEN "idle" ELSE rp_osc_ctrl
    /\ acquired' = [acquired EXCEPT !.parts = @ + 1]
    /\ Goto(worker, "reread")
    /\ UNCHANGED <<mode, main, params_init, rp_osc_params, rp_osc_params_dirty, signals, state,
                   old_state, curr_params, fpga_update, time_vect_update, iter, fpga, triggered,
                   requests>>

Reread ==
    /\ At(worker, "reread")
    /\ state' = rp_osc_ctrl
    /\ Goto(worker, "singleDone")
    /\ UNCHANGED <<mode, main, params_init, control, signals, old_state, curr_params, fpga_update,
                   time_vect_update, long_acq_idx, iter, acquisition, requests>>

(* A single acquisition puts the state machine to idle, by the state that   *)
(* was read under the lock before.                                          *)
SingleDone ==
    /\ At(worker, "singleDone")
    /\ rp_osc_ctrl' = IF state = "single" /\ ~LongAcq THEN "idle" ELSE rp_osc_ctrl
    /\ Goto(worker, "publish")
    /\ UNCHANGED <<mode, main, params_init, rp_osc_params, rp_osc_params_dirty, signals, locals,
                   acquisition, requests>>

(* rp_osc_set_signals.                                                      *)
Publish ==
    /\ At(worker, "publish")
    /\ rp_osc_signals' = [of |-> curr_params.setting, captured |-> fpga,
                          whole |-> ~LongAcq \/ long_acq_idx = 0]
    /\ rp_osc_signals_dirty' = TRUE
    /\ Goto(worker, "top")
    /\ UNCHANGED <<mode, main, params_init, control, locals, acquisition, requests>>

(* rp_osc_auto_set.  Each acquisition of the first phase compares with the  *)
(* state it has read itself; its locals state and old_state stand in those  *)
(* of the caller, which reads them anew after the call.                     *)
AutoAcquire ==
    /\ At(worker, "autoSet")
    /\ old_state' = rp_osc_ctrl
    /\ fpga' = "autoImmediate" /\ triggered' = FALSE /\ acquired' = Armed(fpga')
    /\ iter' = iter + 1
    /\ Goto(worker, "autoPoll")
    /\ UNCHANGED <<mode, main, params_init, control, signals, state, curr_params, fpga_update,
                   time_vect_update, long_acq_idx, requests>>

AutoSearch ==
    /\ fpga' = "autoEdge" /\ triggered' = FALSE /\ acquired' = Armed(fpga')
    /\ iter' = iter + 1
    /\ Goto(worker, "autoPoll")
    /\ UNCHANGED curr_params

AutoResult ==
    /\ \E s \in AutoResults : curr_params' = [curr_params EXCEPT !.setting = s, !.auto = FALSE]
    /\ Goto(worker, "updateMain")
    /\ UNCHANGED <<acquisition, iter>>

AutoPoll ==
    /\ At(worker, "autoPoll")
    /\ \/ Changed /\ Goto(worker, "updateMain") /\ UNCHANGED <<curr_params, acquisition, iter>>
       \/ /\ ~Changed /\ triggered
          /\ \/ iter < Iterations /\ Goto(worker, "autoSet") /\ UNCHANGED <<curr_params, acquisition, iter>>
             \/ iter >= Iterations /\ iter < 2 * Iterations /\ AutoSearch
             \/ iter >= Iterations /\ AutoResult
    /\ state' = rp_osc_ctrl
    /\ UNCHANGED <<mode, main, params_init, control, signals, old_state, fpga_update,
                   time_vect_update, long_acq_idx, requests>>

(* rp_update_main_params, whatever auto-set returned.                       *)
UpdateMain ==
    /\ At(worker, "updateMain")
    /\ main' = curr_params
    /\ params_init' = FALSE
    /\ Goto(worker, "enter")
    /\ UNCHANGED <<mode, control, signals, locals, acquisition, requests>>

(* The trigger of an armed acquisition.                                     *)
Trigger ==
    /\ At(worker, "poll") \/ At(worker, "autoPoll") \/ At(worker, "startWorking")
    /\ ~triggered /\ triggered' = TRUE
    /\ UNCHANGED <<pc, mode, main, params_init, control, signals, locals, fpga, acquired, requests>>

WebStep == SettingParams(web) \/ Join
User == (\E r \in Requests : SetParams(r)) \/ GetSignals \/ Exit
WorkerStep ==
    \/ ReadControl \/ UpdateFpga \/ Arm \/ StartWorking \/ Poll \/ Check \/ Process \/ Reread
    \/ SingleDone \/ Publish \/ AutoAcquire \/ AutoPoll \/ UpdateMain \/ SettingParams(worker)

Next == User \/ WebStep \/ WorkerStep \/ Trigger

(* Both threads are run by the kernel, and an immediate trigger comes by    *)
(* itself; users and edges of the signal need not.                          *)
Spec ==
    /\ Init /\ [][Next]_vars
    /\ WF_vars(WebStep) /\ WF_vars(WorkerStep)
    /\ WF_vars(Trigger /\ Immediate(fpga))

----------------------------------------------------------------------------
(* Properties.                                                              *)

SetParamsLabels == {"enter", "mode", "autoFlag", "autoState", "autoWait", "updateParams", "changeState", "cleanSignals",
                    "singleButton", "startSingle"}
WebLabels == SetParamsLabels \cup {"ready", "join", "exited"}
WorkerLabels == SetParamsLabels \cup
    {"top", "updateFpga", "arm", "startWorking", "poll", "check", "process", "reread", "singleDone",
     "publish", "autoSet", "autoPoll", "updateMain", "ended"}
ControlStates == {"idle", "quit", "auto", "normal", "single", "auto_set"}
Params == [setting : Settings, single : BOOLEAN, auto : BOOLEAN]

AcquiredType == acquired \in [of : Settings \cup AutoSetups \cup {"nothing"}, parts : Nat]

(* Types and bounds; a long acquisition has Parts parts.                    *)
TypeOK ==
    /\ pc[web] \in WebLabels /\ pc[worker] \in WorkerLabels /\ DOMAIN pc = Threads
    /\ mode \in [Threads -> Modes]
    /\ main \in Params /\ params_init \in BOOLEAN
    /\ rp_osc_ctrl \in ControlStates /\ rp_osc_params \in Params /\ rp_osc_params_dirty \in BOOLEAN
    /\ rp_osc_signals \in [of : Settings, captured : Settings \cup AutoSetups, whole : BOOLEAN]
    /\ rp_osc_signals_dirty \in BOOLEAN
    /\ state \in ControlStates /\ old_state \in ControlStates /\ curr_params \in Params
    /\ fpga_update \in BOOLEAN /\ time_vect_update \in BOOLEAN
    /\ long_acq_idx \in 0..Parts-1 /\ iter \in 0..(2 * Iterations)
    /\ fpga \in Settings \cup AutoSetups /\ triggered \in BOOLEAN
    /\ AcquiredType
    /\ requests \in 0..MaxRequests

(* Why signals are scaled by the setting they were captured with.  Auto-set *)
(* leaves the FPGA with a setting of its own, and the worker acquires again *)
(* only after a change of the control state, before which new parameters    *)
(* have always been handed over.                                            *)
AfterUpdate == {"changeState", "cleanSignals", "singleButton", "startSingle"}
Acquiring == {"arm", "startWorking", "poll", "check", "process", "reread", "singleDone", "publish"}
Unsettled == {"autoSet", "autoPoll", "updateMain", "enter", "mode", "autoFlag", "autoState", "autoWait",
              "updateParams"}
Coming == fpga_update \/ rp_osc_params_dirty
Known == Coming \/ fpga = curr_params.setting
Held == rp_osc_ctrl \in {"idle", "quit", "auto_set"}

AcquiresInv == pc[worker] \in Acquiring => fpga = curr_params.setting /\ ~fpga_update
LoopInv ==
    pc[worker] \in {"top", "updateFpga"} => /\ Held \/ Known
                                            /\ pc[web] \in AfterUpdate => Known
UpdateInv ==
    pc[worker] = "updateFpga" => state = "idle" \/ fpga_update \/ fpga = curr_params.setting
UnsettledInv ==
    pc[worker] \in Unsettled => /\ Held \/ Coming
                                /\ pc[web] \in AfterUpdate => Coming
HandedInv == pc[worker] \in AfterUpdate => rp_osc_params_dirty
AutoSetInv ==
    rp_osc_ctrl = "auto_set" /\ pc[web] \in AfterUpdate
        => rp_osc_params_dirty \/ (fpga_update /\ pc[worker] \notin Acquiring \cup {"updateFpga"})

(* Signals shown to the user were captured with the very setting they are   *)
(* scaled by, however settings and auto-set interleave.                     *)
SignalsFromOneSetting ==
    rp_osc_signals_dirty => rp_osc_signals.captured = rp_osc_signals.of

(* Samples are only taken of the triggered acquisition that the FPGA was    *)
(* armed for with the setting in force, and that nothing has reset since;   *)
(* the part a long one goes on with is the one that follows the parts taken *)
(* of the very same arming.                                                 *)
PartsOfOneAcquisition ==
    pc[worker] = "process" =>
        triggered /\ acquired = [of |-> curr_params.setting, parts |-> long_acq_idx]

CaptureInv ==
    /\ AcquiresInv /\ LoopInv /\ UpdateInv /\ UnsettledInv /\ HandedInv /\ AutoSetInv
    /\ SignalsFromOneSetting

(* Why the parts belong together.  Where the trigger or the parameters of a *)
(* long acquisition in progress were lost to auto-set, new parameters come  *)
(* before the worker acquires again, and they begin a new acquisition.      *)
Continues == acquired = [of |-> curr_params.setting, parts |-> long_acq_idx]
Fits == time_vect_update \/ (long_acq_idx # 0 => LongAcq /\ triggered /\ Continues)

PartsInv ==
    /\ fpga_update => time_vect_update
    /\ pc[worker] \in Acquiring => Fits
    /\ pc[worker] \in Acquiring \ {"arm"} => ~time_vect_update
    /\ pc[worker] \in {"startWorking", "poll", "check", "process"} => Continues
    /\ pc[worker] \in {"check", "process"} => triggered
    /\ pc[worker] \in {"top", "updateFpga"} =>
          /\ Held \/ Coming \/ Fits
          /\ pc[web] \in AfterUpdate => Coming \/ Fits
    /\ pc[worker] = "updateFpga" => state = "idle" \/ fpga_update \/ Fits

(* When the web thread is done, auto-set is not asked for and the worker    *)
(* waits for the trigger with nothing new to take, all copies of the        *)
(* setting agree.                                                           *)
SettledAgrees ==
    pc[web] = "ready" /\ ~main.auto /\ pc[worker] = "poll" /\ ~rp_osc_params_dirty
        => /\ main.setting = rp_osc_params.setting
           /\ curr_params.setting = main.setting /\ fpga = main.setting

(* Why they do.  Where the copies disagree, auto-set is asked for or a      *)
(* thread is on its way to hand over the main parameters; the worker goes   *)
(* on without doing so only if the web thread has entered rp_set_params     *)
(* after the main parameters changed.                                       *)
Agree ==
    /\ main.setting = rp_osc_params.setting
    /\ rp_osc_params_dirty \/ curr_params.setting = rp_osc_params.setting
HandsOver == {"mode", "autoFlag", "updateParams"}

AgreeInv ==
    \/ Agree \/ main.auto
    \/ pc[web] \in HandsOver
    \/ pc[worker] \in HandsOver \cup {"autoSet", "autoPoll", "updateMain"}
    \/ pc[worker] = "enter" /\ ~params_init

(* Parameters handed to the worker reach the FPGA, unless others follow or  *)
(* the worker quits.                                                        *)
ParamsReachFpga ==
    \A s \in Settings :
        rp_osc_params_dirty /\ rp_osc_params.setting = s
            ~> fpga = s \/ rp_osc_params.setting # s \/ pc[worker] = "ended"

(* "request to stop worker thread, we will shut down": unloading the        *)
(* application comes to an end.                                             *)
QuitEndsWorker == pc[web] = "join" ~> pc[web] = "exited"

==============================================================================
