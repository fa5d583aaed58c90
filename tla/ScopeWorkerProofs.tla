-------------------------- MODULE ScopeWorkerProofs --------------------------
(* Proofs about ScopeWorker: types, and why the signals shown were captured *)
(* with the setting they are scaled by, for any settings, requests and      *)
(* results of auto-set.                                                     *)
EXTENDS ScopeWorker, TLAPS

USE DEF Threads, web, worker

(* The acquisitions of auto-set are counted up to the bound of its phase.   *)
IterInv == pc[worker] = "autoSet" => iter < Iterations

LEMMA InitTypeOK == Init => TypeOK /\ IterInv
  <1> SUFFICES ASSUME Init PROVE TypeOK /\ IterInv OBVIOUS
  <1> USE ScopeWorkerAssumption DEF Init
  <1>1. pc[web] \in WebLabels /\ pc[worker] \in WorkerLabels /\ DOMAIN pc = Threads
    BY DEF WebLabels, WorkerLabels, SetParamsLabels
  <1>2. mode \in [Threads -> Modes] BY DEF Modes
  <1>3. main \in Params BY DEF Params
  <1>4. rp_osc_signals \in [of : Settings, captured : Settings \cup AutoSetups, whole : BOOLEAN]
    OBVIOUS
  <1>5. 0 \in 0..Parts-1 /\ 0 \in 0..(2 * Iterations) /\ 0 \in 0..MaxRequests OBVIOUS
  <1>6. "idle" \in ControlStates BY DEF ControlStates
  <1>7. fpga \in Settings \cup AutoSetups BY DEF AutoSetups
  <1>10. AcquiredType BY DEF AcquiredType, Nothing, Armed
  <1>8. TypeOK
    <2> HIDE ScopeWorkerAssumption
    <2> QED BY <1>1, <1>2, <1>3, <1>4, <1>5, <1>6, <1>7, <1>10 DEF TypeOK
  <1>9. IterInv BY DEF IterInv
  <1> QED BY <1>8, <1>9

(* What the FPGA is armed for is written by four steps of the worker only,  *)
(* and counted by Process.                                                  *)
LEMMA AcquiredTyped == ASSUME TypeOK, [Next]_vars PROVE AcquiredType'
  <1>0. AcquiredType /\ fpga \in Settings \cup AutoSetups BY DEF TypeOK
  <1> USE DEF acquisition
  <1>1. ASSUME NEW t \in Threads, SettingParams(t) PROVE UNCHANGED acquired
    BY <1>1 DEF SettingParams, Enter, ReadMode, NoAutoSet, CleanForAutoSet, RequestAutoSet, AutoWaitEnds,
           UpdateParams, ChangeState, CleanSignals, NoSingle, SingleButton, StartSingle
  <1>2. CASE User \/ Join \/ Trigger BY <1>0, <1>2
    DEF User, SetParams, GetSignals, Exit, Join, Trigger, AcquiredType
  <1>3. CASE WorkerStep /\ ~SettingParams(worker)
    <2>1. \/ UNCHANGED acquired
          \/ \E s \in Settings \cup AutoSetups \cup {"nothing"} : acquired' = Armed(s)
          \/ acquired' = [acquired EXCEPT !.parts = @ + 1]
      <3>1. CASE UpdateFpga \/ Arm \/ Process \/ AutoAcquire
        BY <1>0, <3>1 DEF UpdateFpga, Arm, Process, AutoAcquire, Nothing, AutoSetups
      <3>2. CASE AutoPoll BY <3>2 DEF AutoPoll, AutoSearch, AutoResult, AutoSetups
      <3>3. CASE ReadControl \/ StartWorking \/ Poll \/ Check \/ Reread \/ SingleDone \/ Publish \/ UpdateMain
        BY <3>3 DEF ReadControl, StartWorking, Poll, Check, Reread, SingleDone, Publish, UpdateMain
      <3> QED BY <1>3, <3>1, <3>2, <3>3 DEF WorkerStep
    <2> QED BY <1>0, <2>1 DEF AcquiredType, Armed
  <1>4. CASE UNCHANGED vars BY <1>0, <1>4 DEF vars, AcquiredType
  <1>5. ASSUME UNCHANGED acquired PROVE AcquiredType' BY <1>0, <1>5 DEF AcquiredType
  <1> QED BY <1>1, <1>2, <1>3, <1>4, <1>5 DEF Next, WebStep

(* A thread that goes on in rp_set_params, or returns from it.              *)
LEMMA GotoType ==
    ASSUME TypeOK, NEW t \in Threads, NEW label \in SetParamsLabels \cup {IF t = web THEN "ready" ELSE "top"},
           Goto(t, label)
    PROVE  /\ pc'[web] \in WebLabels /\ pc'[worker] \in WorkerLabels /\ DOMAIN pc' = Threads
           /\ pc'[worker] = "autoSet" => pc[worker] = "autoSet"
  <1>1. label # "autoSet" BY DEF SetParamsLabels
  <1>2. /\ pc'[web] \in WebLabels /\ pc'[worker] \in WorkerLabels /\ DOMAIN pc' = Threads
    BY DEF TypeOK, Goto, WebLabels, WorkerLabels, SetParamsLabels
  <1>3. pc'[worker] = "autoSet" => pc[worker] = "autoSet"
    BY <1>1 DEF TypeOK, Goto
  <1> QED BY <1>2, <1>3

(* The setting of parameters keeps the types, and does not count.           *)
LEMMA SettingParamsType ==
    ASSUME TypeOK, AcquiredType', NEW t \in Threads, SettingParams(t)
    PROVE  TypeOK' /\ (IterInv => IterInv')
  <1>0. PICK label \in SetParamsLabels \cup {IF t = web THEN "ready" ELSE "top"} : Goto(t, label)
    BY DEF SettingParams, Enter, ReadMode, NoAutoSet, CleanForAutoSet, RequestAutoSet, AutoWaitEnds,
           UpdateParams, ChangeState, CleanSignals, NoSingle, SingleButton, StartSingle, Return,
           SetParamsLabels
  <1>a. /\ pc'[web] \in WebLabels /\ pc'[worker] \in WorkerLabels /\ DOMAIN pc' = Threads
        /\ pc'[worker] = "autoSet" => pc[worker] = "autoSet"
    BY <1>0, GotoType
  <1> USE <1>a DEF TypeOK, IterInv, control, signals, locals, acquisition
  <1>1. CASE Enter(t) BY <1>1 DEF Enter
  <1>2. CASE ReadMode(t)
    <2>1. Mode[main.setting] \in Modes BY ScopeWorkerAssumption DEF Params
    <2> QED BY <1>2, <2>1 DEF ReadMode
  <1>3. CASE NoAutoSet(t) BY <1>3 DEF NoAutoSet
  <1>4. CASE CleanForAutoSet(t) BY <1>4 DEF CleanForAutoSet
  <1>5. CASE RequestAutoSet(t) BY <1>5 DEF RequestAutoSet, ControlStates
  <1>6. CASE AutoWaitEnds(t) BY <1>6 DEF AutoWaitEnds
  <1>7. CASE UpdateParams(t) BY <1>7 DEF UpdateParams
  <1>8. CASE ChangeState(t)
    <2>1. mode[t] \in {"auto", "normal", "single"} BY DEF Modes
    <2>2. rp_osc_ctrl' \in ControlStates BY <1>8, <2>1 DEF ChangeState, ControlStates
    <2> QED BY <1>8, <2>2 DEF ChangeState
  <1>9. CASE CleanSignals(t) BY <1>9 DEF CleanSignals
  <1>10. CASE NoSingle(t) BY <1>10 DEF NoSingle
  <1>11. CASE SingleButton(t)
    <2>1. main' \in Params BY <1>11 DEF SingleButton, Params
    <2> QED BY <1>11, <2>1 DEF SingleButton
  <1>12. CASE StartSingle(t) BY <1>12 DEF StartSingle, ControlStates
  <1> QED BY <1>1, <1>2, <1>3, <1>4, <1>5, <1>6, <1>7, <1>8, <1>9, <1>10, <1>11, <1>12 DEF SettingParams

(* So does the rest of the web thread.                                      *)
LEMMA WebType ==
    ASSUME TypeOK, AcquiredType', User \/ Join PROVE TypeOK' /\ (IterInv => IterInv')
  <1> USE DEF TypeOK, At, Goto, control, signals, locals, acquisition, IterInv
  <1>1. ASSUME NEW r \in Requests, SetParams(r) PROVE TypeOK' /\ (IterInv => IterInv')
    <2>1. r \in Params BY ScopeWorkerAssumption DEF Params
    <2>2. requests' \in 0..MaxRequests BY <1>1, ScopeWorkerAssumption DEF SetParams
    <2>3. pc'[web] \in WebLabels /\ pc'[worker] = pc[worker] /\ DOMAIN pc' = Threads
      BY <1>1 DEF SetParams, WebLabels, SetParamsLabels
    <2> QED BY <1>1, <2>1, <2>2, <2>3 DEF SetParams
  <1>2. CASE GetSignals BY <1>2 DEF GetSignals
  <1>3. CASE Exit BY <1>3 DEF Exit, ControlStates, WebLabels
  <1>4. CASE Join BY <1>4 DEF Join, WebLabels
  <1> QED BY <1>1, <1>2, <1>3, <1>4 DEF User

(* A thread's label after the worker has gone to another.                   *)
LEMMA WorkerGoto ==
    ASSUME TypeOK, NEW label \in WorkerLabels, Goto(worker, label)
    PROVE  /\ pc'[web] = pc[web] /\ pc'[web] \in WebLabels
           /\ pc'[worker] = label /\ pc'[worker] \in WorkerLabels /\ DOMAIN pc' = Threads
  BY DEF TypeOK, Goto

(* And so does the worker, which counts within the bounds.                  *)
LEMMA WorkerType ==
    ASSUME TypeOK, AcquiredType', IterInv, (WorkerStep /\ ~SettingParams(worker)) \/ Trigger
    PROVE  TypeOK' /\ IterInv'
  <1> USE WorkerGoto DEF TypeOK, At, control, signals, locals, acquisition
  <1>1. CASE ReadControl
    <2>1. PICK l \in {"ended", "autoSet", "updateFpga"} : Goto(worker, l) BY <1>1 DEF ReadControl
    <2>2. l \in WorkerLabels BY DEF WorkerLabels
    <2>3. 0 \in 0..(2 * Iterations) /\ 0 < Iterations BY ScopeWorkerAssumption
    <2> QED BY <1>1, <2>1, <2>2, <2>3 DEF ReadControl, IterInv
  <1>2. CASE UpdateFpga
    <2>1. PICK l \in {"top", "arm"} : Goto(worker, l) BY <1>2 DEF UpdateFpga
    <2>2. l \in WorkerLabels /\ l # "autoSet" BY DEF WorkerLabels
    <2>3. curr_params.setting \in Settings BY DEF Params
    <2>4. /\ pc'[web] \in WebLabels /\ pc'[worker] \in WorkerLabels /\ DOMAIN pc' = Threads
          /\ pc'[worker] # "autoSet"
      BY <2>1, <2>2
    <2> HIDE WorkerGoto
    <2> QED BY <1>2, <2>3, <2>4 DEF UpdateFpga, IterInv
  <1>3. CASE Arm
    <2>1. "startWorking" \in WorkerLabels BY DEF WorkerLabels
    <2>2. 0 \in 0..Parts-1 BY ScopeWorkerAssumption
    <2>3. long_acq_idx' \in 0..Parts-1 /\ triggered' \in BOOLEAN BY <1>3, <2>2 DEF Arm
    <2>4. pc'[worker] # "autoSet" BY <1>3, <2>1 DEF Arm
    <2> QED BY <1>3, <2>1, <2>3, <2>4 DEF Arm, IterInv
  <1>4. CASE StartWorking
    <2>1. PICK l \in {"top", "ended", "poll", "check"} : Goto(worker, l) BY <1>4 DEF StartWorking
    <2>2. l \in WorkerLabels /\ l # "autoSet" BY DEF WorkerLabels
    <2> QED BY <1>4, <2>1, <2>2 DEF StartWorking, IterInv
  <1>5. CASE Poll
    <2>1. PICK l \in {"top", "check"} : Goto(worker, l) BY <1>5 DEF Poll
    <2>2. l \in WorkerLabels /\ l # "autoSet" BY DEF WorkerLabels
    <2> QED BY <1>5, <2>1, <2>2 DEF Poll, IterInv
  <1>6. CASE Check
    <2>1. PICK l \in {"top", "process"} : Goto(worker, l) BY <1>6 DEF Check
    <2>2. l \in WorkerLabels /\ l # "autoSet" BY DEF WorkerLabels
    <2> QED BY <1>6, <2>1, <2>2 DEF Check, IterInv
  <1>7. CASE Process
    <2>1. "reread" \in WorkerLabels BY DEF WorkerLabels
    <2>2. long_acq_idx' \in 0..Parts-1 BY <1>7, ScopeWorkerAssumption DEF Process
    <2>3. rp_osc_ctrl' \in ControlStates BY <1>7 DEF Process, ControlStates
    <2> QED BY <1>7, <2>1, <2>2, <2>3 DEF Process, IterInv
  <1>8. CASE Reread
    <2>1. "singleDone" \in WorkerLabels BY DEF WorkerLabels
    <2> QED BY <1>8, <2>1 DEF Reread, IterInv
  <1>9. CASE SingleDone
    <2>1. "publish" \in WorkerLabels BY DEF WorkerLabels
    <2>2. rp_osc_ctrl' \in ControlStates BY <1>9 DEF SingleDone, ControlStates
    <2> QED BY <1>9, <2>1, <2>2 DEF SingleDone, IterInv
  <1>10. CASE Publish
    <2>1. "top" \in WorkerLabels BY DEF WorkerLabels
    <2>2. curr_params.setting \in Settings BY DEF Params
    <2>3. (~LongAcq \/ long_acq_idx = 0) \in BOOLEAN OBVIOUS
    <2>4. rp_osc_signals' \in [of : Settings, captured : Settings \cup AutoSetups, whole : BOOLEAN]
      BY <1>10, <2>2, <2>3 DEF Publish
    <2> QED BY <1>10, <2>1, <2>4 DEF Publish, IterInv
  <1>11. CASE AutoAcquire
    <2>1. "autoPoll" \in WorkerLabels BY DEF WorkerLabels
    <2>2. iter' \in 0..(2 * Iterations) BY <1>11, ScopeWorkerAssumption DEF AutoAcquire, IterInv
    <2>3. fpga' \in Settings \cup AutoSetups BY <1>11 DEF AutoAcquire, AutoSetups
    <2> QED BY <1>11, <2>1, <2>2, <2>3 DEF AutoAcquire, IterInv
  <1>12. CASE AutoPoll
    <2>1. PICK l \in {"updateMain", "autoSet", "autoPoll"} : Goto(worker, l)
      BY <1>12 DEF AutoPoll, AutoSearch, AutoResult
    <2>2. l \in WorkerLabels BY DEF WorkerLabels
    <2>3. curr_params' \in Params
      <3>1. \/ curr_params' = curr_params
            \/ \E s \in AutoResults :
                  curr_params' = [curr_params EXCEPT !.setting = s, !.auto = FALSE]
        BY <1>12 DEF AutoPoll, AutoSearch, AutoResult
      <3>2. curr_params \in Params /\ AutoResults \subseteq Settings BY ScopeWorkerAssumption
      <3> HIDE DEF TypeOK
      <3> QED BY <3>1, <3>2 DEF Params
    <2>4. fpga' \in Settings \cup AutoSetups /\ triggered' \in BOOLEAN
      BY <1>12 DEF AutoPoll, AutoSearch, AutoResult, AutoSetups
    <2>5. iter' \in 0..(2 * Iterations)
      <3>1. iter' = iter \/ (iter < 2 * Iterations /\ iter' = iter + 1)
        BY <1>12 DEF AutoPoll, AutoSearch, AutoResult
      <3>2. iter \in 0..(2 * Iterations) /\ Iterations \in Nat BY ScopeWorkerAssumption
      <3> HIDE DEF TypeOK
      <3> QED BY <3>1, <3>2
    <2>6. pc'[worker] = "autoSet" => iter' < Iterations
      BY <1>12, ScopeWorkerAssumption DEF AutoPoll, AutoSearch, AutoResult, Goto
    <2> QED BY <1>12, <2>1, <2>2, <2>3, <2>4, <2>5, <2>6 DEF AutoPoll, IterInv
  <1>13. CASE UpdateMain
    <2>1. "enter" \in WorkerLabels BY DEF WorkerLabels, SetParamsLabels
    <2> QED BY <1>13, <2>1 DEF UpdateMain, IterInv
  <1>14. CASE Trigger BY <1>14 DEF Trigger, IterInv
  <1> QED BY <1>1, <1>2, <1>3, <1>4, <1>5, <1>6, <1>7, <1>8, <1>9, <1>10, <1>11, <1>12, <1>13, <1>14 DEF WorkerStep

(* Every variable keeps its type, whatever the settings and the requests.   *)
THEOREM TypeCorrect == Spec => []TypeOK
  <1>1. Init => TypeOK /\ IterInv BY InitTypeOK
  <1>2. ASSUME TypeOK /\ IterInv, [Next]_vars PROVE TypeOK' /\ IterInv'
    <2>0. AcquiredType' BY <1>2, AcquiredTyped
    <2>1. CASE User \/ Join BY <1>2, <2>0, <2>1, WebType
    <2>2. CASE SettingParams(web) BY <1>2, <2>0, <2>2, SettingParamsType
    <2>3. CASE SettingParams(worker) BY <1>2, <2>0, <2>3, SettingParamsType
    <2>4. CASE (WorkerStep /\ ~SettingParams(worker)) \/ Trigger BY <1>2, <2>0, <2>4, WorkerType
    <2>5. CASE UNCHANGED vars
      BY <1>2, <2>0, <2>5 DEF vars, control, signals, locals, acquisition, TypeOK, IterInv
    <2> QED BY <1>2, <2>1, <2>2, <2>3, <2>4, <2>5 DEF Next, WebStep
  <1> QED BY <1>1, <1>2, PTL DEF Spec

-----------------------------------------------------------------------------
(* What CaptureInv needs of the types.                                      *)
Facts ==
    /\ DOMAIN pc = Threads
    /\ mode[web] \in {"auto", "normal", "single"} /\ mode[worker] \in {"auto", "normal", "single"}
    /\ rp_osc_params_dirty \in BOOLEAN /\ fpga_update \in BOOLEAN

LEMMA TypeFacts == TypeOK => Facts
  BY DEF TypeOK, Facts, Modes

LEMMA InitCapture == Init => CaptureInv
  BY DEF Init, CaptureInv, AcquiresInv, LoopInv, UpdateInv, UnsettledInv, HandedInv, AutoSetInv,
         Held, Known, Coming, Acquiring, Unsettled, AfterUpdate, SignalsFromOneSetting

(* The web thread sets parameters: it goes among its labels, marks the new  *)
(* parameters before it changes the control state, and clears signals.      *)
LEMMA WebCapture ==
    ASSUME Facts, CaptureInv, SettingParams(web) PROVE CaptureInv'
  <1> USE DEF Facts, CaptureInv, At, Goto, Return, control, signals, locals, acquisition,
              AcquiresInv, LoopInv, UpdateInv, UnsettledInv, HandedInv, AutoSetInv, SignalsFromOneSetting,
              Held, Known, Coming, Acquiring, Unsettled, AfterUpdate
  <1>1. CASE Enter(web) \/ ReadMode(web) \/ NoAutoSet(web) \/ AutoWaitEnds(web) \/ NoSingle(web)
    BY <1>1 DEF Enter, ReadMode, NoAutoSet, AutoWaitEnds, NoSingle
  <1>2. CASE CleanForAutoSet(web) \/ CleanSignals(web) \/ SingleButton(web)
    BY <1>2 DEF CleanForAutoSet, CleanSignals, SingleButton
  <1>3. CASE RequestAutoSet(web) BY <1>3 DEF RequestAutoSet
  <1>4. CASE UpdateParams(web) BY <1>4 DEF UpdateParams
  <1>5. CASE ChangeState(web) BY <1>5 DEF ChangeState
  <1>6. CASE StartSingle(web) BY <1>6 DEF StartSingle
  <1> QED BY <1>1, <1>2, <1>3, <1>4, <1>5, <1>6 DEF SettingParams

(* The worker sets the parameters that auto-set has returned.               *)
LEMMA ReturnCapture ==
    ASSUME Facts, CaptureInv, SettingParams(worker) PROVE CaptureInv'
  <1> USE DEF Facts, CaptureInv, At, Goto, Return, control, signals, locals, acquisition,
              AcquiresInv, LoopInv, UpdateInv, UnsettledInv, HandedInv, AutoSetInv, SignalsFromOneSetting,
              Held, Known, Coming, Acquiring, Unsettled, AfterUpdate
  <1>1. CASE Enter(worker) \/ ReadMode(worker) \/ NoAutoSet(worker) \/ AutoWaitEnds(worker) \/ NoSingle(worker)
    BY <1>1 DEF Enter, ReadMode, NoAutoSet, AutoWaitEnds, NoSingle
  <1>2. CASE CleanForAutoSet(worker) \/ CleanSignals(worker) \/ SingleButton(worker)
    BY <1>2 DEF CleanForAutoSet, CleanSignals, SingleButton
  <1>3. CASE RequestAutoSet(worker) BY <1>3 DEF RequestAutoSet
  <1>4. CASE UpdateParams(worker) BY <1>4 DEF UpdateParams
  <1>5. CASE ChangeState(worker) BY <1>5 DEF ChangeState
  <1>6. CASE StartSingle(worker) BY <1>6 DEF StartSingle
  <1> QED BY <1>1, <1>2, <1>3, <1>4, <1>5, <1>6 DEF SettingParams

(* Requests, fetched signals, the request to quit.                          *)
LEMMA UserCapture ==
    ASSUME Facts, CaptureInv, User \/ Join \/ Trigger PROVE CaptureInv'
  <1> USE DEF Facts, CaptureInv, At, Goto, control, signals, locals, acquisition,
              AcquiresInv, LoopInv, UpdateInv, UnsettledInv, HandedInv, AutoSetInv, SignalsFromOneSetting,
              Held, Known, Coming, Acquiring, Unsettled, AfterUpdate
  <1>1. ASSUME NEW r \in Requests, SetParams(r) PROVE CaptureInv' BY <1>1 DEF SetParams
  <1>2. CASE GetSignals BY <1>2 DEF GetSignals
  <1>3. CASE Exit BY <1>3 DEF Exit
  <1>4. CASE Join BY <1>4 DEF Join
  <1>5. CASE Trigger BY <1>5 DEF Trigger
  <1> QED BY <1>1, <1>2, <1>3, <1>4, <1>5 DEF User

(* The loop of the worker: it comes to an acquisition only with the setting *)
(* of the FPGA that the signals will be scaled by.                          *)
LEMMA LoopCapture ==
    ASSUME Facts, CaptureInv, WorkerStep, ~SettingParams(worker) PROVE CaptureInv'
  <1> USE DEF Facts, CaptureInv, At, Goto, control, signals, locals, acquisition,
              AcquiresInv, LoopInv, UpdateInv, UnsettledInv, HandedInv, AutoSetInv, SignalsFromOneSetting,
              Held, Known, Coming, Acquiring, Unsettled, AfterUpdate
  <1>1. CASE ReadControl BY <1>1 DEF ReadControl
  <1>2. CASE UpdateFpga BY <1>2 DEF UpdateFpga
  <1>3. CASE Arm BY <1>3 DEF Arm
  <1>4. CASE StartWorking BY <1>4 DEF StartWorking
  <1>5. CASE Poll \/ Check BY <1>5 DEF Poll, Check
  <1>6. CASE Process \/ Reread \/ SingleDone BY <1>6 DEF Process, Reread, SingleDone
  <1>7. CASE Publish BY <1>7 DEF Publish
  <1>8. CASE AutoAcquire BY <1>8 DEF AutoAcquire
  <1>9. CASE AutoPoll BY <1>9 DEF AutoPoll, AutoSearch, AutoResult
  <1>10. CASE UpdateMain BY <1>10 DEF UpdateMain
  <1> QED BY <1>1, <1>2, <1>3, <1>4, <1>5, <1>6, <1>7, <1>8, <1>9, <1>10 DEF WorkerStep

(* CaptureInv is inductive over the types.                                  *)
THEOREM CaptureCorrect == Spec => []CaptureInv
  <1>1. Init => CaptureInv BY InitCapture
  <1>2. ASSUME TypeOK, CaptureInv, [Next]_vars PROVE CaptureInv'
    <2>1. Facts BY <1>2, TypeFacts
    <2>2. CASE User \/ Join \/ Trigger BY <1>2, <2>1, <2>2, UserCapture
    <2>3. CASE SettingParams(web) BY <1>2, <2>1, <2>3, WebCapture
    <2>4. CASE SettingParams(worker) BY <1>2, <2>1, <2>4, ReturnCapture
    <2>5. CASE WorkerStep /\ ~SettingParams(worker) BY <1>2, <2>1, <2>5, LoopCapture
    <2>6. CASE UNCHANGED vars
      BY <1>2, <2>6
      DEF vars, control, signals, locals, acquisition, CaptureInv,
          AcquiresInv, LoopInv, UpdateInv, UnsettledInv, HandedInv, AutoSetInv, SignalsFromOneSetting,
          Held, Known, Coming
    <2> QED BY <1>2, <2>2, <2>3, <2>4, <2>5, <2>6 DEF Next, WebStep
  <1> QED BY <1>1, <1>2, TypeCorrect, PTL DEF Spec

(* Signals shown to the user were captured with the setting they are scaled *)
(* by (rp_osc_set_signals after rp_osc_decimate), for any number of         *)
(* requests and however auto-set interleaves.                               *)
THEOREM SignalsCorrect == Spec => []SignalsFromOneSetting
  <1>1. CaptureInv => SignalsFromOneSetting BY DEF CaptureInv
  <1> QED BY <1>1, CaptureCorrect, PTL

-----------------------------------------------------------------------------
(* Both threads in rp_set_params: new parameters are marked before the      *)
(* control state changes, so the worker that acquires again takes them.     *)
LEMMA SettingParts ==
    ASSUME Facts, CaptureInv, PartsInv, NEW t \in Threads, SettingParams(t) PROVE PartsInv'
  <1> USE DEF Facts, PartsInv, At, Goto, Return, control, signals, locals, acquisition,
              Held, Coming, Fits, Continues, LongAcq, Acquiring, AfterUpdate
  <1>0. /\ pc[worker] \in Unsettled => Held \/ Coming
        /\ pc[worker] \in Unsettled /\ pc[web] \in AfterUpdate => Coming
        /\ pc[worker] \in AfterUpdate => rp_osc_params_dirty
    BY DEF CaptureInv, UnsettledInv, HandedInv
  <1> USE <1>0 DEF Unsettled
  <1>1. CASE Enter(t) \/ ReadMode(t) \/ NoAutoSet(t) \/ AutoWaitEnds(t)
    BY <1>1 DEF Enter, ReadMode, NoAutoSet, AutoWaitEnds
  <1>2. CASE CleanForAutoSet(t) \/ CleanSignals(t) \/ SingleButton(t) \/ NoSingle(t)
    BY <1>2 DEF CleanForAutoSet, CleanSignals, SingleButton, NoSingle
  <1>3. CASE RequestAutoSet(t) BY <1>3 DEF RequestAutoSet
  <1>4. CASE UpdateParams(t) BY <1>4 DEF UpdateParams
  <1>5. CASE ChangeState(t) BY <1>5 DEF ChangeState
  <1>6. CASE StartSingle(t) BY <1>6 DEF StartSingle
  <1> QED BY <1>1, <1>2, <1>3, <1>4, <1>5, <1>6 DEF SettingParams

(* The users and the trigger, and the loop of the worker.                   *)
LEMMA LoopParts ==
    ASSUME Facts, long_acq_idx \in 0..Parts-1, CaptureInv, PartsInv,
           User \/ Join \/ Trigger \/ (WorkerStep /\ ~SettingParams(worker))
    PROVE  PartsInv'
  <1> USE DEF Facts, PartsInv, At, Goto, control, signals, locals, acquisition,
              Held, Coming, Fits, Continues, LongAcq, Acquiring, AfterUpdate
  <1>1. ASSUME NEW r \in Requests, SetParams(r) PROVE PartsInv' BY <1>1 DEF SetParams
  <1>2. CASE GetSignals \/ Join \/ Trigger BY <1>2 DEF GetSignals, Join, Trigger
  <1>3. CASE Exit BY <1>3 DEF Exit
  <1>4. CASE ReadControl BY <1>4 DEF ReadControl
  <1>5. CASE UpdateFpga BY <1>5 DEF UpdateFpga
  <1>6. CASE Arm
    <2>1. ~fpga_update BY <1>6 DEF Arm, CaptureInv, AcquiresInv
    <2>2. fpga = curr_params.setting BY <1>6 DEF Arm, CaptureInv, AcquiresInv
    <2> QED BY <1>6, <2>1, <2>2 DEF Arm, Armed
  <1>7. CASE StartWorking BY <1>7 DEF StartWorking
  <1>8. CASE Poll \/ Check BY <1>8 DEF Poll, Check, Changed
  <1>9. CASE Process
    <2>1. acquired' = [of |-> curr_params.setting, parts |-> long_acq_idx + 1]
      BY <1>9 DEF Process
    <2>2. long_acq_idx' # 0 => LongAcq /\ long_acq_idx' = long_acq_idx + 1
      <3>1. Parts \in Nat \ {0} BY ScopeWorkerAssumption
      <3>2. (long_acq_idx + 1) % Parts \in {0, long_acq_idx + 1} BY <3>1
      <3>3. CASE LongAcq BY <1>9, <3>2, <3>3 DEF Process
      <3>4. CASE ~LongAcq
        <4>1. long_acq_idx = 0 BY <1>9, <3>4 DEF Process
        <4> QED BY <1>9, <3>4, <4>1 DEF Process
      <3> QED BY <3>3, <3>4
    <2> QED BY <1>9, <2>1, <2>2 DEF Process
  <1>10. CASE Reread \/ SingleDone BY <1>10 DEF Reread, SingleDone
  <1>11. CASE Publish BY <1>11 DEF Publish
  <1>12. CASE AutoAcquire BY <1>12 DEF AutoAcquire
  <1>13. CASE AutoPoll BY <1>13 DEF AutoPoll, AutoSearch, AutoResult
  <1>14. CASE UpdateMain BY <1>14 DEF UpdateMain
  <1> QED BY <1>1, <1>2, <1>3, <1>4, <1>5, <1>6, <1>7, <1>8, <1>9, <1>10, <1>11, <1>12, <1>13, <1>14
          DEF User, WorkerStep

(* Samples are taken of the triggered acquisition that the FPGA was armed   *)
(* for with the setting in force, and a part is the one after those already *)
(* taken of that arming (long_acq_idx in rp_osc_worker_thread), for any     *)
(* number of parts and of requests.                                         *)
THEOREM PartsCorrect == Spec => []PartsOfOneAcquisition
  <1>1. Init => PartsInv
    BY DEF Init, PartsInv, Fits, Held, Coming, Acquiring, AfterUpdate
  <1>2. ASSUME TypeOK, CaptureInv, PartsInv, [Next]_vars PROVE PartsInv'
    <2>1. Facts /\ long_acq_idx \in 0..Parts-1 BY <1>2, TypeFacts DEF TypeOK
    <2>2. CASE User \/ Join \/ Trigger \/ (WorkerStep /\ ~SettingParams(worker))
      BY <1>2, <2>1, <2>2, LoopParts
    <2>3. CASE SettingParams(web) \/ SettingParams(worker)
      BY <1>2, <2>1, <2>3, SettingParts
    <2>4. CASE UNCHANGED vars
      BY <1>2, <2>4 DEF vars, control, signals, locals, acquisition, PartsInv, Fits, Continues, LongAcq, Held, Coming
    <2> QED BY <1>2, <2>2, <2>3, <2>4 DEF Next, WebStep
  <1>3. PartsInv => PartsOfOneAcquisition
    BY DEF PartsInv, PartsOfOneAcquisition, Continues
  <1> QED BY <1>1, <1>2, <1>3, CaptureCorrect, TypeCorrect, PTL DEF Spec

-----------------------------------------------------------------------------
(* What one thread in rp_set_params does to the copies of the setting.      *)
LEMMA SettingAgrees ==
    ASSUME Facts, main \in Params, AgreeInv, NEW t \in Threads, SettingParams(t) PROVE AgreeInv'
  <1> USE DEF Facts, AgreeInv, Agree, HandsOver, At, Goto, Return, control, signals, locals, acquisition
  <1>1. CASE Enter(t) BY <1>1 DEF Enter
  <1>2. CASE ReadMode(t) BY <1>2 DEF ReadMode
  <1>3. CASE NoAutoSet(t) \/ CleanForAutoSet(t) BY <1>3 DEF NoAutoSet, CleanForAutoSet
  <1>4. CASE RequestAutoSet(t) \/ AutoWaitEnds(t) BY <1>4 DEF RequestAutoSet, AutoWaitEnds
  <1>5. CASE UpdateParams(t) BY <1>5 DEF UpdateParams
  <1>6. CASE ChangeState(t) \/ CleanSignals(t) BY <1>6 DEF ChangeState, CleanSignals
  <1>7. CASE NoSingle(t) \/ StartSingle(t) BY <1>7 DEF NoSingle, StartSingle
  <1>8. CASE SingleButton(t)
    <2>1. main'.setting = main.setting /\ main'.auto = main.auto
      BY <1>8 DEF SingleButton, Params
    <2> QED BY <1>8, <2>1 DEF SingleButton
  <1> QED BY <1>1, <1>2, <1>3, <1>4, <1>5, <1>6, <1>7, <1>8 DEF SettingParams

(* The users, the trigger and the worker's loop: only auto-set's result     *)
(* makes the copies disagree.                                               *)
LEMMA LoopAgrees ==
    ASSUME Facts, AgreeInv, User \/ Join \/ Trigger \/ (WorkerStep /\ ~SettingParams(worker))
    PROVE  AgreeInv'
  <1> USE DEF Facts, AgreeInv, Agree, HandsOver, At, Goto, control, signals, locals, acquisition
  <1>1. ASSUME NEW r \in Requests, SetParams(r) PROVE AgreeInv' BY <1>1 DEF SetParams
  <1>2. CASE GetSignals \/ Exit \/ Join \/ Trigger BY <1>2 DEF GetSignals, Exit, Join, Trigger
  <1>3. CASE ReadControl BY <1>3 DEF ReadControl
  <1>4. CASE UpdateFpga \/ Arm \/ StartWorking BY <1>4 DEF UpdateFpga, Arm, StartWorking
  <1>5. CASE Poll \/ Check \/ Process BY <1>5 DEF Poll, Check, Process
  <1>6. CASE Reread \/ SingleDone \/ Publish BY <1>6 DEF Reread, SingleDone, Publish
  <1>7. CASE AutoAcquire \/ UpdateMain BY <1>7 DEF AutoAcquire, UpdateMain
  <1>8. CASE AutoPoll BY <1>8 DEF AutoPoll, AutoSearch, AutoResult
  <1> QED BY <1>1, <1>2, <1>3, <1>4, <1>5, <1>6, <1>7, <1>8 DEF User, WorkerStep

(* When the web thread is done and the worker waits with nothing new to     *)
(* take, the main parameters, the worker's two copies and the FPGA have one *)
(* setting (rp_set_params and rp_update_main_params, each in four critical  *)
(* sections).                                                               *)
THEOREM SettledCorrect == Spec => []SettledAgrees
  <1>1. Init => AgreeInv
    BY DEF Init, AgreeInv, HandsOver
  <1>2. ASSUME TypeOK, AgreeInv, [Next]_vars PROVE AgreeInv'
    <2>1. Facts /\ main \in Params BY <1>2, TypeFacts DEF TypeOK
    <2>2. CASE User \/ Join \/ Trigger \/ (WorkerStep /\ ~SettingParams(worker))
      BY <1>2, <2>1, <2>2, LoopAgrees
    <2>3. CASE SettingParams(web) \/ SettingParams(worker)
      BY <1>2, <2>1, <2>3, SettingAgrees
    <2>4. CASE UNCHANGED vars
      BY <1>2, <2>4 DEF vars, control, signals, locals, acquisition, AgreeInv, Agree
    <2> QED BY <1>2, <2>2, <2>3, <2>4 DEF Next, WebStep
  <1>3. CaptureInv /\ AgreeInv => SettledAgrees
    BY DEF CaptureInv, AcquiresInv, Acquiring, AgreeInv, Agree, HandsOver, SettledAgrees
  <1> QED BY <1>1, <1>2, <1>3, CaptureCorrect, TypeCorrect, PTL DEF Spec

==============================================================================
