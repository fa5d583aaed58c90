--------------------------- MODULE StreamingProofs ---------------------------
(****************************************************************************)
(* Proofs about the streaming application: about its start and stop         *)
(* (StreamLifecycle), for any number of applications, requests and dropped  *)
(* buffers, and about the recording of a stream into a file (FileQueue),    *)
(* for all sizes and limits; and that the writer of the one is the thread   *)
(* of the other.                                                            *)
(****************************************************************************)
EXTENDS StreamLifecycle, FileQueue, WellFoundedInduction, TLAPS

----------------------------------------------------------------------------
(* Starting and stopping.                                                   *)
USE LifecycleAssumption

LEMMA SetFlag ==
    ASSUME NEW S, NEW f \in [S -> BOOLEAN], NEW x, NEW b \in BOOLEAN
    PROVE  [f EXCEPT ![x] = b] \in [S -> BOOLEAN]
OBVIOUS

LEMMA ThreadSets ==
    /\ web \in Threads /\ exit \in Threads /\ web # exit
    /\ web \notin Stoppers /\ exit \notin Stoppers
    /\ Apps \subseteq Stoppers /\ Stoppers \subseteq Threads
    /\ \A a \in Apps : a \in Nat /\ a > 0 /\ a <= MaxStarts
    /\ Threads = {web, exit} \cup Stoppers
    /\ \A n \in Nat : n > 0 /\ n <= MaxStarts => n \in Apps
BY DEF Threads, Stoppers, Apps, Requests, web, exit

LEMMA RequestsAreThreads ==
    \A n \in Requests : n \in Stoppers /\ n \notin Apps /\ n # web /\ n # exit /\ n \in Nat
BY DEF Threads, Stoppers, Apps, Requests, web, exit

LEMMA RequestSet == requested \in 0..MaxStops /\ requested < MaxStops => MaxStarts + requested + 1 \in Stoppers
BY DEF Stoppers, Requests

(* The types need to know which step a thread can be at.                    *)
Typed == TypeOK /\ StepsInv

LEMMA InitTyped == Init => Typed
  <1> SUFFICES ASSUME Init PROVE Typed OBVIOUS
  <1>1. TypeOK
    <2>1. /\ dropFirstNBuffer \in [Apps -> 0..DropFirst] /\ built \in 0..MaxStarts /\ requested \in 0..MaxStops
          /\ pc \in [Threads -> Steps] /\ object \in [Threads -> Apps \cup {0}]
          /\ phase \in [Threads -> {"stop", "delete"}]
      BY DEF Init, Steps, Outside
    <2>2. \A b \in BOOLEAN : [a \in Apps |-> b] \in [Apps -> BOOLEAN] OBVIOUS
    <2>3. /\ m_isRun \in [Apps -> BOOLEAN] /\ m_OscThreadRun \in [Apps -> BOOLEAN] /\ freed \in [Apps -> BOOLEAN]
          /\ local \in [Apps -> BOOLEAN] /\ notifyStop \in [Apps -> BOOLEAN]
      BY <2>2 DEF Init
    <2>4. /\ m_OscThread \in [Apps -> {"none", "runs", "joined"}]
          /\ writer \in [Apps -> {"none", "works", "failed", "stopped"}]
          /\ worker \in [Apps -> {"none", "sleep", "loop", "next", "passed", "ended"}]
      BY DEF Init
    <2>5. /\ s_app \in Apps \cup {0} /\ ss_status \in 0..2 /\ oscilloscope \in Apps \cup {0}
      BY DEF Init
    <2>6. overlapped \in BOOLEAN /\ undefined \in BOOLEAN BY DEF Init
    <2> QED BY <2>1, <2>3, <2>4, <2>5, <2>6 DEF TypeOK
  <1>2. StepsInv
     BY ThreadSets, RequestsAreThreads DEF Init, StepsInv, WebSteps, StopperSteps, Starting, InObject, Outside
  <1> QED BY <1>1, <1>2 DEF Typed

LEMMA StepType == Typed /\ [Next]_vars => TypeOK'
  <1> SUFFICES ASSUME Typed, [Next]_vars PROVE TypeOK' OBVIOUS
  <1> USE ThreadSets DEF pointer, counters, application, manager, collecting, threads, Goes, LeavesObject,
          Typed, Outside, Steps
  <1>t. TypeOK BY DEF Typed
  <1> HIDE DEF Typed
  <1>1. ASSUME NEW t \in Threads, Enter(t) PROVE TypeOK'
    BY <1>t, <1>1 DEF Enter, TypeOK
  <1>2. CASE StopRequest BY <1>t, <1>2, RequestSet DEF StopRequest, TypeOK
  <1>3. ASSUME NEW t \in Threads, Undefined(t) PROVE TypeOK'
    BY <1>t, <1>3 DEF Undefined, TypeOK
  <1>4. ASSUME NEW t \in Threads, Test(t) PROVE TypeOK'
    BY <1>t, <1>4 DEF Test, TypeOK
  <1>5. ASSUME NEW t \in Threads, Stop(t) PROVE TypeOK'
    <2>1. CASE Undefined(t) BY <1>3, <2>1
    <2>2. CASE ~Undefined(t)
      <3>1. pc' \in [Threads -> Steps] BY <1>t, <1>5, <2>2 DEF Stop, TypeOK, Return
      <3>2. m_OscThreadRun' \in [Apps -> BOOLEAN]
        <4>1. m_OscThreadRun \in [Apps -> BOOLEAN] BY <1>t DEF TypeOK
        <4>2. m_OscThreadRun' \in {m_OscThreadRun, [m_OscThreadRun EXCEPT ![object[t]] = FALSE]}
          BY <1>5, <2>2 DEF Stop
        <4> QED BY <4>1, <4>2, SetFlag
      <3> QED BY <1>t, <1>5, <2>2, <3>1, <3>2 DEF Stop, TypeOK
    <2> QED BY <2>1, <2>2
  <1>6. ASSUME NEW t \in Threads, Join(t) PROVE TypeOK'
    BY <1>t, <1>3, <1>6 DEF Join, TypeOK
  <1>7. ASSUME NEW t \in Threads, Throw(t) PROVE TypeOK'
    BY <1>t, <1>3, <1>7 DEF Throw, TypeOK
  <1>8. ASSUME NEW t \in Threads, Halt(t) PROVE TypeOK'
    <2>1. CASE Undefined(t) BY <1>3, <2>1
    <2>2. CASE ~Undefined(t)
      <3>1. /\ pc' \in [Threads -> Steps] /\ oscilloscope' = 0
            /\ writer' \in [Apps -> {"none", "works", "failed", "stopped"}]
        BY <1>t, <1>8, <2>2 DEF Halt, TypeOK, Halted, Return
      <3>2. m_isRun' \in [Apps -> BOOLEAN]
        <4>1. m_isRun \in [Apps -> BOOLEAN] /\ m_isRun' = [m_isRun EXCEPT ![object[t]] = FALSE]
          BY <1>t, <1>8, <2>2 DEF Halt, TypeOK
        <4> QED BY <4>1, SetFlag
      <3> QED BY <1>t, <1>8, <2>2, <3>1, <3>2 DEF Halt, TypeOK
    <2> QED BY <2>1, <2>2
  <1>9. ASSUME NEW t \in Threads, Reload(t) PROVE TypeOK'
    BY <1>t, <1>9 DEF Reload, TypeOK, After
  <1>10. ASSUME NEW t \in Threads, Free(t) PROVE TypeOK'
    <2>1. CASE Undefined(t) BY <1>3, <2>1
    <2>2. CASE ~Undefined(t)
      <3>1. /\ pc' \in [Threads -> Steps] /\ object' \in [Threads -> Apps \cup {0}]
            /\ phase' \in [Threads -> {"stop", "delete"}]
        BY <1>t, <1>10, <2>2 DEF Free, TypeOK, After
      <3>2. /\ freed' \in [Apps -> BOOLEAN] /\ m_isRun' \in [Apps -> BOOLEAN]
            /\ m_OscThreadRun' \in [Apps -> BOOLEAN]
            /\ local' \in [Apps -> BOOLEAN] /\ notifyStop' \in [Apps -> BOOLEAN]
        <4>1. /\ freed \in [Apps -> BOOLEAN] /\ m_isRun \in [Apps -> BOOLEAN] /\ m_OscThreadRun \in [Apps -> BOOLEAN]
              /\ local \in [Apps -> BOOLEAN] /\ notifyStop \in [Apps -> BOOLEAN]
          BY <1>t DEF TypeOK
        <4>2. /\ freed' = [freed EXCEPT ![object[t]] = TRUE] /\ m_isRun' = [m_isRun EXCEPT ![object[t]] = FALSE]
              /\ m_OscThreadRun' = [m_OscThreadRun EXCEPT ![object[t]] = TRUE]
              /\ local' = [local EXCEPT ![object[t]] = FALSE]
              /\ notifyStop' = [notifyStop EXCEPT ![object[t]] = FALSE]
          BY <1>10, <2>2 DEF Free
        <4> QED BY <4>1, <4>2, SetFlag
      <3>3. m_OscThread' \in [Apps -> {"none", "runs", "joined"}] BY <1>t, <1>10, <2>2 DEF Free, TypeOK
      <3>4. writer' \in [Apps -> {"none", "works", "failed", "stopped"}]
        BY <1>t, <1>10, <2>2 DEF Free, TypeOK, Halted
      <3> QED BY <1>t, <1>10, <2>2, <3>1, <3>2, <3>3, <3>4 DEF Free, TypeOK
    <2> QED BY <2>1, <2>2
  <1>11. ASSUME NEW t \in Threads, Clear(t) \/ Send(t) PROVE TypeOK'
    BY <1>t, <1>11 DEF Clear, Send, TypeOK
  <1>12. CASE Build
    <2>1. built < MaxStarts BY <1>12 DEF Build, Typed, StepsInv, Starting
    <2>2. built + 1 \in Apps /\ built + 1 \in 0..MaxStarts BY <1>t, <2>1 DEF TypeOK, Apps
    <2> QED BY <1>t, <1>12, <2>2 DEF Build, TypeOK
  <1>13. CASE Announce BY <1>t, <1>13 DEF Announce, TypeOK
  <1>14. CASE Run
    <2>1. CASE Undefined(web) BY <1>3, <2>1
    <2>2. CASE ~Undefined(web)
      <3>1. /\ pc' \in [Threads -> Steps] /\ object' \in [Threads -> Apps \cup {0}]
        BY <1>t, <1>14, <2>2 DEF Run, TypeOK
      <3>2. m_isRun' \in [Apps -> BOOLEAN]
        <4>1. m_isRun \in [Apps -> BOOLEAN] /\ m_isRun' = [m_isRun EXCEPT ![s_app] = TRUE]
          BY <1>t, <1>14, <2>2 DEF Run, TypeOK
        <4> QED BY <4>1, SetFlag
      <3> QED BY <1>t, <1>14, <2>2, <3>1, <3>2 DEF Run, TypeOK
    <2> QED BY <2>1, <2>2
  <1>15. CASE Open
    <2>1. CASE Undefined(web) BY <1>3, <2>1
    <2>2. CASE ~Undefined(web)
      <3>1. /\ pc' \in [Threads -> Steps] /\ object' \in [Threads -> Apps \cup {0}]
            /\ phase' \in [Threads -> {"stop", "delete"}]
        BY <1>t, <1>15, <2>2 DEF Open, TypeOK
      <3>2. writer' \in [Apps -> {"none", "works", "failed", "stopped"}] BY <1>t, <1>15, <2>2 DEF Open, TypeOK
      <3> QED BY <1>t, <1>15, <2>2, <3>1, <3>2 DEF Open, TypeOK
    <2> QED BY <2>1, <2>2
  <1>16. CASE Launch
    <2>1. CASE Undefined(web) BY <1>3, <2>1
    <2>2. CASE ~Undefined(web)
      <3>1. /\ pc' \in [Threads -> Steps] /\ object' \in [Threads -> Apps \cup {0}]
            /\ phase' \in [Threads -> {"stop", "delete"}]
        BY <1>t, <1>16, <2>2 DEF Launch, TypeOK
      <3>2. m_OscThread' \in [Apps -> {"none", "runs", "joined"}] BY <1>t, <1>16, <2>2 DEF Launch, TypeOK
      <3>3. worker' \in [Apps -> {"none", "sleep", "loop", "next", "passed", "ended"}]
        BY <1>t, <1>16, <2>2 DEF Launch, TypeOK
      <3> QED BY <1>t, <1>16, <2>2, <3>1, <3>2, <3>3 DEF Launch, TypeOK
    <2> QED BY <2>1, <2>2
  <1>17. ASSUME NEW a \in Apps, oscWorker(a) PROVE TypeOK'
    <2>1. CASE Prepare(a) BY <1>t, <2>1 DEF Prepare, TypeOK
    <2>2. CASE Loop(a) BY <1>t, <2>2 DEF Loop, TypeOK
    <2>3. CASE NextBuffer(a)
      <3>1. dropFirstNBuffer' \in [Apps -> 0..DropFirst]
        <4>1. dropFirstNBuffer \in [Apps -> 0..DropFirst] BY <1>t DEF TypeOK
        <4>2. dropFirstNBuffer' = dropFirstNBuffer \/
              (/\ dropFirstNBuffer[a] > 0
               /\ dropFirstNBuffer' = [dropFirstNBuffer EXCEPT ![a] = dropFirstNBuffer[a] - 1])
          BY <2>3 DEF NextBuffer
        <4>3. dropFirstNBuffer[a] > 0 => dropFirstNBuffer[a] - 1 \in 0..DropFirst BY <4>1
        <4> QED BY <4>1, <4>2, <4>3
      <3>2. worker' \in [Apps -> {"none", "sleep", "loop", "next", "passed", "ended"}]
        BY <1>t, <2>3 DEF NextBuffer, TypeOK
      <3> QED BY <1>t, <2>3, <3>1, <3>2 DEF NextBuffer, TypeOK
    <2>4. CASE Check(a) BY <1>t, <2>4 DEF Check, TypeOK
    <2>5. CASE Orphan(a) BY <1>3, <2>5 DEF Orphan
    <2> QED BY <1>17, <2>1, <2>2, <2>3, <2>4, <2>5 DEF oscWorker
  <1>18. ASSUME NEW a \in Apps, WriterFails(a) PROVE TypeOK'
    BY <1>t, <1>18 DEF WriterFails, TypeOK
  <1>19. CASE UNCHANGED vars BY <1>t, <1>19 DEF vars, TypeOK
  <1>20. ASSUME NEW t \in Threads, StopServer(t) PROVE TypeOK'
    BY <1>20, <1>4, <1>5, <1>6, <1>7, <1>8, <1>9, <1>10, <1>11 DEF StopServer
  <1>21. CASE Request
    BY <1>21, <1>1, <1>2 DEF Request, StartRequest, ExitRequest
  <1>22. ASSUME NEW t \in Stoppers, Begin(t) PROVE TypeOK'
    BY <1>22, <1>1 DEF Begin
  <1> QED BY <1>12, <1>13, <1>14, <1>15, <1>16, <1>17, <1>18, <1>19, <1>20, <1>21, <1>22
          DEF Next, StartServer

LEMMA StepSteps == Typed /\ [Next]_vars => StepsInv'
  <1> SUFFICES ASSUME Typed, [Next]_vars PROVE StepsInv' OBVIOUS
  <1> USE ThreadSets, RequestsAreThreads
      DEF pointer, counters, application, manager, collecting, threads, Goes, LeavesObject, Outside,
          WebSteps, StopperSteps, Starting, InObject, StepsInv
  <1>t. /\ s_app \in Apps \cup {0} /\ built \in 0..MaxStarts /\ pc \in [Threads -> Steps]
        /\ object \in [Threads -> Apps \cup {0}] /\ requested \in 0..MaxStops
    BY DEF Typed, TypeOK
  <1>s. StepsInv BY DEF Typed
  <1>n. \A a \in Apps : a \in 1..built <=> a <= built BY <1>t
  <1>1. ASSUME NEW t \in Threads, Enter(t), pc[t] \notin Starting,
               t \in Stoppers => pc[t] # "idle", t = web => built < MaxStarts
        PROVE  StepsInv'
    BY <1>t, <1>s, <1>1 DEF Enter
  <1>2. CASE StopRequest BY <1>t, <1>s, <1>2, RequestSet DEF StopRequest, Typed, TypeOK
  <1>3. ASSUME NEW t \in Threads, Undefined(t) PROVE StepsInv'
    BY <1>t, <1>s, <1>3 DEF Undefined
  <1>4. ASSUME NEW t \in Threads, Test(t) PROVE StepsInv'
    BY <1>t, <1>s, <1>4 DEF Test
  <1>5. ASSUME NEW t \in Threads, Stop(t) PROVE StepsInv'
    BY <1>t, <1>s, <1>3, <1>5 DEF Stop, Return
  <1>6. ASSUME NEW t \in Threads, Join(t) PROVE StepsInv'
    BY <1>t, <1>s, <1>3, <1>6 DEF Join
  <1>7. ASSUME NEW t \in Threads, Throw(t) PROVE StepsInv'
    BY <1>t, <1>s, <1>3, <1>7 DEF Throw, NotJoinable
  <1>8. ASSUME NEW t \in Threads, Halt(t) PROVE StepsInv'
    BY <1>t, <1>s, <1>3, <1>8 DEF Halt, Return
  <1>9. ASSUME NEW t \in Threads, Reload(t) PROVE StepsInv'
    BY <1>t, <1>s, <1>9 DEF Reload, After
  <1>10. ASSUME NEW t \in Threads, Free(t) PROVE StepsInv'
    BY <1>t, <1>s, <1>3, <1>10 DEF Free, After
  <1>11. ASSUME NEW t \in Threads, t # web, Clear(t) \/ Send(t) PROVE StepsInv'
    BY <1>t, <1>s, <1>11 DEF Clear, Send
  <1>12. CASE Build
    BY <1>t, <1>s, <1>12 DEF Build
  <1>13. CASE Announce BY <1>t, <1>s, <1>13 DEF Announce
  <1>14. CASE Run BY <1>t, <1>s, <1>3, <1>14 DEF Run
  <1>15. CASE Open BY <1>t, <1>s, <1>3, <1>15 DEF Open
  <1>16. CASE Launch BY <1>t, <1>s, <1>3, <1>16 DEF Launch
  <1>17. ASSUME NEW a \in Apps, oscWorker(a) PROVE StepsInv'
    <2>1. CASE Orphan(a) BY <1>3, <2>1 DEF Orphan
    <2>2. CASE Prepare(a) \/ Loop(a) \/ NextBuffer(a)
      BY <1>t, <1>s, <2>2 DEF Prepare, Loop, NextBuffer
    <2>3. CASE Check(a) BY <1>t, <1>s, <2>3 DEF Check
    <2> QED BY <1>17, <2>1, <2>2, <2>3 DEF oscWorker
  <1>18. ASSUME NEW a \in Apps, WriterFails(a) PROVE StepsInv'
    BY <1>t, <1>s, <1>18 DEF WriterFails
  <1>19. CASE UNCHANGED vars BY <1>t, <1>s, <1>19 DEF vars
  <1>20. ASSUME NEW t \in Threads, StopServer(t) PROVE StepsInv'
    BY <1>20, <1>4, <1>5, <1>6, <1>7, <1>8, <1>9, <1>10, <1>11 DEF StopServer
  <1>21. CASE Request
    BY <1>21, <1>1, <1>2 DEF Request, StartRequest, ExitRequest
  <1>22. ASSUME NEW t \in Stoppers, Begin(t) PROVE StepsInv'
    BY <1>22, <1>1 DEF Begin
  <1> QED BY <1>12, <1>13, <1>14, <1>15, <1>16, <1>17, <1>18, <1>19, <1>20, <1>21, <1>22
          DEF Next, StartServer

----------------------------------------------------------------------------
(* An application asks for a stop only while it knows a file's writer that  *)
(* was started, and it was: Open comes before Launch.                       *)
ReasonFacts == Typed /\ ReasonInv /\ StopHasReason

LEMMA InitReason == Init => ReasonInv /\ StopHasReason
BY ThreadSets DEF Init, ReasonInv, StopHasReason, Unborn, Starting

LEMMA StepReason == ReasonFacts /\ [Next]_vars => ReasonInv' /\ StopHasReason'
  <1> SUFFICES ASSUME ReasonFacts, [Next]_vars PROVE ReasonInv' /\ StopHasReason' OBVIOUS
  <1> USE ThreadSets DEF pointer, counters, application, manager, collecting, threads, Goes, LeavesObject,
          Starting, ReasonInv, StopHasReason, Unborn
  <1>t. /\ s_app \in Apps \cup {0} /\ built \in 0..MaxStarts
        /\ m_isRun \in [Apps -> BOOLEAN] /\ m_OscThread \in [Apps -> {"none", "runs", "joined"}]
        /\ freed \in [Apps -> BOOLEAN] /\ local \in [Apps -> BOOLEAN] /\ notifyStop \in [Apps -> BOOLEAN]
        /\ writer \in [Apps -> {"none", "works", "failed", "stopped"}]
        /\ worker \in [Apps -> {"none", "sleep", "loop", "next", "passed", "ended"}]
        /\ pc \in [Threads -> Steps] /\ object \in [Threads -> Apps \cup {0}]
    BY DEF ReasonFacts, Typed, TypeOK
  <1>s. /\ s_app \in {0, built}
        /\ \A t \in Threads : pc[t] \in Starting => t = web
        /\ pc[web] \in {"open", "thread"} => object[web] = built
        /\ \A t \in Threads : pc[t] \in InObject => object[t] \in Apps /\ object[t] <= built
    <2>1. StepsInv BY DEF ReasonFacts, Typed
    <2>2. \A t \in Threads : pc[t] \in Starting => t = web BY <2>1 DEF StepsInv, StopperSteps, Outside
    <2>3. ASSUME NEW t \in Threads, pc[t] \in InObject PROVE object[t] \in Apps /\ object[t] <= built
      <3>1. object[t] \in 1..built BY <2>1, <2>3 DEF StepsInv
      <3> QED BY <1>t, <3>1 DEF Apps
    <2> QED BY <2>1, <2>2, <2>3 DEF StepsInv
  <1>r. ReasonInv /\ StopHasReason BY DEF ReasonFacts
  <1>1. ASSUME NEW t \in Threads, Enter(t), pc[t] \in {"idle", "waiting"}, pc[t] = "idle" => t \notin Apps
        PROVE ReasonInv' /\ StopHasReason'
    BY <1>t, <1>s, <1>r, <1>1 DEF Enter
  <1>2. CASE StopRequest
    <2>1. MaxStarts + requested + 1 \notin Apps /\ MaxStarts + requested + 1 # web
      BY DEF ReasonFacts, Typed, TypeOK, Apps, web
    <2> QED BY <1>t, <1>s, <1>r, <1>2, <2>1 DEF StopRequest
  <1>3. ASSUME NEW t \in Threads, Undefined(t) PROVE ReasonInv' /\ StopHasReason'
    BY <1>t, <1>s, <1>r, <1>3 DEF Undefined
  <1>4. ASSUME NEW t \in Threads, Test(t) PROVE ReasonInv' /\ StopHasReason'
    BY <1>t, <1>s, <1>r, <1>4 DEF Test
  <1>5. ASSUME NEW t \in Threads, Stop(t) PROVE ReasonInv' /\ StopHasReason'
    BY <1>t, <1>s, <1>r, <1>3, <1>5 DEF Stop, Return
  <1>6. ASSUME NEW t \in Threads, Join(t) PROVE ReasonInv' /\ StopHasReason'
    BY <1>t, <1>s, <1>r, <1>3, <1>6 DEF Join, InObject
  <1>7. ASSUME NEW t \in Threads, Throw(t) PROVE ReasonInv' /\ StopHasReason'
    BY <1>t, <1>s, <1>r, <1>3, <1>7 DEF Throw, NotJoinable
  <1>8. ASSUME NEW t \in Threads, Halt(t) PROVE ReasonInv' /\ StopHasReason'
    BY <1>t, <1>s, <1>r, <1>3, <1>8 DEF Halt, Halted, Return, InObject
  <1>9. ASSUME NEW t \in Threads, Reload(t) PROVE ReasonInv' /\ StopHasReason'
    BY <1>t, <1>s, <1>r, <1>9 DEF Reload, After
  <1>10. ASSUME NEW t \in Threads, Free(t) PROVE ReasonInv' /\ StopHasReason'
    BY <1>t, <1>s, <1>r, <1>3, <1>10 DEF Free, Halted, After, InObject
  <1>11. ASSUME NEW t \in Threads, Clear(t) \/ Send(t) PROVE ReasonInv' /\ StopHasReason'
    BY <1>t, <1>s, <1>r, <1>11 DEF Clear, Send
  <1>12. CASE Build BY <1>t, <1>s, <1>r, <1>12 DEF Build
  <1>13. CASE Announce BY <1>t, <1>s, <1>r, <1>13 DEF Announce
  <1>14. CASE Run BY <1>t, <1>s, <1>r, <1>3, <1>14 DEF Run
  <1>15. CASE Open BY <1>t, <1>s, <1>r, <1>3, <1>15 DEF Open
  <1>16. CASE Launch BY <1>t, <1>s, <1>r, <1>3, <1>16 DEF Launch, InObject
  <1>17. ASSUME NEW a \in Apps, oscWorker(a) PROVE ReasonInv' /\ StopHasReason'
    <2>1. CASE Orphan(a) BY <1>3, <2>1 DEF Orphan
    <2>2. CASE Prepare(a) \/ Loop(a) \/ NextBuffer(a)
      BY <1>t, <1>s, <1>r, <2>2 DEF Prepare, Loop, NextBuffer
    <2>3. CASE Check(a) BY <1>t, <1>s, <1>r, <2>3 DEF Check, isFileThreadWork
    <2> QED BY <1>17, <2>1, <2>2, <2>3 DEF oscWorker
  <1>18. ASSUME NEW a \in Apps, WriterFails(a) PROVE ReasonInv' /\ StopHasReason'
    BY <1>t, <1>s, <1>r, <1>18 DEF WriterFails
  <1>19. CASE UNCHANGED vars BY <1>t, <1>s, <1>r, <1>19 DEF vars
  <1>20. ASSUME NEW t \in Threads, StopServer(t) PROVE ReasonInv' /\ StopHasReason'
    BY <1>20, <1>4, <1>5, <1>6, <1>7, <1>8, <1>9, <1>10, <1>11 DEF StopServer
  <1>21. CASE Request
    BY <1>21, <1>1, <1>2 DEF Request, StartRequest, ExitRequest
  <1>22. ASSUME NEW t \in Stoppers, Begin(t) PROVE ReasonInv' /\ StopHasReason'
    BY <1>22, <1>1 DEF Begin
  <1> QED BY <1>12, <1>13, <1>14, <1>15, <1>16, <1>17, <1>18, <1>19, <1>20, <1>21, <1>22
          DEF Next, StartServer

----------------------------------------------------------------------------
(* As long as no start or stop overlapped another one, all is in order.     *)
LifecycleInv == Typed /\ ReasonInv /\ StopHasReason /\ AloneInv

LEMMA InitAlone == Init => AloneInv
BY ThreadSets DEF Init, AloneInv, Orderly, Alone, There, Inside, Running, Outside, InObject, Starting

LEMMA OverlapStays == [Next]_vars /\ overlapped => overlapped'
  <1> SUFFICES ASSUME [Next]_vars, overlapped PROVE overlapped' OBVIOUS
  <1> USE DEF Goes, Undefined
  <1>1. \A t \in Threads : Enter(t) => overlapped' BY DEF Enter
  <1>2. \A t \in Threads : Test(t) \/ Stop(t) \/ Join(t) \/ Throw(t) => overlapped'
    BY DEF Test, Stop, Join, Throw
  <1>3. \A t \in Threads : Halt(t) \/ Reload(t) \/ Free(t) \/ Clear(t) \/ Send(t) => overlapped'
    BY DEF Halt, Reload, Free, Clear, Send
  <1>4. Build \/ Announce \/ Run \/ Open \/ Launch => overlapped'
    BY DEF Build, Announce, Run, Open, Launch
  <1>5. \A a \in Apps : oscWorker(a) \/ WriterFails(a) => overlapped'
    BY DEF oscWorker, Prepare, Loop, NextBuffer, Check, Orphan, WriterFails
  <1>6. \A t \in Threads : StopServer(t) => overlapped' BY <1>2, <1>3 DEF StopServer
  <1>7. Request \/ (\E t \in Stoppers : Begin(t)) => overlapped'
    BY <1>1, ThreadSets DEF Request, StartRequest, ExitRequest, StopRequest, Begin
  <1>8. UNCHANGED vars => overlapped' BY DEF vars
  <1> QED BY <1>4, <1>5, <1>6, <1>7, <1>8, ThreadSets DEF Next, StartServer

LEMMA StepAlone == LifecycleInv /\ [Next]_vars => AloneInv'
  <1> SUFFICES ASSUME LifecycleInv, [Next]_vars, ~overlapped' PROVE Orderly' BY DEF AloneInv
  <1> USE ThreadSets DEF pointer, counters, application, manager, collecting, threads, Goes, LeavesObject,
          Starting, InObject, Outside
  <1>t. /\ s_app \in Apps \cup {0} /\ built \in 0..MaxStarts
        /\ m_isRun \in [Apps -> BOOLEAN] /\ m_OscThread \in [Apps -> {"none", "runs", "joined"}]
        /\ freed \in [Apps -> BOOLEAN] /\ local \in [Apps -> BOOLEAN]
        /\ writer \in [Apps -> {"none", "works", "failed", "stopped"}]
        /\ worker \in [Apps -> {"none", "sleep", "loop", "next", "passed", "ended"}]
        /\ oscilloscope \in Apps \cup {0}
        /\ pc \in [Threads -> Steps] /\ object \in [Threads -> Apps \cup {0}]
        /\ phase \in [Threads -> {"stop", "delete"}]
    BY DEF LifecycleInv, Typed, TypeOK
  <1>s. /\ s_app \in {0, built}
        /\ \A t \in Threads : pc[t] \in Starting \cup {"build"} => t = web
        /\ pc[web] \notin {"waiting", "done", "clear", "send"}
        /\ pc[web] \in {"open", "thread"} => object[web] = built
    BY DEF LifecycleInv, Typed, StepsInv, StopperSteps, WebSteps
  <1>b. /\ pc[web] = "build" => built + 1 \in Apps
        /\ pc[web] \in Starting => m_OscThread[built] = "none" /\ built \in Apps
        /\ \A a \in Apps : a > built => ~m_isRun[a] /\ ~freed[a] /\ writer[a] = "none" /\ worker[a] = "none"
                                    /\ m_OscThread[a] = "none"
    <2>1. pc[web] = "build" => built < MaxStarts BY DEF LifecycleInv, Typed, StepsInv
    <2>2. pc[web] \in Starting => built > 0 BY DEF LifecycleInv, Typed, StepsInv
    <2> QED BY <1>t, <2>1, <2>2 DEF LifecycleInv, ReasonInv, Unborn
  <1>a. Orderly
    <2>1. ~overlapped
      <3>1. overlapped => overlapped' BY OverlapStays
      <3> QED BY <3>1
    <2> QED BY <2>1 DEF LifecycleInv, AloneInv
  <1> USE DEF Orderly, Alone, There, Inside, Running, Undefined
  <1>1. ASSUME NEW t \in Threads, pc[t] \in {"idle", "waiting"}, Enter(t) PROVE Orderly'
    <2>1. ~\E u \in Threads \ {t} : pc[u] \notin Outside BY <1>1 DEF Enter
    <2>2. /\ pc' = [pc EXCEPT ![t] = "test"]
          /\ UNCHANGED <<pointer, application, manager, collecting, oscilloscope, object, phase, undefined>>
      BY <1>1 DEF Enter
    <2>3. ~undefined' /\ Alone' BY <1>t, <1>a, <2>1, <2>2
    <2> QED BY <1>t, <1>s, <1>b, <1>a, <1>1, <2>2, <2>3
  <1>2. ASSUME StopRequest PROVE Orderly'
    <2>1. PICK u \in Stoppers : u = MaxStarts + requested + 1
      <3>1. requested \in 0..MaxStops BY DEF LifecycleInv, Typed, TypeOK
      <3> QED BY <1>2, <3>1, RequestSet DEF StopRequest
    <2>2. pc[u] \in Outside
      <3>1. requested < MaxStops /\ requested \in 0..MaxStops BY <1>2 DEF StopRequest, LifecycleInv, Typed, TypeOK
      <3>2. u \in Requests BY <2>1, <3>1 DEF Requests
      <3>3. u > MaxStarts + requested BY <2>1, <3>1
      <3> QED BY <3>2, <3>3 DEF LifecycleInv, Typed, StepsInv
    <2> QED BY <1>t, <1>s, <1>b, <1>a, <1>2, <2>1, <2>2 DEF StopRequest
  <1>3. ASSUME NEW t \in Threads, Test(t) PROVE Orderly'
    BY <1>t, <1>s, <1>b, <1>a, <1>3 DEF Test
  <1>4. ASSUME NEW t \in Threads, Stop(t) PROVE Orderly'
    BY <1>t, <1>s, <1>b, <1>a, <1>4 DEF Stop, Return
  <1>5. ASSUME NEW t \in Threads, Join(t) PROVE Orderly'
    BY <1>t, <1>s, <1>b, <1>a, <1>5 DEF Join
  <1>6. ASSUME NEW t \in Threads, Throw(t) PROVE Orderly'
    BY <1>t, <1>s, <1>b, <1>a, <1>6 DEF Throw, NotJoinable
  <1>7. ASSUME NEW t \in Threads, Halt(t) PROVE Orderly'
    BY <1>t, <1>s, <1>b, <1>a, <1>7 DEF Halt, Halted, Return
  <1>8. ASSUME NEW t \in Threads, Reload(t) PROVE Orderly'
    BY <1>t, <1>s, <1>b, <1>a, <1>8 DEF Reload, After
  <1>9. ASSUME NEW t \in Threads, Free(t) PROVE Orderly'
    BY <1>t, <1>s, <1>b, <1>a, <1>9 DEF Free, Halted, After
  <1>10. ASSUME NEW t \in Threads, t # web, Clear(t) PROVE Orderly'
    BY <1>t, <1>s, <1>b, <1>a, <1>10 DEF Clear
  <1>11. ASSUME NEW t \in Threads, Send(t) PROVE Orderly'
    BY <1>t, <1>s, <1>b, <1>a, <1>11 DEF Send
  <1>12. ASSUME Build PROVE Orderly'
    BY <1>t, <1>s, <1>b, <1>a, <1>12 DEF Build
  <1>13. ASSUME Announce PROVE Orderly'
    BY <1>t, <1>s, <1>b, <1>a, <1>13 DEF Announce
  <1>14. ASSUME Run PROVE Orderly'
    BY <1>t, <1>s, <1>b, <1>a, <1>14 DEF Run
  <1>15. ASSUME Open PROVE Orderly'
    BY <1>t, <1>s, <1>b, <1>a, <1>15 DEF Open
  <1>16. ASSUME Launch PROVE Orderly'
    BY <1>t, <1>s, <1>b, <1>a, <1>16 DEF Launch
  <1>17. ASSUME NEW a \in Apps, Prepare(a) PROVE Orderly'
    BY <1>t, <1>s, <1>b, <1>a, <1>17 DEF Prepare
  <1>18. ASSUME NEW a \in Apps, Loop(a) PROVE Orderly'
    BY <1>t, <1>s, <1>b, <1>a, <1>18 DEF Loop
  <1>19. ASSUME NEW a \in Apps, NextBuffer(a) PROVE Orderly'
    BY <1>t, <1>s, <1>b, <1>a, <1>19 DEF NextBuffer
  <1>20. ASSUME NEW a \in Apps, Check(a) PROVE Orderly'
    BY <1>t, <1>s, <1>b, <1>a, <1>20 DEF Check
  <1>21. ASSUME NEW a \in Apps, Orphan(a) PROVE Orderly'
    BY <1>t, <1>s, <1>b, <1>a, <1>21 DEF Orphan
  <1>22. ASSUME NEW a \in Apps, WriterFails(a) PROVE Orderly'
    BY <1>t, <1>s, <1>b, <1>a, <1>22 DEF WriterFails
  <1>23. ASSUME UNCHANGED vars PROVE Orderly'
    BY <1>t, <1>s, <1>b, <1>a, <1>23 DEF vars
  <1>24. ASSUME NEW t \in Threads, StopServer(t) PROVE Orderly'
    BY <1>24, <1>3, <1>4, <1>5, <1>6, <1>7, <1>8, <1>9, <1>10, <1>11 DEF StopServer
  <1>25. ASSUME Request \/ \E t \in Stoppers : Begin(t) PROVE Orderly'
    BY <1>25, <1>1, <1>2 DEF Request, StartRequest, ExitRequest, Begin
  <1>26. ASSUME StartServer PROVE Orderly'
    BY <1>26, <1>12, <1>13, <1>14, <1>15, <1>16, <1>24 DEF StartServer
  <1>27. ASSUME NEW a \in Apps, oscWorker(a) PROVE Orderly'
    BY <1>27, <1>17, <1>18, <1>19, <1>20, <1>21 DEF oscWorker
  <1> QED BY <1>22, <1>23, <1>24, <1>25, <1>26, <1>27 DEF Next

LEMMA StepLifecycle == LifecycleInv /\ [Next]_vars => LifecycleInv'
  <1>1. LifecycleInv /\ [Next]_vars => Typed' BY StepType, StepSteps DEF LifecycleInv, Typed
  <1>2. LifecycleInv /\ [Next]_vars => ReasonInv' /\ StopHasReason'
    BY StepReason DEF LifecycleInv, ReasonFacts
  <1> QED BY <1>1, <1>2, StepAlone DEF LifecycleInv

----------------------------------------------------------------------------
(* What holds of every state: the steps threads are at, why a stop was      *)
(* asked for, and what a start or a stop that is alone may rely on.         *)
THEOREM LifecycleInvariant == Spec => []LifecycleInv
  <1>1. Init => LifecycleInv BY InitTyped, InitReason, InitAlone DEF LifecycleInv
  <1> QED BY <1>1, StepLifecycle, PTL DEF Spec

(* Every variable has its type: no thread, application or step appears that *)
(* there is not, however often it is started and stopped.                   *)
THEOREM TypeCorrect == Spec => []TypeOK
  <1>1. LifecycleInv => TypeOK BY DEF LifecycleInv, Typed
  <1> QED BY <1>1, LifecycleInvariant, PTL

(* No application is used after it was deleted, deleted or joined twice, as *)
(* long as no start or stop overlaps another (StartServer, StopServer).     *)
THEOREM DefinedCorrect == Spec => []DefinedAlone
  <1>1. LifecycleInv => DefinedAlone BY DEF LifecycleInv, AloneInv, Orderly, DefinedAlone
  <1> QED BY <1>1, LifecycleInvariant, PTL

(* Only a writer that failed, or was stopped since, makes its application   *)
(* ask for a stop, even if starts and stops overlap (oscWorker).            *)
THEOREM ReasonCorrect == Spec => []StopHasReason
  <1>1. LifecycleInv => StopHasReason BY DEF LifecycleInv
  <1> QED BY <1>1, LifecycleInvariant, PTL

(* StopServer returns with the message, or by an exception.                 *)
LEMMA ReturnsBySend ==
    ASSUME LifecycleInv, Next, NEW t \in Stoppers, pc[t] # "done", pc'[t] = "done"
    PROVE  Send(t) \/ (Throw(t) /\ ~Undefined(t))
  <1> USE ThreadSets DEF threads, Goes, After, Return
  <1>t. pc \in [Threads -> Steps] /\ requested \in 0..MaxStops BY DEF LifecycleInv, Typed, TypeOK
  <1>u. \A u \in Threads : ~Undefined(u) BY DEF Undefined
  <1>1. ~StopRequest BY <1>t, RequestSet DEF StopRequest
  <1>2. ~StartRequest /\ ~ExitRequest /\ \A u \in Stoppers : ~Begin(u)
    BY <1>t DEF StartRequest, ExitRequest, Begin, Enter
  <1>3. \A u \in Threads : ~(Test(u) \/ Stop(u) \/ Join(u) \/ Halt(u) \/ Reload(u) \/ Free(u) \/ Clear(u))
    BY <1>t, <1>u DEF Test, Stop, Join, Halt, Reload, Free, Clear
  <1>4. ~(Build \/ Announce \/ Run \/ Open \/ Launch)
    BY <1>t, <1>u DEF Build, Announce, Run, Open, Launch
  <1>5. \A a \in Apps : ~oscWorker(a) /\ ~WriterFails(a)
    BY <1>t, <1>u DEF oscWorker, Prepare, Loop, NextBuffer, Check, Orphan, WriterFails
  <1>6. PICK u \in Threads : (Throw(u) /\ ~Undefined(u)) \/ Send(u)
    BY <1>u, <1>1, <1>2, <1>3, <1>4, <1>5 DEF Next, Request, StartServer, StopServer
  <1>7. u = t BY <1>t, <1>6 DEF Throw, Send
  <1> QED BY <1>6, <1>7

(* A stop that returns and was alone left nothing running: no application,  *)
(* no acquisition, no thread and no writer (StopServer, stop).              *)
THEOREM StopCorrect == Spec => StopStops
  <1> DEFINE Returns(t) == t \in Stoppers /\ pc[t] # "done" /\ pc'[t] = "done" /\ ~overlapped' /\ ~FailedStart
             Quiet == /\ s_app' = 0 /\ oscilloscope' = 0
                      /\ \A a \in Apps : worker'[a] \in {"none", "ended"} /\ writer'[a] \notin {"works", "failed"}
  <1>1. ASSUME LifecycleInv, LifecycleInv', [Next]_vars, NEW t, Returns(t) PROVE Quiet
    <2>1. Next BY <1>1 DEF vars, threads
    <2>2. Send(t) \/ (Throw(t) /\ ~Undefined(t)) BY <1>1, <2>1, ReturnsBySend
    <2>3. Orderly' BY <1>1 DEF LifecycleInv, AloneInv
    <2>4. Orderly
      <3>1. overlapped' = overlapped BY <2>2 DEF Send, Throw, Goes
      <3> QED BY <1>1, <3>1 DEF LifecycleInv, AloneInv
    <2>5. CASE Send(t)
      <3>1. s_app' = 0 BY <1>1, <2>4, <2>5, ThreadSets DEF Send, Orderly, Inside
      <3>2. \A a \in Apps : a # 0 BY ThreadSets
      <3>3. oscilloscope' \in Apps \cup {0} BY <1>1 DEF LifecycleInv, Typed, TypeOK
      <3>4. \A a \in Apps : ~m_isRun'[a] /\ oscilloscope' # a BY <2>3, <3>1, <3>2 DEF Orderly, Running
      <3>5. \A a \in Apps : m_OscThread'[a] # "runs" /\ writer'[a] \notin {"works", "failed"}
        BY <2>3, <3>4 DEF Orderly, Running
      <3> QED BY <2>3, <3>1, <3>3, <3>4, <3>5 DEF Orderly, Running
    <2>6. CASE Throw(t) /\ ~Undefined(t)
      <3>1. pc[t] = "join" /\ object[t] = s_app /\ m_OscThread[s_app] # "runs"
        BY <1>1, <2>4, <2>6, ThreadSets DEF Throw, NotJoinable, Orderly, Inside, InObject
      <3>2. There /\ m_isRun[s_app] BY <1>1, <2>4, <3>1, ThreadSets DEF Orderly, Inside, InObject
      <3>3. s_app \in Apps BY <1>1, <3>2 DEF LifecycleInv, Typed, TypeOK, There
      <3>4. pc[web] \in Outside BY <1>1, <2>4, <3>1, ThreadSets DEF Orderly, Alone, Outside
      <3>5. pc[web] = "idle" BY <1>1, <3>4 DEF LifecycleInv, Typed, StepsInv, WebSteps, Outside
      <3>6. \A u \in Threads : pc[u] # "halt" BY <1>1, <2>4, <3>1, ThreadSets DEF Orderly, Alone, Outside
      <3>7. m_OscThread[s_app] # "joined" BY <2>4, <3>2, <3>3, <3>6 DEF Orderly, Running
      <3>8. m_OscThread[s_app] = "none" BY <1>1, <3>1, <3>3, <3>7 DEF LifecycleInv, Typed, TypeOK
      <3> QED BY <1>1, <3>2, <3>3, <3>5, <3>8 DEF FailedStart
    <2> QED BY <2>2, <2>5, <2>6
  <1>2. LifecycleInv /\ LifecycleInv' /\ [Next]_vars =>
            (\A t \in Stoppers : pc[t] # "done" /\ pc'[t] = "done" /\ ~overlapped' /\ ~FailedStart => Quiet)
    BY <1>1
  <1> QED BY <1>2, LifecycleInvariant, PTL DEF Spec, StopStops

----------------------------------------------------------------------------
(* The recording.                                                           *)
USE FileQueueAssumption

LEMMA LengthIsNat ==
    \A b \in Buffers : Length(b) \in Nat
BY DEF Buffers, Length

LEMMA InitFileType == FileInit => FileTypeOK
  <1> SUFFICES ASSUME FileInit PROVE FileTypeOK OBVIOUS
  <1>1. NoBuffer \in Buffers BY DEF NoBuffer, Buffers
  <1>2. m_freeSize \in Nat /\ m_aviablePhyMemory \in Nat BY DEF FileInit
  <1>3. header \in 0..SizeLimit-1 /\ count \in 0..MaxBuffers BY DEF FileInit
  <1>4. m_queue \in Seq(Buffers) /\ file \in Seq(Buffers) /\ accepted \in Seq(Buffers)
    BY DEF FileInit
  <1>5. brought \in Buffers /\ item \in Buffers BY <1>1 DEF FileInit
  <1>6. m_useMemory \in Int /\ m_hasWriteSize \in Nat BY DEF FileInit
  <1>7. task \in WriterSteps /\ producer \in {"ready", "add", "push"}
        /\ stopper \in {"waits", "join", "stopped"} BY DEF FileInit, WriterSteps
  <1>8. m_fileType \in {"WAV", "TDMS"} /\ fs \in {"good", "failed"} /\ m_headerInit \in BOOLEAN
        /\ m_ThreadRun \in BOOLEAN /\ m_threadWork \in BOOLEAN /\ m_hasErrorWrite \in BOOLEAN
        /\ m_firstSectionWrite \in BOOLEAN BY DEF FileInit
  <1> QED BY <1>2, <1>3, <1>4, <1>5, <1>6, <1>7, <1>8 DEF FileTypeOK

LEMMA ProducerType == FileTypeOK /\ Producer => FileTypeOK'
  <1> SUFFICES ASSUME FileTypeOK, Producer PROVE FileTypeOK' OBVIOUS
  <1> USE DEF opened, queue, writing
  <1>1. CASE Bring
    <2>1. PICK size \in Sizes :
              brought' = [number |-> count + 1, size |-> size,
                          header |-> m_fileType = "WAV" /\ m_headerInit]
      BY <1>1 DEF Bring
    <2>2. brought' \in Buffers BY <2>1 DEF Buffers, FileTypeOK
    <2>3. m_headerInit' \in BOOLEAN /\ count' \in 0..MaxBuffers BY <1>1 DEF Bring, FileTypeOK
    <2> QED BY <1>1, <2>2, <2>3 DEF Bring, FileTypeOK
  <1>2. CASE Accept \/ Refuse
    <2>1. /\ producer' \in {"ready", "push"}
          /\ UNCHANGED <<brought, m_headerInit, count, accepted, opened, queue, writing,
                         m_ThreadRun, stopper>>
      BY <1>2 DEF Accept, Refuse
    <2> QED BY <2>1 DEF FileTypeOK
  <1>3. CASE Push
    <2>1. m_queue' \in Seq(Buffers) /\ accepted' \in Seq(Buffers) BY <1>3 DEF Push, FileTypeOK
    <2>2. m_useMemory' \in Int BY <1>3, LengthIsNat DEF Push, FileTypeOK
    <2> QED BY <1>3, <2>1, <2>2 DEF Push, FileTypeOK
  <1> QED BY <1>1, <1>2, <1>3 DEF Producer

LEMMA PopType ==
    ASSUME FileTypeOK, PopQueue
    PROVE  m_queue' \in Seq(Buffers) /\ m_useMemory' \in Int /\ Head(m_queue) \in Buffers
  <1>1. Head(m_queue) \in Buffers /\ Tail(m_queue) \in Seq(Buffers) BY DEF PopQueue, FileTypeOK
  <1> QED BY <1>1, LengthIsNat DEF PopQueue, FileTypeOK

LEMMA WriterType == FileTypeOK /\ Writer => FileTypeOK'
  <1> SUFFICES ASSUME FileTypeOK, Writer PROVE FileTypeOK' OBVIOUS
  <1> USE DEF opened, queue, production, WriterSteps
  <1>1. CASE TestRun BY <1>1 DEF TestRun, FileTypeOK
  <1>2. CASE Pop
    <2>1. item' \in Buffers /\ m_queue' \in Seq(Buffers) /\ m_useMemory' \in Int
      BY <1>2, PopType DEF Pop
    <2> QED BY <1>2, <2>1 DEF Pop, FileTypeOK
  <1>3. CASE Empty BY <1>3 DEF Empty, FileTypeOK
  <1>4. CASE Write
    <2>1. m_hasWriteSize' \in Nat BY <1>4, LengthIsNat DEF Write, FileTypeOK
    <2>2. header' \in 0..SizeLimit-1
      <3>1. item.size \in Nat BY DEF FileTypeOK, Buffers
      <3> QED BY <1>4, <3>1 DEF Write, FileTypeOK
    <2>3. file' \in Seq(Buffers) BY <1>4 DEF Write, FileTypeOK
    <2>4. m_firstSectionWrite' \in BOOLEAN BY <1>4 DEF Write, FileTypeOK
    <2>5. task' \in {"header", "test"} BY <1>4 DEF Write
    <2> QED BY <1>4, <2>1, <2>2, <2>3, <2>4, <2>5 DEF Write, FileTypeOK
  <1>5. CASE WriteFails
    <2>1. m_hasWriteSize' \in Nat BY <1>5, LengthIsNat DEF WriteFails, FileTypeOK
    <2>2. m_firstSectionWrite' \in BOOLEAN BY <1>5 DEF WriteFails, FileTypeOK
    <2> QED BY <1>5, <2>1, <2>2 DEF WriteFails, FileTypeOK
  <1>6. CASE UpdateWavFile
    <2>1. header + Length(item) \in Nat BY LengthIsNat DEF FileTypeOK
    <2>2. header' \in 0..SizeLimit-1 BY <1>6, <2>1 DEF UpdateWavFile
    <2> QED BY <1>6, <2>2 DEF UpdateWavFile, FileTypeOK
  <1>7. CASE WriteError BY <1>7 DEF WriteError, FileTypeOK
  <1>8. CASE Drain
    <2>1. m_queue' \in Seq(Buffers) /\ m_useMemory' \in Int BY <1>8, PopType DEF Drain
    <2> QED BY <1>8, <2>1 DEF Drain, FileTypeOK, writing
  <1>9. CASE Ended BY <1>9 DEF Ended, FileTypeOK
  <1> QED BY <1>1, <1>2, <1>3, <1>4, <1>5, <1>6, <1>7, <1>8, <1>9 DEF Writer

LEMMA StepFileType == FileTypeOK /\ [FileNext]_fileVars => FileTypeOK'
  <1>1. FileTypeOK /\ Stopper => FileTypeOK'
    <2>1. ASSUME FileTypeOK, Stopper
          PROVE  /\ m_ThreadRun' \in BOOLEAN /\ stopper' \in {"waits", "join", "stopped"}
                 /\ UNCHANGED <<opened, production, queue, writing>>
      BY <2>1 DEF Stopper, StopWrite, JoinWriter, FileTypeOK
    <2> QED BY <2>1 DEF FileTypeOK, opened, production, queue, writing
  <1>2. FileTypeOK /\ UNCHANGED fileVars => FileTypeOK'
    BY DEF fileVars, FileTypeOK, opened, production, queue, writing
  <1> QED BY <1>1, <1>2, ProducerType, WriterType DEF FileNext

(* Every variable of the recording has its type.                            *)
THEOREM FileTypeCorrect == FileSpec => []FileTypeOK
BY InitFileType, StepFileType, PTL DEF FileSpec

----------------------------------------------------------------------------
(* While nothing has failed, the file, the buffer the writer holds and the  *)
(* queue are together what was accepted; afterwards nothing is written.     *)
Flowing == fs = "good" /\ ~m_hasErrorWrite /\ task \notin {"drain", "ended"}
InHand == IF task = "write" THEN 1 ELSE 0

QueueInOrder ==
    /\ task = "write" => ~m_hasErrorWrite
    /\ Flowing =>
          /\ Len(accepted) = Len(file) + InHand + Len(m_queue)
          /\ task = "write" => item = accepted[Len(file) + 1]
          /\ \A i \in 1..Len(m_queue) : m_queue[i] = accepted[Len(file) + InHand + i]

OrderInv == QueueInOrder /\ FileIsPrefix

LEMMA InitOrder == FileInit => OrderInv
BY DEF FileInit, OrderInv, QueueInOrder, FileIsPrefix, InHand

LEMMA StepOrder == FileTypeOK /\ OrderInv /\ [FileNext]_fileVars => OrderInv'
  <1> SUFFICES ASSUME FileTypeOK, OrderInv, [FileNext]_fileVars PROVE OrderInv' OBVIOUS
  <1> USE DEF opened, production, queue, writing
  <1>t. /\ accepted \in Seq(Buffers) /\ m_queue \in Seq(Buffers) /\ file \in Seq(Buffers)
        /\ Len(accepted) \in Nat /\ Len(m_queue) \in Nat /\ Len(file) \in Nat
        /\ InHand \in {0, 1}
    BY DEF FileTypeOK, InHand
  <1>1. CASE Push
    <2>1. /\ accepted' = Append(accepted, brought) /\ m_queue' = Append(m_queue, brought)
          /\ UNCHANGED <<task, file, fs, m_hasErrorWrite, item>>
      BY <1>1 DEF Push
    <2>2. /\ Len(accepted') = Len(accepted) + 1 /\ accepted'[Len(accepted) + 1] = brought
          /\ \A i \in 1..Len(accepted) : accepted'[i] = accepted[i]
          /\ Len(m_queue') = Len(m_queue) + 1 /\ m_queue'[Len(m_queue) + 1] = brought
          /\ \A i \in 1..Len(m_queue) : m_queue'[i] = m_queue[i]
      BY <1>t, <2>1
    <2>3. InHand' = InHand /\ (Flowing' <=> Flowing) BY <2>1 DEF InHand, Flowing
    <2>4. FileIsPrefix' BY <1>t, <2>1, <2>2 DEF OrderInv, FileIsPrefix
    <2>5. ASSUME Flowing
          PROVE  /\ Len(accepted') = Len(file) + InHand + Len(m_queue')
                 /\ task = "write" => item = accepted'[Len(file) + 1]
                 /\ \A i \in 1..Len(m_queue') : m_queue'[i] = accepted'[Len(file) + InHand + i]
      <3>1. /\ Len(accepted) = Len(file) + InHand + Len(m_queue)
            /\ task = "write" => item = accepted[Len(file) + 1]
            /\ \A i \in 1..Len(m_queue) : m_queue[i] = accepted[Len(file) + InHand + i]
        BY <2>5 DEF OrderInv, QueueInOrder
      <3>2. task = "write" => Len(file) + 1 \in 1..Len(accepted) BY <1>t, <3>1 DEF InHand
      <3>3. ASSUME NEW i \in 1..Len(m_queue')
            PROVE  m_queue'[i] = accepted'[Len(file) + InHand + i]
        <4>1. CASE i = Len(m_queue) + 1
          <5>1. Len(file) + InHand + i = Len(accepted) + 1 BY <1>t, <3>1, <4>1
          <5> QED BY <2>2, <4>1, <5>1
        <4>2. CASE i \in 1..Len(m_queue)
          <5>1. Len(file) + InHand + i \in 1..Len(accepted) BY <1>t, <3>1, <4>2
          <5> QED BY <2>2, <3>1, <4>2, <5>1
        <4>3. i = Len(m_queue) + 1 \/ i \in 1..Len(m_queue) BY <1>t, <2>2
        <4> QED BY <4>1, <4>2, <4>3
      <3> QED BY <1>t, <2>2, <3>1, <3>2, <3>3
    <2>6. QueueInOrder' BY <2>1, <2>3, <2>5 DEF OrderInv, QueueInOrder
    <2> QED BY <2>4, <2>6 DEF OrderInv
  <1>2. CASE Pop
    <2>1. /\ m_queue # <<>> /\ m_queue' = Tail(m_queue) /\ item' = Head(m_queue)
          /\ task = "pop" /\ task' = (IF m_hasErrorWrite THEN "test" ELSE "write")
          /\ UNCHANGED <<accepted, file, fs, m_hasErrorWrite>>
      BY <1>2 DEF Pop, PopQueue
    <2>2. /\ Len(m_queue') = Len(m_queue) - 1 /\ item' = m_queue[1]
          /\ \A i \in 1..Len(m_queue) - 1 : m_queue'[i] = m_queue[i + 1]
      BY <1>t, <2>1
    <2>3. FileIsPrefix' BY <2>1 DEF OrderInv, FileIsPrefix
    <2>4. ASSUME Flowing'
          PROVE  /\ Len(accepted) = Len(file) + InHand' + Len(m_queue')
                 /\ item' = accepted[Len(file) + 1]
                 /\ \A i \in 1..Len(m_queue') : m_queue'[i] = accepted[Len(file) + InHand' + i]
      <3>1. Flowing /\ InHand = 0 /\ InHand' = 1 BY <2>1, <2>4 DEF Flowing, InHand
      <3>2. /\ Len(accepted) = Len(file) + Len(m_queue)
            /\ \A i \in 1..Len(m_queue) : m_queue[i] = accepted[Len(file) + i]
        BY <1>t, <3>1 DEF OrderInv, QueueInOrder
      <3>3. Len(m_queue) > 0 BY <1>t, <2>1
      <3>4. ASSUME NEW i \in 1..Len(m_queue')
            PROVE  m_queue'[i] = accepted[Len(file) + 1 + i]
        <4>1. i + 1 \in 1..Len(m_queue) /\ Len(file) + (i + 1) = Len(file) + 1 + i
          BY <1>t, <2>2
        <4>2. m_queue[i + 1] = accepted[Len(file) + (i + 1)] BY <3>2, <4>1
        <4> QED BY <2>2, <4>1, <4>2
      <3> QED BY <1>t, <2>2, <3>1, <3>2, <3>3, <3>4
    <2>5. QueueInOrder' BY <2>1, <2>4 DEF QueueInOrder
    <2> QED BY <2>3, <2>5 DEF OrderInv
  <1>3. CASE Write
    <2>1. /\ task = "write" /\ fs = "good" /\ file' = Append(file, item)
          /\ task' \in {"header", "test"}
          /\ UNCHANGED <<accepted, m_queue, fs, m_hasErrorWrite>>
      BY <1>3 DEF Write, CanWrite
    <2>2. Flowing /\ InHand = 1 /\ InHand' = 0 BY <2>1 DEF OrderInv, QueueInOrder, Flowing, InHand
    <2>3. /\ Len(accepted) = Len(file) + 1 + Len(m_queue)
          /\ item = accepted[Len(file) + 1]
          /\ \A i \in 1..Len(m_queue) : m_queue[i] = accepted[Len(file) + 1 + i]
      BY <2>1, <2>2 DEF OrderInv, QueueInOrder
    <2>4. /\ Len(file') = Len(file) + 1 /\ file'[Len(file) + 1] = item
          /\ \A i \in 1..Len(file) : file'[i] = file[i]
      BY <1>t, <2>1 DEF FileTypeOK
    <2>5. FileIsPrefix'
      <3>1. Len(file') <= Len(accepted) BY <1>t, <2>3, <2>4
      <3>2. ASSUME NEW i \in 1..Len(file') PROVE file'[i] = accepted[i]
        <4>1. CASE i = Len(file) + 1 BY <2>3, <2>4, <4>1
        <4>2. CASE i \in 1..Len(file) BY <2>4, <4>2 DEF OrderInv, FileIsPrefix
        <4> QED BY <1>t, <2>4, <4>1, <4>2
      <3> QED BY <2>1, <3>1, <3>2 DEF FileIsPrefix
    <2>6. /\ Len(accepted) = Len(file') + InHand' + Len(m_queue)
          /\ \A i \in 1..Len(m_queue) : m_queue[i] = accepted[Len(file') + InHand' + i]
      BY <1>t, <2>2, <2>3, <2>4
    <2>7. QueueInOrder' BY <2>1, <2>6 DEF QueueInOrder
    <2> QED BY <2>5, <2>7 DEF OrderInv
  <1>4. CASE WriteFails \/ WriteError
    <2>1. /\ ~Flowing' /\ task' = "test" /\ UNCHANGED <<accepted, file>>
      BY <1>4 DEF WriteFails, WriteError, Flowing
    <2> QED BY <2>1 DEF OrderInv, QueueInOrder, FileIsPrefix
  <1>5. CASE Drain
    <2>1. task' = task /\ task = "drain" /\ UNCHANGED <<accepted, file>> BY <1>5 DEF Drain
    <2> QED BY <2>1 DEF OrderInv, QueueInOrder, FileIsPrefix, Flowing
  <1>6. CASE TestRun \/ Empty \/ UpdateWavFile \/ Ended
    <2>1. /\ task # "write" /\ task' # "write"
          /\ UNCHANGED <<accepted, file, m_queue, fs, m_hasErrorWrite>>
      BY <1>6 DEF TestRun, Empty, UpdateWavFile, Ended
    <2>2. (Flowing' => Flowing) /\ InHand' = InHand
      BY <1>6, <2>1 DEF TestRun, Empty, UpdateWavFile, Ended, Flowing, InHand
    <2> QED BY <2>1, <2>2 DEF OrderInv, QueueInOrder, FileIsPrefix
  <1>7. CASE Bring \/ Accept \/ Refuse \/ Stopper \/ UNCHANGED fileVars
    <2>1. UNCHANGED <<accepted, file, m_queue, fs, m_hasErrorWrite, task, item>>
      BY <1>7 DEF Bring, Accept, Refuse, Stopper, StopWrite, JoinWriter, fileVars
    <2> QED BY <2>1 DEF OrderInv, QueueInOrder, FileIsPrefix, Flowing, InHand
  <1> QED BY <1>1, <1>2, <1>3, <1>4, <1>5, <1>6, <1>7 DEF FileNext, Producer, Writer

(* The file is a beginning of what was accepted, whatever fails and         *)
(* whenever it is stopped (popQueue, WriteToFile).                          *)
THEOREM OrderCorrect == FileSpec => []FileIsPrefix
BY InitFileType, StepFileType, InitOrder, StepOrder, PTL DEF FileSpec, OrderInv

----------------------------------------------------------------------------
(* If the file could be opened, nothing is refused before something was     *)
(* accepted, unless the writer has ended and nothing ever will be.          *)
Opened == m_aviablePhyMemory > 0
Wav == m_fileType = "WAV"

HeaderInv ==
    /\ ~Opened => fs = "failed" /\ file = <<>>
    /\ m_headerInit <=> ~Wav \/ count = 0
    /\ accepted = <<>> => m_useMemory = 0 /\ m_queue = <<>>
    /\ Opened /\ accepted = <<>> /\ (m_threadWork \/ producer = "push") =>
          (producer = "ready" => count = 0) /\ (producer # "ready" => count = 1)
    /\ accepted # <<>> => count >= 1 /\ (producer # "ready" => count >= 2)
    /\ producer # "ready" => count >= 1 /\ (brought.header <=> Wav /\ count = 1)
    /\ Opened => \A i \in 1..Len(accepted) : accepted[i].header <=> Wav /\ i = 1

LEMMA InitHeader == FileInit => HeaderInv
BY DEF FileInit, HeaderInv, Opened, Wav

LEMMA StepHeader == FileTypeOK /\ HeaderInv /\ [FileNext]_fileVars => HeaderInv'
  <1> SUFFICES ASSUME FileTypeOK, HeaderInv, [FileNext]_fileVars PROVE HeaderInv' OBVIOUS
  <1> USE DEF opened, production, queue, writing
  <1>t. /\ accepted \in Seq(Buffers) /\ m_queue \in Seq(Buffers) /\ file \in Seq(Buffers)
        /\ count \in Nat /\ m_useMemory \in Int /\ m_aviablePhyMemory \in Nat
        /\ m_headerInit \in BOOLEAN /\ m_threadWork \in BOOLEAN
        /\ m_fileType \in {"WAV", "TDMS"} /\ producer \in {"ready", "add", "push"}
    BY DEF FileTypeOK
  <1>0. UNCHANGED <<m_fileType, m_aviablePhyMemory>> => (Opened' <=> Opened) /\ (Wav' <=> Wav)
    BY DEF Opened, Wav
  <1>1. CASE Bring
    <2>1. PICK size \in Sizes :
              brought' = [number |-> count + 1, size |-> size,
                          header |-> m_fileType = "WAV" /\ m_headerInit]
      BY <1>1 DEF Bring
    <2>2. brought'.header <=> Wav /\ count = 0 BY <1>t, <2>1 DEF HeaderInv, Wav
    <2>3. /\ producer = "ready" /\ producer' = "add" /\ count' = count + 1
          /\ (m_headerInit' <=> m_headerInit /\ ~Wav)
          /\ UNCHANGED <<accepted, m_fileType, m_aviablePhyMemory, m_useMemory, m_queue, fs, file, m_threadWork>>
      BY <1>1, <1>t DEF Bring, Wav
    <2>4. accepted' # <<>> => count' >= 2 BY <1>t, <2>3 DEF HeaderInv
    <2>5. Opened /\ accepted = <<>> /\ m_threadWork => count' = 1 BY <1>t, <2>3 DEF HeaderInv
    <2> QED BY <1>t, <1>0, <2>2, <2>3, <2>4, <2>5 DEF HeaderInv
  <1>2. CASE Accept
    <2>1. /\ producer = "add" /\ producer' = "push" /\ m_threadWork
          /\ UNCHANGED <<brought, m_headerInit, count, accepted, m_fileType, m_aviablePhyMemory,
                         m_useMemory, m_queue, fs, file, m_threadWork>>
      BY <1>2 DEF Accept, HasRoom
    <2> QED BY <1>t, <1>0, <2>1 DEF HeaderInv
  <1>3. CASE Refuse
    <2>1. /\ producer = "add" /\ producer' = "ready"
          /\ ~(m_threadWork /\ m_useMemory < m_aviablePhyMemory)
          /\ UNCHANGED <<brought, m_headerInit, count, accepted, m_fileType, m_aviablePhyMemory,
                         m_useMemory, m_queue, fs, file, m_threadWork>>
      BY <1>3 DEF Refuse, HasRoom
    <2>2. Opened /\ accepted = <<>> => ~m_threadWork BY <1>t, <2>1 DEF HeaderInv, Opened
    <2> QED BY <1>t, <1>0, <2>1, <2>2 DEF HeaderInv
  <1>4. CASE Push
    <2>1. /\ producer = "push" /\ producer' = "ready" /\ accepted' = Append(accepted, brought)
          /\ UNCHANGED <<brought, m_headerInit, count, m_fileType, m_aviablePhyMemory, fs, file, m_threadWork>>
      BY <1>4 DEF Push
    <2>2. /\ Len(accepted') = Len(accepted) + 1 /\ accepted'[Len(accepted) + 1] = brought
          /\ \A i \in 1..Len(accepted) : accepted'[i] = accepted[i]
          /\ accepted' # <<>> /\ Len(accepted) \in Nat
          /\ (accepted = <<>> <=> Len(accepted) = 0)
      <3>1. accepted \in Seq(Buffers) /\ brought \in Buffers BY DEF FileTypeOK
      <3> QED BY <2>1, <3>1
    <2>3. Opened => (brought.header <=> Wav /\ Len(accepted) = 0) BY <1>t, <2>1, <2>2 DEF HeaderInv
    <2>4. Opened => \A i \in 1..Len(accepted') : accepted'[i].header <=> Wav /\ i = 1
      <3> SUFFICES ASSUME Opened, NEW i \in 1..Len(accepted')
                   PROVE  accepted'[i].header <=> Wav /\ i = 1
        OBVIOUS
      <3>1. CASE i = Len(accepted) + 1 BY <2>2, <2>3, <3>1
      <3>2. CASE i \in 1..Len(accepted) BY <2>2, <3>2 DEF HeaderInv
      <3> QED BY <2>2, <3>1, <3>2
    <2>5. count >= 1 BY <2>1 DEF HeaderInv
    <2> QED BY <1>t, <1>0, <2>1, <2>2, <2>4, <2>5 DEF HeaderInv
  <1>5. CASE Pop \/ Drain
    <2>1. /\ m_queue # <<>>
          /\ UNCHANGED <<producer, brought, m_headerInit, count, accepted, m_fileType, m_aviablePhyMemory,
                         fs, file, m_threadWork>>
      BY <1>5 DEF Pop, Drain, PopQueue
    <2>2. accepted # <<>> BY <2>1 DEF HeaderInv
    <2> QED BY <1>t, <1>0, <2>1, <2>2 DEF HeaderInv
  <1>6. CASE Write \/ WriteFails
    <2>1. /\ fs = "good"
          /\ UNCHANGED <<producer, brought, m_headerInit, count, accepted, m_fileType, m_aviablePhyMemory,
                         m_useMemory, m_queue, m_threadWork>>
      BY <1>6 DEF Write, WriteFails, CanWrite
    <2>2. Opened BY <2>1 DEF HeaderInv
    <2> QED BY <1>t, <1>0, <2>1, <2>2 DEF HeaderInv
  <1>7. CASE \/ TestRun \/ Empty \/ UpdateWavFile \/ WriteError \/ Ended
             \/ Stopper \/ UNCHANGED fileVars
    <2>1. /\ m_threadWork' => m_threadWork
          /\ UNCHANGED <<producer, brought, m_headerInit, count, accepted, m_fileType, m_aviablePhyMemory,
                         m_useMemory, m_queue, fs, file>>
      BY <1>7 DEF TestRun, Empty, UpdateWavFile, WriteError, Ended,
                  Stopper, StopWrite, JoinWriter, fileVars
    <2> QED BY <1>t, <1>0, <2>1 DEF HeaderInv
  <1> QED BY <1>1, <1>2, <1>3, <1>4, <1>5, <1>6, <1>7 DEF FileNext, Producer, Writer

LEMMA HeaderFromInv == FileTypeOK /\ OrderInv /\ HeaderInv => HeaderComesFirst
  <1> SUFFICES ASSUME FileTypeOK, OrderInv, HeaderInv, NEW i \in 1..Len(file)
               PROVE  file[i].header <=> Wav /\ i = 1
    BY DEF HeaderComesFirst, Wav
  <1>1. Opened BY DEF HeaderInv, FileTypeOK
  <1>2. i \in 1..Len(accepted) /\ file[i] = accepted[i]
    BY DEF OrderInv, FileIsPrefix, FileTypeOK
  <1> QED BY <1>1, <1>2 DEF HeaderInv

(* The file begins with the header and has no other, although the header is *)
(* built before the buffer is accepted (BuildWAVStream, AddBufferToWrite).  *)
THEOREM HeaderCorrect == FileSpec => []HeaderComesFirst
BY InitFileType, StepFileType, InitOrder, StepOrder, InitHeader, StepHeader, HeaderFromInv, PTL DEF FileSpec

----------------------------------------------------------------------------
(* Sums.  w[1] + ... + w[n] exists for every n, so the recursive functions  *)
(* that add up sizes are defined by their equation; what they have in common*)
(* is shown for the least number for which it would fail.                   *)
LEMMA LeastNumber ==
    ASSUME NEW T, T \subseteq Nat, T # {}
    PROVE  \E x \in T : \A y \in T : ~(y < x)
  <1>1. IsWellFoundedOn(OpToRel(<, Nat), Nat) BY NatLessThanWellFounded
  <1>2. PICK x \in T : \A y \in T : ~(<<y, x>> \in OpToRel(<, Nat)) BY <1>1, WFMin
  <1>3. ASSUME NEW y \in T, y < x PROVE FALSE
    <2>1. <<y, x>> \in OpToRel(<, Nat) BY <1>3 DEF OpToRel
    <2> QED BY <1>2, <2>1
  <1> QED BY <1>3

SumUpTo(w, f, n) == f = [i \in 0..n |-> IF i = 0 THEN 0 ELSE f[i-1] + w[i]]

LEMMA SumsAgree ==
    ASSUME NEW w, NEW n \in Nat, NEW m \in Nat, NEW f, NEW h, SumUpTo(w, f, n), SumUpTo(w, h, m)
    PROVE  \A i \in 0..n \cap 0..m : f[i] = h[i]
  <1> DEFINE T == {i \in 0..n \cap 0..m : f[i] # h[i]}
  <1> SUFFICES ASSUME T # {} PROVE FALSE OBVIOUS
  <1>1. PICK i \in T : \A j \in T : ~(j < i)
    <2>1. T \subseteq Nat OBVIOUS
    <2> HIDE DEF T
    <2> QED BY <2>1, LeastNumber
  <1>2. /\ f[i] = IF i = 0 THEN 0 ELSE f[i-1] + w[i]
        /\ h[i] = IF i = 0 THEN 0 ELSE h[i-1] + w[i]
    <2>1. i \in 0..n /\ i \in 0..m OBVIOUS
    <2> QED BY <2>1 DEF SumUpTo
  <1>3. i # 0 /\ i - 1 \in 0..n \cap 0..m BY <1>2
  <1>4. i - 1 \notin T BY <1>1, <1>3
  <1> QED BY <1>2, <1>3, <1>4

LEMMA SumUpToExists == ASSUME NEW w, NEW n \in Nat PROVE \E f : SumUpTo(w, f, n)
  <1> DEFINE T == {k \in Nat : ~\E f : SumUpTo(w, f, k)}
  <1> SUFFICES ASSUME T # {} PROVE FALSE OBVIOUS
  <1>1. PICK k \in T : \A j \in T : ~(j < k)
    <2>1. T \subseteq Nat OBVIOUS
    <2> HIDE DEF T
    <2> QED BY <2>1, LeastNumber
  <1>2. k # 0
    <2>1. SumUpTo(w, [i \in 0..0 |-> 0], 0) BY DEF SumUpTo
    <2> QED BY <2>1
  <1>3. k - 1 \in Nat /\ k - 1 \notin T BY <1>1, <1>2
  <1>4. PICK f : SumUpTo(w, f, k - 1) BY <1>3
  <1> DEFINE h == [i \in 0..k |-> IF i < k THEN f[i] ELSE f[k-1] + w[k]]
  <1>5. ASSUME NEW i \in 0..k PROVE h[i] = IF i = 0 THEN 0 ELSE h[i-1] + w[i]
    <2>1. CASE i = k BY <1>2, <2>1
    <2>2. CASE i < k
      <3>1. i \in 0..(k-1) BY <2>2
      <3>2. f[i] = IF i = 0 THEN 0 ELSE f[i-1] + w[i] BY <1>4, <3>1 DEF SumUpTo
      <3> QED BY <2>2, <3>2
    <2> QED BY <2>1, <2>2
  <1>6. SumUpTo(w, h, k) BY <1>5 DEF SumUpTo
  <1> QED BY <1>6

LEMMA SumExists ==
    ASSUME NEW w
    PROVE  \E S : S = [n \in Nat |-> IF n = 0 THEN 0 ELSE S[n-1] + w[n]]
  <1> DEFINE F(n) == CHOOSE f : SumUpTo(w, f, n)
             S == [n \in Nat |-> F(n)[n]]
  <1>1. \A n \in Nat : SumUpTo(w, F(n), n) BY SumUpToExists
  <1>2. \A n \in Nat : S[n] = F(n)[n]
    <2> HIDE DEF F
    <2> QED OBVIOUS
  <1>3. ASSUME NEW n \in Nat PROVE S[n] = IF n = 0 THEN 0 ELSE S[n-1] + w[n]
    <2>1. F(n)[n] = IF n = 0 THEN 0 ELSE F(n)[n-1] + w[n]
      <3>1. SumUpTo(w, F(n), n) BY <1>1
      <3> HIDE DEF F
      <3> QED BY <3>1 DEF SumUpTo
    <2>2. ASSUME n # 0 PROVE F(n)[n-1] = F(n-1)[n-1]
      <3>1. n - 1 \in Nat /\ n - 1 \in 0..n \cap 0..(n-1) BY <2>2
      <3>2. SumUpTo(w, F(n), n) /\ SumUpTo(w, F(n-1), n-1) BY <1>1, <3>1
      <3> HIDE DEF F
      <3> QED BY <3>1, <3>2, SumsAgree
    <2>3. n # 0 => n - 1 \in Nat OBVIOUS
    <2> HIDE DEF F, S
    <2> QED BY <2>1, <2>2, <2>3, <1>2
  <1>4. S = [n \in Nat |-> IF n = 0 THEN 0 ELSE S[n-1] + w[n]]
    <2> DEFINE R == [n \in Nat |-> IF n = 0 THEN 0 ELSE S[n-1] + w[n]]
    <2>1. \A n \in Nat : S[n] = R[n]
      <3> HIDE DEF S
      <3> QED BY <1>3
    <2> HIDE DEF F
    <2> QED BY <2>1
  <1> QED BY <1>4

(* S sums w; the first n summands are natural numbers; the first n of v are *)
(* those of w after its first d.                                            *)
IsSum(S, w) == S = [n \in Nat |-> IF n = 0 THEN 0 ELSE S[n-1] + w[n]]
AllNatural(w, n) == \A i \in 1..n : w[i] \in Nat
Shifted(v, w, n, d) == \A i \in 1..n : v[i] = w[i+d]

LEMMA SumAt ==
    ASSUME NEW S, NEW w, IsSum(S, w)
    PROVE  S[0] = 0 /\ \A n \in Nat \ {0} : S[n] = S[n-1] + w[n]
BY DEF IsSum

LEMMA SumOfNaturals ==
    ASSUME NEW S, NEW w, NEW n \in Nat, IsSum(S, w), AllNatural(w, n)
    PROVE  \A i \in 0..n : S[i] \in Nat
  <1> DEFINE T == {i \in 0..n : S[i] \notin Nat}
  <1> SUFFICES ASSUME T # {} PROVE FALSE OBVIOUS
  <1>1. PICK i \in T : \A j \in T : ~(j < i)
    <2>1. T \subseteq Nat OBVIOUS
    <2> HIDE DEF T
    <2> QED BY <2>1, LeastNumber
  <1>2. i # 0 BY SumAt
  <1>3. i - 1 \in 0..n /\ i - 1 \notin T BY <1>1, <1>2
  <1>4. S[i] = S[i-1] + w[i] BY <1>2, SumAt
  <1>5. w[i] \in Nat BY <1>2 DEF AllNatural
  <1> QED BY <1>2, <1>3, <1>4, <1>5

(* The sum of a sequence from its place d + 1 on is the whole sum less that *)
(* of its first d.                                                          *)
LEMMA SumShifted ==
    ASSUME NEW S, NEW w, NEW R, NEW v, NEW n \in Nat, NEW d \in Nat, IsSum(S, w), IsSum(R, v),
           AllNatural(w, n + d), Shifted(v, w, n, d)
    PROVE  \A i \in 0..n : R[i] = S[i+d] - S[d]
  <1> DEFINE T == {i \in 0..n : R[i] # S[i+d] - S[d]}
  <1> SUFFICES ASSUME T # {} PROVE FALSE OBVIOUS
  <1>0. \A i \in 0..n+d : S[i] \in Nat BY SumOfNaturals
  <1>1. PICK i \in T : \A j \in T : ~(j < i)
    <2>1. T \subseteq Nat OBVIOUS
    <2> HIDE DEF T
    <2> QED BY <2>1, LeastNumber
  <1>2. i # 0
    <2>1. R[0] = 0 /\ S[d] \in Nat BY <1>0, SumAt
    <2> QED BY <2>1
  <1>3. i - 1 \in 0..n /\ i - 1 \notin T BY <1>1, <1>2
  <1>4. R[i-1] = S[i-1+d] - S[d] BY <1>3
  <1>5. R[i] = R[i-1] + v[i] /\ v[i] = w[i+d]
    <2>1. i \in Nat \ {0} /\ i \in 1..n BY <1>2
    <2> QED BY <2>1, SumAt DEF Shifted
  <1>6. S[i+d] = S[i-1+d] + w[i+d]
    <2>1. i + d \in Nat \ {0} /\ (i + d) - 1 = i - 1 + d BY <1>2
    <2> QED BY <2>1, SumAt
  <1>7. S[i-1+d] \in Nat /\ S[d] \in Nat /\ w[i+d] \in Nat
    <2>1. i - 1 + d \in 0..n+d /\ d \in 0..n+d /\ i + d \in 1..n+d BY <1>2
    <2> QED BY <1>0, <2>1 DEF AllNatural
  <1>8. R[i] = S[i+d] - S[d] BY <1>4, <1>5, <1>6, <1>7
  <1> QED BY <1>8

DataSizes == [n \in Nat |-> file[n].size]
Lengths == [n \in Nat |-> Length(m_queue[n])]

LEMMA DataSizeIsSum == IsSum(DataSize, DataSizes)
  <1> DEFINE P(S) == S = [n \in Nat |-> IF n = 0 THEN 0 ELSE S[n-1] + file[n].size]
  <1>1. \A S : P(S) <=> IsSum(S, DataSizes)
    <2>1. ASSUME NEW S
          PROVE  [n \in Nat |-> IF n = 0 THEN 0 ELSE S[n-1] + file[n].size]
                   = [n \in Nat |-> IF n = 0 THEN 0 ELSE S[n-1] + DataSizes[n]]
      BY DEF DataSizes
    <2> QED BY <2>1 DEF IsSum
  <1>2. \E S : P(S)
    <2>1. \E S : IsSum(S, DataSizes) BY SumExists DEF IsSum
    <2> HIDE DEF P
    <2> QED BY <1>1, <2>1
  <1>3. DataSize = CHOOSE S : P(S) BY DEF DataSize
  <1> HIDE DEF P
  <1>4. P(CHOOSE S : P(S)) BY <1>2
  <1> QED BY <1>1, <1>3, <1>4

LEMMA QueueSizeIsSum == IsSum(QueueSize, Lengths)
  <1> DEFINE P(S) == S = [n \in Nat |-> IF n = 0 THEN 0 ELSE S[n-1] + Length(m_queue[n])]
  <1>1. \A S : P(S) <=> IsSum(S, Lengths)
    <2>1. ASSUME NEW S
          PROVE  [n \in Nat |-> IF n = 0 THEN 0 ELSE S[n-1] + Length(m_queue[n])]
                   = [n \in Nat |-> IF n = 0 THEN 0 ELSE S[n-1] + Lengths[n]]
      BY DEF Lengths
    <2> QED BY <2>1 DEF IsSum
  <1>2. \E S : P(S)
    <2>1. \E S : IsSum(S, Lengths) BY SumExists DEF IsSum
    <2> HIDE DEF P
    <2> QED BY <1>1, <2>1
  <1>3. QueueSize = CHOOSE S : P(S) BY DEF QueueSize
  <1> HIDE DEF P
  <1>4. P(CHOOSE S : P(S)) BY <1>2
  <1> QED BY <1>1, <1>3, <1>4

(* A sum over one more summand, and over all but the first.                 *)
LEMMA SumAppended ==
    ASSUME NEW S, NEW w, NEW R, NEW v, NEW n \in Nat, IsSum(S, w), IsSum(R, v),
           AllNatural(w, n), Shifted(v, w, n, 0)
    PROVE  S[n] \in Nat /\ R[n+1] = S[n] + v[n+1]
  <1>1. S[n] \in Nat BY SumOfNaturals
  <1>2. R[n] = S[n] - S[0]
    <2>1. \A i \in 0..n : R[i] = S[i+0] - S[0]
      <3>1. AllNatural(w, n + 0) OBVIOUS
      <3> QED BY <3>1, SumShifted
    <2> QED BY <2>1
  <1>3. S[0] = 0 BY SumAt
  <1>4. R[n+1] = R[n] + v[n+1]
    <2>1. n + 1 \in Nat \ {0} /\ (n + 1) - 1 = n OBVIOUS
    <2> QED BY <2>1, SumAt
  <1> QED BY <1>1, <1>2, <1>3, <1>4

LEMMA SumOfTail ==
    ASSUME NEW S, NEW w, NEW R, NEW v, NEW n \in Nat, IsSum(S, w), IsSum(R, v),
           AllNatural(w, n + 1), Shifted(v, w, n, 1)
    PROVE  R[n] = S[n+1] - w[1]
  <1>1. R[n] = S[n+1] - S[1]
    <2>1. \A i \in 0..n : R[i] = S[i+1] - S[1] BY SumShifted
    <2> QED BY <2>1
  <1>2. S[1] = S[0] + w[1] /\ S[0] = 0
    <2>1. 1 \in Nat \ {0} /\ 1 - 1 = 0 OBVIOUS
    <2> QED BY <2>1, SumAt
  <1>3. w[1] \in Nat BY DEF AllNatural
  <1> QED BY <1>1, <1>2, <1>3

----------------------------------------------------------------------------
(* The sum of what is queued follows the queue as the account does.         *)
LEMMA QueueGrows ==
    ASSUME FileTypeOK, NEW b \in Buffers, m_queue' = Append(m_queue, b)
    PROVE  QueueSize'[Len(m_queue')] = QueueSize[Len(m_queue)] + Length(b)
  <1> DEFINE n == Len(m_queue)
  <1>1. m_queue \in Seq(Buffers) /\ n \in Nat BY DEF FileTypeOK
  <1>2. IsSum(QueueSize, Lengths) /\ IsSum(QueueSize', Lengths')
    <2>1. IsSum(QueueSize, Lengths)' BY QueueSizeIsSum, PTL
    <2> QED BY <2>1, QueueSizeIsSum DEF IsSum
  <1>3. /\ Len(m_queue') = n + 1 /\ m_queue'[n+1] = b
        /\ \A i \in 1..n : m_queue'[i] = m_queue[i] /\ m_queue[i] \in Buffers
    BY <1>1
  <1>4. AllNatural(Lengths, n) /\ Shifted(Lengths', Lengths, n, 0) /\ Lengths'[n+1] = Length(b)
    BY <1>1, <1>3, LengthIsNat DEF Lengths, Length, AllNatural, Shifted
  <1> HIDE DEF n
  <1>5. QueueSize'[n+1] = QueueSize[n] + Lengths'[n+1] BY <1>1, <1>2, <1>4, SumAppended
  <1> QED BY <1>3, <1>4, <1>5 DEF n

LEMMA QueueShrinks ==
    ASSUME FileTypeOK, m_queue # <<>>, m_queue' = Tail(m_queue)
    PROVE  QueueSize'[Len(m_queue')] = QueueSize[Len(m_queue)] - Length(Head(m_queue))
  <1> DEFINE n == Len(m_queue')
  <1>1. m_queue \in Seq(Buffers) BY DEF FileTypeOK
  <1>2. IsSum(QueueSize, Lengths) /\ IsSum(QueueSize', Lengths')
    <2>1. IsSum(QueueSize, Lengths)' BY QueueSizeIsSum, PTL
    <2> QED BY <2>1, QueueSizeIsSum DEF IsSum
  <1>3. /\ n \in Nat /\ Len(m_queue) = n + 1 /\ Head(m_queue) = m_queue[1]
        /\ \A i \in 1..n : m_queue'[i] = m_queue[i+1]
        /\ \A i \in 1..n+1 : m_queue[i] \in Buffers
    BY <1>1
  <1>4. AllNatural(Lengths, n + 1) /\ Shifted(Lengths', Lengths, n, 1) /\ Lengths[1] = Length(m_queue[1])
    BY <1>3, LengthIsNat DEF Lengths, Length, AllNatural, Shifted
  <1> HIDE DEF n
  <1>5. QueueSize'[n] = QueueSize[n+1] - Lengths[1] BY <1>2, <1>3, <1>4, SumOfTail
  <1> QED BY <1>3, <1>4, <1>5 DEF n

LEMMA QueueStays == ASSUME UNCHANGED m_queue PROVE QueueSize' = QueueSize
BY DEF QueueSize, Length

(* A buffer that was let in is pushed while the account is below the limit, *)
(* because the writer only lowers it.                                       *)
MemoryInv ==
    /\ MemoryIsQueued /\ MemoryBounded
    /\ producer = "push" => m_useMemory < m_aviablePhyMemory

LEMMA InitMemory == FileInit => MemoryInv
  <1> SUFFICES ASSUME FileInit PROVE MemoryInv OBVIOUS
  <1>1. QueueSize[0] = 0 BY QueueSizeIsSum, SumAt
  <1> QED BY <1>1 DEF FileInit, MemoryInv, MemoryIsQueued, MemoryBounded

LEMMA StepMemory == FileTypeOK /\ MemoryInv /\ [FileNext]_fileVars => MemoryInv'
  <1> SUFFICES ASSUME FileTypeOK, MemoryInv, [FileNext]_fileVars PROVE MemoryInv' OBVIOUS
  <1> USE DEF opened, production, queue, writing
  <1>t. /\ m_queue \in Seq(Buffers) /\ brought \in Buffers
        /\ m_useMemory \in Int /\ m_aviablePhyMemory \in Nat
    BY DEF FileTypeOK
  <1>1. CASE Push
    <2>1. /\ m_queue' = Append(m_queue, brought) /\ m_useMemory' = m_useMemory + Length(brought)
          /\ producer = "push" /\ producer' = "ready" /\ UNCHANGED m_aviablePhyMemory
      BY <1>1 DEF Push
    <2>2. MemoryIsQueued' BY <1>t, <2>1, QueueGrows DEF MemoryInv, MemoryIsQueued
    <2>3. m_queue'[Len(m_queue')] = brought BY <1>t, <2>1
    <2>4. Length(brought) \in Nat /\ m_useMemory < m_aviablePhyMemory
      BY <1>t, <2>1, LengthIsNat DEF MemoryInv
    <2>5. MemoryBounded' BY <1>t, <2>1, <2>3, <2>4 DEF MemoryBounded, Length
    <2> QED BY <2>1, <2>2, <2>5 DEF MemoryInv
  <1>2. CASE Pop \/ Drain
    <2>1. /\ m_queue # <<>> /\ m_queue' = Tail(m_queue)
          /\ m_useMemory' = m_useMemory - Length(Head(m_queue))
          /\ UNCHANGED <<producer, m_aviablePhyMemory>>
      BY <1>2 DEF Pop, Drain, PopQueue
    <2>2. MemoryIsQueued' BY <2>1, QueueShrinks DEF MemoryInv, MemoryIsQueued
    <2>3. m_useMemory' \in Int /\ m_useMemory' <= m_useMemory
      <3>1. Length(Head(m_queue)) \in Nat BY <1>t, <2>1, LengthIsNat
      <3> QED BY <1>t, <2>1, <3>1
    <2>4. m_queue' # <<>> => m_queue'[Len(m_queue')] = m_queue[Len(m_queue)] BY <1>t, <2>1
    <2>5. Length(m_queue[Len(m_queue)]) \in Nat BY <1>t, <2>1, LengthIsNat
    <2>6. MemoryBounded'
      BY <1>t, <2>1, <2>3, <2>4, <2>5 DEF MemoryInv, MemoryBounded, Length
    <2> QED BY <1>t, <2>1, <2>2, <2>3, <2>6 DEF MemoryInv
  <1>3. ASSUME UNCHANGED <<m_queue, m_useMemory, m_aviablePhyMemory>>,
               producer' = "push" => m_useMemory < m_aviablePhyMemory
        PROVE  MemoryInv'
    <2>1. MemoryIsQueued' BY <1>3, QueueStays DEF MemoryInv, MemoryIsQueued
    <2>2. MemoryBounded' BY <1>3 DEF MemoryInv, MemoryBounded, Length
    <2> QED BY <1>3, <2>1, <2>2 DEF MemoryInv
  <1>4. CASE Bring \/ Accept \/ Refuse
    <2>1. /\ UNCHANGED <<m_queue, m_useMemory, m_aviablePhyMemory>>
          /\ producer' = "push" => m_useMemory < m_aviablePhyMemory
      BY <1>4 DEF Bring, Accept, Refuse, HasRoom
    <2> QED BY <1>3, <2>1
  <1>5. CASE \/ TestRun \/ Empty \/ Write \/ WriteFails \/ UpdateWavFile
             \/ WriteError \/ Ended \/ Stopper \/ UNCHANGED fileVars
    <2>1. UNCHANGED <<m_queue, m_useMemory, m_aviablePhyMemory, producer>>
      BY <1>5 DEF TestRun, Empty, Write, WriteFails, UpdateWavFile,
                  WriteError, Ended, Stopper, StopWrite, JoinWriter, fileVars
    <2> QED BY <1>3, <2>1 DEF MemoryInv
  <1> QED BY <1>1, <1>2, <1>4, <1>5 DEF FileNext, Producer, Writer

(* What is accounted is what is queued, whoever pushes and pops: the        *)
(* unsigned account never wraps (pushQueue, popQueue).                      *)
THEOREM MemoryCorrect == FileSpec => []MemoryIsQueued
BY InitFileType, StepFileType, InitMemory, StepMemory, PTL DEF FileSpec, MemoryInv

(* The limit is passed by one buffer only, although it is looked at before  *)
(* the queue is locked (AddBufferToWrite).                                  *)
THEOREM BoundCorrect == FileSpec => []MemoryBounded
BY InitFileType, StepFileType, InitMemory, StepMemory, PTL DEF FileSpec, MemoryInv

----------------------------------------------------------------------------
(* The size in the header.  The first section of a WAV file, and only it,   *)
(* brings its own size; every later one is added to it.                     *)
LEMMA FileGrows ==
    ASSUME FileTypeOK, NEW b \in Buffers, file' = Append(file, b)
    PROVE  DataSize'[Len(file')] = DataSize[Len(file)] + b.size
  <1> DEFINE n == Len(file)
  <1>1. file \in Seq(Buffers) /\ n \in Nat BY DEF FileTypeOK
  <1>2. IsSum(DataSize, DataSizes) /\ IsSum(DataSize', DataSizes')
    <2>1. IsSum(DataSize, DataSizes)' BY DataSizeIsSum, PTL
    <2> QED BY <2>1, DataSizeIsSum DEF IsSum
  <1>3. /\ Len(file') = n + 1 /\ file'[n+1] = b
        /\ \A i \in 1..n : file'[i] = file[i] /\ file[i] \in Buffers
    BY <1>1
  <1>4. AllNatural(DataSizes, n) /\ Shifted(DataSizes', DataSizes, n, 0) /\ DataSizes'[n+1] = b.size
    <2>1. \A i \in 1..n : DataSizes[i] = file[i].size /\ DataSizes'[i] = file'[i].size
      BY <1>1 DEF DataSizes
    <2>2. DataSizes'[n+1] = file'[n+1].size BY <1>1 DEF DataSizes
    <2>3. \A i \in 1..n : i + 0 = i BY <1>1
    <2> HIDE DEF n
    <2>4. AllNatural(DataSizes, n) BY <1>3, <2>1 DEF AllNatural, Buffers
    <2>5. Shifted(DataSizes', DataSizes, n, 0) BY <1>3, <2>1, <2>3 DEF Shifted
    <2> QED BY <1>3, <2>2, <2>4, <2>5
  <1> HIDE DEF n
  <1>5. DataSize'[n+1] = DataSize[n] + DataSizes'[n+1] BY <1>1, <1>2, <1>4, SumAppended
  <1> QED BY <1>3, <1>4, <1>5 DEF n

LEMMA DataSizeIsNat == FileTypeOK => DataSize[Len(file)] \in Nat
  <1> SUFFICES ASSUME FileTypeOK PROVE DataSize[Len(file)] \in Nat OBVIOUS
  <1> DEFINE n == Len(file)
  <1>1. file \in Seq(Buffers) /\ n \in Nat BY DEF FileTypeOK
  <1>2. AllNatural(DataSizes, n)
    <2>1. \A i \in 1..n : i \in Nat /\ file[i] \in Buffers BY <1>1
    <2> QED BY <2>1 DEF DataSizes, Buffers, AllNatural
  <1> HIDE DEF n
  <1>3. DataSize[n] \in Nat BY <1>1, <1>2, DataSizeIsSum, SumOfNaturals
  <1> QED BY <1>3 DEF n

LEMMA FileStays == ASSUME UNCHANGED file PROVE DataSize' = DataSize
BY DEF DataSize

SizeInv ==
    /\ m_firstSectionWrite => Wav
    /\ fs = "good" => (m_firstSectionWrite <=> Wav /\ file # <<>>)
    /\ task = "header" => Wav /\ ~item.header
    /\ HeaderTellsSize

LEMMA InitSize == FileInit => SizeInv
  <1> SUFFICES ASSUME FileInit PROVE SizeInv OBVIOUS
  <1>1. DataSize[0] = 0 BY DataSizeIsSum, SumAt
  <1> QED BY <1>1 DEF FileInit, SizeInv, HeaderTellsSize

LEMMA StepSize ==
    FileTypeOK /\ OrderInv /\ HeaderInv /\ SizeInv /\ [FileNext]_fileVars => SizeInv'
  <1> SUFFICES ASSUME FileTypeOK, OrderInv, HeaderInv, SizeInv, [FileNext]_fileVars PROVE SizeInv' OBVIOUS
  <1> USE DEF opened, production, queue, writing
  <1> DEFINE d == DataSize[Len(file)]
  <1>t. /\ file \in Seq(Buffers) /\ accepted \in Seq(Buffers)
        /\ item \in Buffers /\ item.size \in Nat
        /\ header \in Nat /\ SizeLimit \in Nat \ {0} /\ d \in Nat
        /\ m_firstSectionWrite \in BOOLEAN /\ fs \in {"good", "failed"}
    BY DataSizeIsNat DEF FileTypeOK, Buffers
  <1>d. \A x \in Nat : x < SizeLimit => x % SizeLimit = x BY <1>t
  <1>h. Wav /\ d < SizeLimit => header = d - (IF task = "header" THEN item.size ELSE 0)
    BY DEF SizeInv, HeaderTellsSize, Wav
  <1> HIDE DEF d
  <1>1. CASE Write
    <2>1. /\ task = "write" /\ fs = "good" /\ file' = Append(file, item)
          /\ header' = (IF item.header THEN item.size % SizeLimit ELSE header)
          /\ m_firstSectionWrite' = (m_firstSectionWrite \/ Wav)
          /\ task' = IF Wav /\ m_firstSectionWrite THEN "header" ELSE "test"
          /\ UNCHANGED <<fs, m_fileType, item>>
      BY <1>1 DEF Write, CanWrite, Wav
    <2>2. item.header <=> Wav /\ file = <<>>
      <3>1. Flowing BY <2>1 DEF OrderInv, QueueInOrder, Flowing
      <3>2. Len(accepted) = Len(file) + 1 + Len(m_queue) /\ item = accepted[Len(file) + 1]
        BY <2>1, <3>1 DEF OrderInv, QueueInOrder, InHand
      <3>3. Len(file) + 1 \in 1..Len(accepted) BY <1>t, <3>2 DEF FileTypeOK
      <3>4. Opened BY <2>1 DEF HeaderInv
      <3>5. item.header <=> Wav /\ Len(file) + 1 = 1 BY <3>2, <3>3, <3>4 DEF HeaderInv
      <3> QED BY <1>t, <3>5
    <2>3. file' # <<>> /\ (Wav' <=> Wav) BY <1>t, <2>1 DEF Wav
    <2>4. m_firstSectionWrite <=> Wav /\ file # <<>> BY <2>1 DEF SizeInv
    <2>5. DataSize'[Len(file')] = d + item.size BY <1>t, <2>1, FileGrows DEF d
    <2>6. file = <<>> => d = 0
      <3>1. DataSize[0] = 0 BY DataSizeIsSum, SumAt
      <3> QED BY <3>1 DEF d
    <2>7. ASSUME Wav, d + item.size < SizeLimit
          PROVE  header' = d + item.size - (IF task' = "header" THEN item.size ELSE 0)
      <3>1. CASE file = <<>>
        <4>1. item.header /\ task' = "test" BY <2>1, <2>2, <2>4, <2>7, <3>1
        <4>2. header' = item.size % SizeLimit BY <2>1, <4>1
        <4> QED BY <1>t, <1>d, <2>6, <2>7, <3>1, <4>1, <4>2
      <3>2. CASE file # <<>>
        <4>1. ~item.header /\ task' = "header" BY <2>1, <2>2, <2>4, <2>7, <3>2
        <4>2. header' = header /\ header = d
          <5>1. d < SizeLimit BY <1>t, <2>7
          <5> QED BY <1>t, <1>h, <2>1, <2>7, <4>1, <5>1
        <4> QED BY <1>t, <4>1, <4>2
      <3> QED BY <3>1, <3>2
    <2>8. HeaderTellsSize'
      <3>1. SUFFICES ASSUME (m_fileType = "WAV")', DataSize'[Len(file')] < SizeLimit
                     PROVE  header' = DataSize'[Len(file')]
                                        - (IF task' = "header" THEN item'.size ELSE 0)
        BY DEF HeaderTellsSize
      <3>2. Wav /\ item' = item BY <2>1, <3>1 DEF Wav
      <3> QED BY <1>t, <2>5, <2>7, <3>1, <3>2
    <2>9. task' = "header" => Wav' /\ ~item'.header BY <2>1, <2>2, <2>3, <2>4
    <2>10. (m_firstSectionWrite' => Wav') /\ (m_firstSectionWrite' <=> Wav' /\ file' # <<>>)
      BY <2>1, <2>3, <2>4
    <2> QED BY <2>8, <2>9, <2>10 DEF SizeInv
  <1>2. ASSUME UNCHANGED <<file, m_fileType>>
        PROVE  d' = d /\ (Wav' <=> Wav) /\ (file' = <<>> <=> file = <<>>)
    BY <1>2, FileStays DEF d, Wav
  <1>3. CASE UpdateWavFile
    <2>1. /\ task = "header" /\ task' = "test" /\ header' = (header + Length(item)) % SizeLimit
          /\ UNCHANGED <<file, m_fileType, fs, m_firstSectionWrite>>
      BY <1>3 DEF UpdateWavFile
    <2>2. Wav /\ Length(item) = item.size BY <1>t, <2>1 DEF SizeInv, Length
    <2>3. d < SizeLimit => header' = d
      <3>1. d < SizeLimit => header + item.size = d BY <1>t, <1>h, <2>1, <2>2
      <3> QED BY <1>t, <1>d, <2>1, <2>2, <3>1
    <2>4. HeaderTellsSize' BY <1>2, <1>t, <2>1, <2>3 DEF HeaderTellsSize, d
    <2> QED BY <1>2, <2>1, <2>4 DEF SizeInv
  <1>4. ASSUME UNCHANGED <<file, m_fileType, header>>, task # "header", task' # "header"
        PROVE  HeaderTellsSize'
    BY <1>2, <1>4, <1>h, <1>t DEF HeaderTellsSize, d, Wav
  <1>5. CASE WriteFails
    <2>1. /\ task = "write" /\ task' = "test" /\ fs' = "failed"
          /\ m_firstSectionWrite' = (m_firstSectionWrite \/ Wav)
          /\ UNCHANGED <<file, m_fileType, header>>
      BY <1>5 DEF WriteFails, Wav
    <2>2. m_firstSectionWrite' => Wav' BY <1>2, <2>1 DEF SizeInv
    <2> QED BY <1>4, <2>1, <2>2 DEF SizeInv
  <1>6. CASE TestRun \/ Pop \/ Empty \/ WriteError \/ Ended
    <2>1. /\ task # "header" /\ task' # "header"
          /\ UNCHANGED <<file, m_fileType, header, fs, m_firstSectionWrite>>
      BY <1>6 DEF TestRun, Pop, Empty, WriteError, Ended
    <2> QED BY <1>2, <1>4, <2>1 DEF SizeInv
  <1>7. CASE Producer \/ Drain \/ Stopper \/ UNCHANGED fileVars
    <2>1. UNCHANGED <<file, m_fileType, header, fs, m_firstSectionWrite, task, item>>
      BY <1>7 DEF Producer, Bring, Accept, Refuse, Push, Drain,
                  Stopper, StopWrite, JoinWriter, fileVars
    <2>2. HeaderTellsSize' BY <1>2, <1>t, <1>h, <2>1 DEF HeaderTellsSize, d, Wav
    <2> QED BY <1>2, <2>1, <2>2 DEF SizeInv
  <1> QED BY <1>1, <1>3, <1>5, <1>6, <1>7 DEF FileNext, Writer

(* The header tells the size of the data, however many buffers are written, *)
(* and is not ahead of them (BuildHeader, updateWavFile).                   *)
THEOREM SizeCorrect == FileSpec => []HeaderTellsSize
BY InitFileType, StepFileType, InitOrder, StepOrder, InitHeader, StepHeader, InitSize, StepSize, PTL
   DEF FileSpec, SizeInv

----------------------------------------------------------------------------
(* The writer as isFileThreadWork shows it, and as a stop leaves it behind. *)
FileWriter ==
    IF ~m_threadWork THEN "stopped" ELSE IF m_hasErrorWrite THEN "failed" ELSE "works"

SeenStep ==
    \/ FileWriter = "works" /\ FileWriter' = "failed"
    \/ FileWriter # "stopped" /\ FileWriter' = "stopped" /\ stopper # "waits"

ThreadInv ==
    /\ m_threadWork <=> task # "ended"
    /\ task \in {"drain", "ended"} \/ ~m_ThreadRun => stopper # "waits"
    /\ stopper = "stopped" => task = "ended"

LEMMA StepThread ==
    ASSUME ThreadInv, [FileNext]_fileVars
    PROVE  ThreadInv' /\ (SeenStep \/ UNCHANGED FileWriter)
  <1> USE DEF opened, production, queue, writing, ThreadInv, SeenStep, FileWriter
  <1>1. CASE Ended BY <1>1 DEF Ended
  <1>2. CASE WriteError BY <1>2 DEF WriteError
  <1>3. CASE TestRun BY <1>3 DEF TestRun
  <1>4. CASE Pop \/ Empty \/ Write \/ WriteFails \/ UpdateWavFile
    <2>1. /\ task \notin {"drain", "ended"} /\ task' \notin {"drain", "ended"}
          /\ UNCHANGED <<m_ThreadRun, m_threadWork, m_hasErrorWrite, stopper>>
      BY <1>4 DEF Pop, Empty, Write, WriteFails, UpdateWavFile
    <2> QED BY <2>1
  <1>5. CASE Producer \/ Drain \/ UNCHANGED fileVars
    <2>1. UNCHANGED <<task, m_ThreadRun, m_threadWork, m_hasErrorWrite, stopper>>
      BY <1>5 DEF Producer, Bring, Accept, Refuse, Push, Drain, fileVars
    <2> QED BY <2>1
  <1>6. CASE StopWrite BY <1>6 DEF StopWrite
  <1>7. CASE JoinWriter BY <1>7 DEF JoinWriter
  <1> QED BY <1>1, <1>2, <1>3, <1>4, <1>5, <1>6, <1>7 DEF FileNext, Writer, Stopper

(* The recording's thread is the lifecycle's writer: it works at first, may *)
(* fail (WriterFails), ends only when it is asked to, and has ended when    *)
(* the stop returns (Halted; StopWrite, IsWork).                            *)
THEOREM WriterAsSeen ==
    FileSpec => /\ FileWriter = "works"
                /\ [](stopper = "stopped" => FileWriter = "stopped")
                /\ [][SeenStep]_FileWriter
  <1>1. FileInit => ThreadInv /\ FileWriter = "works" BY DEF FileInit, ThreadInv, FileWriter
  <1>2. ThreadInv /\ [FileNext]_fileVars => ThreadInv' /\ [SeenStep]_FileWriter BY StepThread
  <1>3. ThreadInv => (stopper = "stopped" => FileWriter = "stopped") BY DEF ThreadInv, FileWriter
  <1> QED BY <1>1, <1>2, <1>3, PTL DEF FileSpec

=============================================================================
