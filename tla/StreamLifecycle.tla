--------------------------- MODULE StreamLifecycle ---------------------------
(****************************************************************************)
(* Starting and stopping the streaming application (main.cpp,               *)
(* StreamingApplication.cpp).  StartServer runs on the web thread,          *)
(* StopServer on a thread of its own for every request, and once more when  *)
(* the oscilloscope's thread notices that the file writer has failed;       *)
(* rp_app_exit stops the last application.  They share s_app and the one    *)
(* oscilloscope without a lock.                                             *)
(*                                                                          *)
(* Abstractions.  An application is a number.  Reads and writes of a        *)
(* pointer or a flag take effect at once; a use of a deleted object or of a *)
(* null pointer, two joins of one thread, and an exception in a destructor  *)
(* set the flag undefined, and nothing more happens.  The device is present *)
(* and its reads succeed; the process exits a second after rp_app_exit.     *)
(****************************************************************************)
EXTENDS Integers

CONSTANTS
    DropFirst,      \* buffers that are dropped after the start
    MaxStarts,      \* bound on the applications built
    MaxStops        \* bound on the stops requested

ASSUME LifecycleAssumption == DropFirst \in Nat /\ MaxStarts \in Nat /\ MaxStops \in Nat

Apps == 1..MaxStarts
Requests == MaxStarts+1..MaxStarts+MaxStops
web == 0
exit == -1
Stoppers == Apps \cup Requests      \* the thread that application a's worker starts is a
Threads == {web, exit} \cup Stoppers

VARIABLES
    s_app, ss_status,                   \* 0 is the null pointer
    built, requested,                   \* applications built, stops requested
    m_isRun, m_OscThread, m_OscThreadRun, freed,    \* of an application
    local, writer, notifyStop,          \* of its manager: a file's, its writer
    worker, dropFirstNBuffer,           \* the step of its thread
    oscilloscope,                       \* whose acquisition runs, 0: none
    pc, object, phase,                  \* of a thread: its step, the object it is in
    overlapped, undefined               \* two starts or stops at a time (history)

pointer == <<s_app, ss_status>>
counters == <<built, requested>>
application == <<m_isRun, m_OscThread, m_OscThreadRun, freed>>
manager == <<local, writer, notifyStop>>
threads == <<pc, object, phase>>
collecting == <<worker, dropFirstNBuffer>>
vars == <<pointer, counters, application, manager, collecting, oscilloscope, threads, overlapped, undefined>>

Init ==
    /\ s_app = 0 /\ ss_status = 0 /\ built = 0 /\ requested = 0
    /\ m_isRun = [a \in Apps |-> FALSE]
    /\ m_OscThread = [a \in Apps |-> "none"]
    /\ m_OscThreadRun = [a \in Apps |-> TRUE]
    /\ freed = [a \in Apps |-> FALSE]
    /\ local = [a \in Apps |-> FALSE]
    /\ writer = [a \in Apps |-> "none"]
    /\ notifyStop = [a \in Apps |-> FALSE]
    /\ worker = [a \in Apps |-> "none"]
    /\ dropFirstNBuffer = [a \in Apps |-> DropFirst]
    /\ oscilloscope = 0
    /\ pc = [t \in Threads |-> "idle"]
    /\ object = [t \in Threads |-> 0]
    /\ phase = [t \in Threads |-> "stop"]
    /\ overlapped = FALSE /\ undefined = FALSE

----------------------------------------------------------------------------
Outside == {"idle", "waiting", "done"}

After(t) == IF t = web THEN "build" ELSE "clear"

(* A step of thread t to step next that changes nothing else, and one that  *)
(* is undefined.                                                            *)
Goes(t, next) == pc' = [pc EXCEPT ![t] = next] /\ UNCHANGED <<overlapped, undefined>>
LeavesObject(t) == object' = [object EXCEPT ![t] = 0] /\ phase' = [phase EXCEPT ![t] = "stop"]
Undefined(t) ==
    /\ undefined' = TRUE
    /\ UNCHANGED <<pointer, counters, application, manager, collecting, oscilloscope, threads, overlapped>>

(* Thread t enters StartServer or StopServer.                               *)
Enter(t) ==
    /\ pc' = [pc EXCEPT ![t] = "test"]
    /\ overlapped' = (overlapped \/ \E u \in Threads \ {t} : pc[u] \notin Outside)
    /\ UNCHANGED <<pointer, counters, application, manager, collecting, oscilloscope, object, phase, undefined>>

(* UpdateParams: SS_START is 1, and the web thread starts a server itself;  *)
(* it is joined before rp_app_exit is called.                               *)
StartRequest ==
    /\ pc[web] = "idle" /\ pc[exit] = "idle" /\ built < MaxStarts
    /\ Enter(web)

ExitRequest ==
    /\ pc[web] = "idle" /\ pc[exit] = "idle"
    /\ Enter(exit)

(* SS_START is 0: StopNonBlocking starts a thread and detaches it.          *)
StopRequest ==
    /\ pc[web] = "idle" /\ pc[exit] = "idle" /\ requested < MaxStops
    /\ requested' = requested + 1
    /\ Goes(MaxStarts + requested + 1, "waiting")
    /\ UNCHANGED <<pointer, built, application, manager, collecting, oscilloscope, object, phase>>

Begin(t) == pc[t] = "waiting" /\ Enter(t)

----------------------------------------------------------------------------
(* StopServer, and the beginning of StartServer.                            *)

Test(t) ==
    /\ pc[t] = "test"
    /\ IF s_app = 0
       THEN Goes(t, IF t = web THEN "build" ELSE "send") /\ UNCHANGED <<object, phase>>
       ELSE /\ object' = [object EXCEPT ![t] = s_app] /\ phase' = [phase EXCEPT ![t] = "stop"]
            /\ Goes(t, "stop")
    /\ UNCHANGED <<pointer, counters, application, manager, collecting, oscilloscope>>

(* Where thread t goes when CStreamingApplication::stop returns: back, or   *)
(* on in the destructor.                                                    *)
Return(t) == IF phase[t] = "stop" THEN "reload" ELSE "free"

(* Mutant of Stop: the thread is not told to stop.                          *)
StopNotTold(t) ==
    LET a == object[t] IN
    /\ pc[t] = "stop"
    /\ \/ freed[a] /\ Undefined(t)
       \/ /\ ~freed[a] /\ ~m_isRun[a] /\ Goes(t, Return(t))
          /\ UNCHANGED <<pointer, counters, application, manager, collecting, oscilloscope, object, phase>>
       \/ /\ ~freed[a] /\ m_isRun[a] /\ Goes(t, "join")
          /\ UNCHANGED <<pointer, counters, application, manager, collecting, oscilloscope, object, phase>>

Stop(t) ==
    LET a == object[t] IN
    /\ pc[t] = "stop"
    /\ \/ freed[a] /\ Undefined(t)
       \/ /\ ~freed[a] /\ ~m_isRun[a] /\ Goes(t, Return(t))
          /\ UNCHANGED <<pointer, counters, application, manager, collecting, oscilloscope, object, phase>>
       \/ /\ ~freed[a] /\ m_isRun[a] /\ Goes(t, "join")
          /\ m_OscThreadRun' = [m_OscThreadRun EXCEPT ![a] = FALSE]
          /\ UNCHANGED <<pointer, counters, m_isRun, m_OscThread, freed, manager, collecting,
                         oscilloscope, object, phase>>

Join(t) ==
    LET a == object[t] IN
    /\ pc[t] = "join"
    /\ \/ /\ \/ freed[a]
             \/ /\ m_OscThread[a] = "runs"
                /\ \E u \in Threads \ {t} : pc[u] = "join" /\ object[u] = a
          /\ Undefined(t)
       \/ /\ ~freed[a] /\ m_OscThread[a] = "runs" /\ worker[a] = "ended"
          /\ m_OscThread' = [m_OscThread EXCEPT ![a] = "joined"]
          /\ Goes(t, "halt")
          /\ UNCHANGED <<pointer, counters, m_isRun, m_OscThreadRun, freed, manager, collecting,
                         oscilloscope, object, phase>>

(* There is no thread to join: an exception that StartServer and StopServer *)
(* catch at their end, and the application stays as it is; from the         *)
(* destructor it ends the process.                                          *)
NotJoinable(t) ==
    /\ pc[t] = "join" /\ ~freed[object[t]] /\ m_OscThread[object[t]] # "runs"

Throw(t) ==
    /\ NotJoinable(t)
    /\ \/ phase[t] = "delete" /\ Undefined(t)
       \/ /\ phase[t] = "stop"
          /\ Goes(t, IF t = web THEN "idle" ELSE "done") /\ LeavesObject(t)
          /\ UNCHANGED <<pointer, counters, application, manager, collecting, oscilloscope>>

(* CStreamingManager::stop joins the file writer, or closes the sockets.    *)
Halted(a) == writer' = [writer EXCEPT ![a] = IF local[a] THEN "stopped" ELSE "none"]

(* Mutant of Halt: the application still counts as running.                 *)
HaltsAgain(t) ==
    LET a == object[t] IN
    /\ pc[t] = "halt"
    /\ \/ freed[a] /\ Undefined(t)
       \/ /\ ~freed[a] /\ Halted(a)
          /\ oscilloscope' = 0
          /\ Goes(t, Return(t))
          /\ UNCHANGED <<pointer, counters, application, local, notifyStop, collecting, object, phase>>

(* Mutant of Halt: the oscilloscope is not stopped.                         *)
HaltsManager(t) ==
    LET a == object[t] IN
    /\ pc[t] = "halt"
    /\ \/ freed[a] /\ Undefined(t)
       \/ /\ ~freed[a] /\ Halted(a)
          /\ m_isRun' = [m_isRun EXCEPT ![a] = FALSE]
          /\ Goes(t, Return(t))
          /\ UNCHANGED <<pointer, counters, m_OscThread, m_OscThreadRun, freed, local, notifyStop,
                         collecting, oscilloscope, object, phase>>

Halt(t) ==
    LET a == object[t] IN
    /\ pc[t] = "halt"
    /\ \/ freed[a] /\ Undefined(t)
       \/ /\ ~freed[a] /\ Halted(a)
          /\ oscilloscope' = 0
          /\ m_isRun' = [m_isRun EXCEPT ![a] = FALSE]
          /\ Goes(t, Return(t))
          /\ UNCHANGED <<pointer, counters, m_OscThread, m_OscThreadRun, freed, local, notifyStop,
                         collecting, object, phase>>

(* delete s_app, which may be another one by now: the destructor stops it.  *)
Reload(t) ==
    /\ pc[t] = "reload"
    /\ IF s_app = 0
       THEN Goes(t, After(t)) /\ LeavesObject(t)
       ELSE /\ object' = [object EXCEPT ![t] = s_app] /\ phase' = [phase EXCEPT ![t] = "delete"]
            /\ Goes(t, "stop")
    /\ UNCHANGED <<pointer, counters, application, manager, collecting, oscilloscope>>

(* A thread that can be joined may not be destroyed.  What else there was   *)
(* in the object is forgotten.                                              *)
Free(t) ==
    LET a == object[t] IN
    /\ pc[t] = "free"
    /\ \/ (freed[a] \/ m_OscThread[a] = "runs") /\ Undefined(t)
       \/ /\ ~freed[a] /\ m_OscThread[a] # "runs"
          /\ freed' = [freed EXCEPT ![a] = TRUE]
          /\ Halted(a)
          /\ m_isRun' = [m_isRun EXCEPT ![a] = FALSE]
          /\ m_OscThread' = [m_OscThread EXCEPT ![a] = "none"]
          /\ m_OscThreadRun' = [m_OscThreadRun EXCEPT ![a] = TRUE]
          /\ local' = [local EXCEPT ![a] = FALSE] /\ notifyStop' = [notifyStop EXCEPT ![a] = FALSE]
          /\ Goes(t, After(t)) /\ LeavesObject(t)
          /\ UNCHANGED <<pointer, counters, collecting, oscilloscope>>

Clear(t) ==
    /\ pc[t] = "clear"
    /\ s_app' = 0
    /\ Goes(t, "send")
    /\ UNCHANGED <<ss_status, counters, application, manager, collecting, oscilloscope, object, phase>>

Send(t) ==
    /\ pc[t] = "send"
    /\ ss_status' = IF t \in Apps THEN 2 ELSE 0
    /\ Goes(t, "done")
    /\ UNCHANGED <<s_app, counters, application, manager, collecting, oscilloscope, object, phase>>

----------------------------------------------------------------------------
(* The rest of StartServer.                                                 *)

Build ==
    /\ pc[web] = "build"
    /\ built' = built + 1 /\ s_app' = built + 1
    /\ \E file \in BOOLEAN :
          /\ local' = [local EXCEPT ![built + 1] = file]
          /\ notifyStop' = [notifyStop EXCEPT ![built + 1] = file]
    /\ Goes(web, "announce")
    /\ UNCHANGED <<ss_status, requested, application, writer, collecting, oscilloscope, object, phase>>

Announce ==
    /\ pc[web] = "announce"
    /\ ss_status' = 1
    /\ Goes(web, "run")
    /\ UNCHANGED <<s_app, counters, application, manager, collecting, oscilloscope, object, phase>>

(* runNonBlock of the application that s_app points to now.                 *)
Run ==
    /\ pc[web] = "run"
    /\ \/ (s_app = 0 \/ (s_app \in Apps /\ freed[s_app])) /\ Undefined(web)
       \/ /\ s_app \in Apps /\ ~freed[s_app]
          /\ object' = [object EXCEPT ![web] = s_app]
          /\ m_isRun' = [m_isRun EXCEPT ![s_app] = TRUE]
          /\ Goes(web, "open")
          /\ UNCHANGED <<pointer, counters, m_OscThread, m_OscThreadRun, freed, manager, collecting,
                         oscilloscope, phase>>

(* Mutant of Open: the writer is not started.                               *)
OpenOnly ==
    /\ pc[web] = "open"
    /\ \/ freed[object[web]] /\ Undefined(web)
       \/ /\ ~freed[object[web]] /\ Goes(web, "thread")
          /\ UNCHANGED <<pointer, counters, application, manager, collecting, oscilloscope, object, phase>>

(* CStreamingManager::run starts the file writer, or binds the port, which  *)
(* may be in use: runNonBlock catches the exception and returns.            *)
Open ==
    LET a == object[web] IN
    /\ pc[web] = "open"
    /\ \/ freed[a] /\ Undefined(web)
       \/ /\ ~freed[a] /\ local[a]
          /\ writer' = [writer EXCEPT ![a] = "works"]
          /\ Goes(web, "thread")
          /\ UNCHANGED <<pointer, counters, application, local, notifyStop, collecting, oscilloscope,
                         object, phase>>
       \/ /\ ~freed[a] /\ ~local[a]
          /\ \/ Goes(web, "thread") /\ UNCHANGED <<object, phase>>
             \/ Goes(web, "idle") /\ LeavesObject(web)
          /\ UNCHANGED <<pointer, counters, application, manager, collecting, oscilloscope>>

Launch ==
    LET a == object[web] IN
    /\ pc[web] = "thread"
    /\ \/ (freed[a] \/ m_OscThread[a] = "runs") /\ Undefined(web)
       \/ /\ ~freed[a] /\ m_OscThread[a] # "runs"
          /\ m_OscThread' = [m_OscThread EXCEPT ![a] = "runs"]
          /\ worker' = [worker EXCEPT ![a] = "sleep"]
          /\ Goes(web, "idle") /\ LeavesObject(web)
          /\ UNCHANGED <<pointer, counters, m_isRun, m_OscThreadRun, freed, manager,
                         dropFirstNBuffer, oscilloscope>>

----------------------------------------------------------------------------
(* The oscilloscope's thread (oscWorker) and the file writer.               *)

Prepare(a) ==
    /\ worker[a] = "sleep" /\ ~freed[a]
    /\ oscilloscope' = a
    /\ worker' = [worker EXCEPT ![a] = "loop"]
    /\ UNCHANGED <<pointer, counters, application, manager, dropFirstNBuffer, threads,
                   overlapped, undefined>>

Loop(a) ==
    /\ worker[a] = "loop" /\ ~freed[a]
    /\ worker' = [worker EXCEPT ![a] = IF m_OscThreadRun[a] THEN "next" ELSE "ended"]
    /\ m_OscThreadRun' = [m_OscThreadRun EXCEPT ![a] = TRUE]
    /\ dropFirstNBuffer' = IF m_OscThreadRun[a] THEN dropFirstNBuffer
                           ELSE [dropFirstNBuffer EXCEPT ![a] = DropFirst]
    /\ UNCHANGED <<pointer, counters, m_isRun, m_OscThread, freed, manager, oscilloscope, threads,
                   overlapped, undefined>>

(* Mutant of NextBuffer: the drops are not counted to their end.            *)
DropBuffer(a) ==
    /\ worker[a] = "next" /\ ~freed[a] /\ oscilloscope # 0
    /\ worker' = [worker EXCEPT ![a] = IF dropFirstNBuffer[a] > 0 THEN "loop" ELSE "passed"]
    /\ dropFirstNBuffer' = [dropFirstNBuffer EXCEPT ![a] = @ - 1]
    /\ UNCHANGED <<pointer, counters, application, manager, oscilloscope, threads, overlapped, undefined>>

(* The read of the device returns when the oscilloscope has filled a        *)
(* buffer; the first ones are dropped.                                      *)
NextBuffer(a) ==
    /\ worker[a] = "next" /\ ~freed[a] /\ oscilloscope # 0
    /\ IF dropFirstNBuffer[a] > 0
       THEN /\ worker' = [worker EXCEPT ![a] = "loop"]
            /\ dropFirstNBuffer' = [dropFirstNBuffer EXCEPT ![a] = @ - 1]
       ELSE worker' = [worker EXCEPT ![a] = "passed"] /\ UNCHANGED dropFirstNBuffer
    /\ UNCHANGED <<pointer, counters, application, manager, oscilloscope, threads, overlapped, undefined>>

(* Mutant of isFileThreadWork: an error of the writer is not looked at.     *)
isFileThreadThere(a) == local[a] /\ writer[a] \in {"works", "failed"}

isFileThreadWork(a) == local[a] /\ writer[a] = "works"

(* notifyStop is StopNonBlocking(2).                                        *)
Check(a) ==
    /\ worker[a] = "passed" /\ ~freed[a]
    /\ worker' = [worker EXCEPT ![a] = "loop"]
    /\ IF ~isFileThreadWork(a) /\ notifyStop[a]
       THEN pc' = [pc EXCEPT ![a] = "waiting"] /\ notifyStop' = [notifyStop EXCEPT ![a] = FALSE]
       ELSE UNCHANGED <<pc, notifyStop>>
    /\ UNCHANGED <<pointer, counters, application, local, writer, dropFirstNBuffer, oscilloscope,
                   object, phase, overlapped, undefined>>

(* The application was deleted under its thread.                            *)
Orphan(a) ==
    /\ worker[a] \in {"sleep", "loop", "next", "passed"} /\ freed[a]
    /\ Undefined(a)

WriterFails(a) ==
    /\ writer[a] = "works"
    /\ writer' = [writer EXCEPT ![a] = "failed"]
    /\ UNCHANGED <<pointer, counters, application, local, notifyStop, collecting, oscilloscope, threads,
                   overlapped, undefined>>

----------------------------------------------------------------------------
Request == StartRequest \/ StopRequest \/ ExitRequest
StopServer(t) ==
    Test(t) \/ Stop(t) \/ Join(t) \/ Throw(t) \/ Halt(t) \/ Reload(t) \/ Free(t)
      \/ (t # web /\ (Clear(t) \/ Send(t)))
StartServer == StopServer(web) \/ Build \/ Announce \/ Run \/ Open \/ Launch
oscWorker(a) == Prepare(a) \/ Loop(a) \/ NextBuffer(a) \/ Check(a) \/ Orphan(a)

Next ==
    /\ ~undefined
    /\ \/ Request \/ StartServer
       \/ \E t \in Stoppers : Begin(t)
       \/ \E t \in Stoppers \cup {exit} : StopServer(t)
       \/ \E a \in Apps : oscWorker(a) \/ WriterFails(a)

(* Threads that have something to do go on; no request has to come, and no  *)
(* disk has to fill.                                                        *)
Fairness ==
    /\ WF_vars(~undefined /\ StartServer)
    /\ \A t \in Stoppers \cup {exit} : WF_vars(~undefined /\ (Begin(t) \/ StopServer(t)))
    /\ \A a \in Apps : WF_vars(~undefined /\ oscWorker(a))

Spec == Init /\ [][Next]_vars /\ Fairness

----------------------------------------------------------------------------
Steps == Outside \cup {"test", "stop", "join", "halt", "reload", "free", "clear", "send",
                       "build", "announce", "run", "open", "thread"}

TypeOK ==
    /\ s_app \in Apps \cup {0} /\ ss_status \in 0..2
    /\ built \in 0..MaxStarts /\ requested \in 0..MaxStops
    /\ m_isRun \in [Apps -> BOOLEAN] /\ m_OscThread \in [Apps -> {"none", "runs", "joined"}]
    /\ m_OscThreadRun \in [Apps -> BOOLEAN] /\ freed \in [Apps -> BOOLEAN]
    /\ local \in [Apps -> BOOLEAN] /\ notifyStop \in [Apps -> BOOLEAN]
    /\ writer \in [Apps -> {"none", "works", "failed", "stopped"}]
    /\ worker \in [Apps -> {"none", "sleep", "loop", "next", "passed", "ended"}]
    /\ dropFirstNBuffer \in [Apps -> 0..DropFirst]
    /\ oscilloscope \in Apps \cup {0}
    /\ pc \in [Threads -> Steps] /\ object \in [Threads -> Apps \cup {0}]
    /\ phase \in [Threads -> {"stop", "delete"}]
    /\ overlapped \in BOOLEAN /\ undefined \in BOOLEAN

(* Nothing is used after it was deleted, deleted or joined twice, or used   *)
(* before it exists, unless a start or a stop overlaps another one          *)
(* (StartServer, StopServer, the destructors).                              *)
DefinedAlone == undefined => overlapped

(* A stop with status 2 comes from a file writer that failed, never from    *)
(* one that was not there yet: "MUST BE INIT FIRST" in runNonBlock.         *)
StopHasReason == \A a \in Apps : pc[a] # "idle" => writer[a] \in {"failed", "stopped"}

(* The port could not be bound: nothing runs, and nothing can be joined.    *)
FailedStart == s_app \in Apps /\ m_isRun[s_app] /\ m_OscThread[s_app] = "none" /\ pc[web] = "idle"

(* When StopServer returns, nothing runs any more, unless it was not alone, *)
(* or the start had failed.                                                 *)
StopStops ==
    [][\A t \in Stoppers : pc[t] # "done" /\ pc'[t] = "done" /\ ~overlapped' /\ ~FailedStart =>
          /\ s_app' = 0 /\ oscilloscope' = 0
          /\ \A a \in Apps : worker'[a] \in {"none", "ended"} /\ writer'[a] \notin {"works", "failed"}]_vars

(* Why these hold.  Whatever overlaps: s_app is the newest application or   *)
(* null, threads are at steps of their own, and an application whose thread *)
(* was not started yet has a writer no stop was asked for.                  *)
WebSteps == {"idle", "test", "stop", "join", "halt", "reload", "free", "build", "announce", "run",
             "open", "thread"}
StopperSteps == Outside \cup {"test", "stop", "join", "halt", "reload", "free", "clear", "send"}
Starting == {"announce", "run", "open", "thread"}
InObject == {"stop", "join", "halt", "free", "open", "thread"}

StepsInv ==
    /\ pc[web] \in WebSteps /\ \A t \in Threads \ {web} : pc[t] \in StopperSteps
    /\ \A n \in Requests : n > MaxStarts + requested => pc[n] = "idle"
    /\ s_app \in {0, built}
    /\ pc[web] \notin Starting \cup {"idle"} => built < MaxStarts
    /\ pc[web] \in Starting => built > 0
    /\ pc[web] \in {"open", "thread"} => object[web] = built
    /\ \A t \in Threads : pc[t] \in InObject => object[t] \in 1..built

Unborn(a) == a > built \/ (a = built /\ pc[web] \in Starting)

ReasonInv ==
    \A a \in Apps :
        /\ Unborn(a) => worker[a] = "none" /\ m_OscThread[a] = "none"
        /\ a > built => ~m_isRun[a] /\ ~freed[a] /\ writer[a] = "none"
        /\ notifyStop[a] => local[a] /\ pc[a] = "idle"
        /\ worker[a] # "none" \/ (pc[web] = "thread" /\ a = built) => ~local[a] \/ writer[a] # "none"
        /\ pc[a] # "idle" => worker[a] # "none" /\ (local[a] \/ freed[a])

(* A start or a stop that is alone is in the application s_app points to,   *)
(* which is there until Free, and only that one runs.                       *)
Alone == \A t, u \in Threads : pc[t] \notin Outside /\ pc[u] \notin Outside => t = u

There == s_app # 0 /\ ~freed[s_app]

Inside(t) ==
    /\ pc[t] \in InObject => object[t] = s_app
    /\ pc[t] \in InObject \cup Starting \cup {"reload"} => There
    /\ pc[t] \in {"build", "clear", "send"} => ~There
    /\ pc[t] = "send" => s_app = 0
    /\ pc[t] \in {"announce", "run", "reload", "free"} => ~m_isRun[s_app]
    /\ pc[t] = "stop" /\ phase[t] = "delete" => ~m_isRun[s_app]
    /\ pc[t] \in {"join", "halt", "open", "thread"} => m_isRun[s_app]
    /\ pc[t] \in {"join", "halt"} => phase[t] = "stop"
    /\ pc[t] = "halt" => m_OscThread[s_app] = "joined"

Running(a) ==
    /\ m_isRun[a] \/ oscilloscope = a => a = s_app /\ There /\ m_isRun[a]
    /\ m_OscThread[a] = "runs" => m_isRun[a]
    /\ m_isRun[a] /\ m_OscThread[a] = "joined" => \E t \in Threads : pc[t] = "halt"
    /\ worker[a] \notin {"none", "ended"} => m_OscThread[a] = "runs"
    /\ writer[a] \in {"works", "failed"} => m_isRun[a] /\ local[a]

Orderly ==
    /\ ~undefined /\ Alone
    /\ There \/ s_app = 0 \/ \E t \in Threads : pc[t] \in {"build", "clear"}
    /\ \A t \in Threads : Inside(t)
    /\ \A a \in Apps : Running(a)

AloneInv == ~overlapped => Orderly

(* Every requested stop returns, although it waits for a thread that waits  *)
(* for the oscilloscope, unless it was not alone (stop, next).              *)
StopEnds == \A t \in Stoppers : pc[t] = "waiting" ~> (pc[t] = "done" \/ overlapped)

(* A file writer that fails is stopped by and by (oscWorker, notifyStop).   *)
FailureStops == \A a \in Apps : writer[a] = "failed" ~> (writer[a] = "stopped" \/ overlapped)

=============================================================================
