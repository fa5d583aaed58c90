----------------------------- MODULE AppServer -----------------------------
(****************************************************************************)
(* Applications of the web interface: nginx loads one at a time             *)
(* (rp_bazaar_cmd.c, rp_bazaar_app.c), sets its parameters by POST requests *)
(* (rp_data_cmd.c), and runs the websocket server (ws_server.cpp,           *)
(* rp_websocket_server.cpp), a thread of its own that sends the             *)
(* application's data to the connected clients by two timers.               *)
(*                                                                          *)
(* Abstractions.  A request is handled without a pause except where it      *)
(* waits for the server's thread and between the head and the body of a     *)
(* POST.  Descriptors, FPGA images and the content of messages and data are *)
(* left out; an application's function that gives data gives some, and     *)
(* what is sent to a connected client arrives.  The                         *)
(* death of the process ends everything; nginx's master starts another.     *)
(****************************************************************************)
EXTENDS Integers

CONSTANTS
    Apps,           \* the installed applications
    WsApps,         \* those that have the functions of the websocket interface
    Hanging,        \* those whose functions may never return
    Clients,        \* of the websocket server
    Posts,          \* POST requests under way at a time
    NoApp,          \* the null pointer
    MaxMessages     \* bound on the messages of the clients

ASSUME AppServerAssumption ==
    WsApps \subseteq Apps /\ Hanging \subseteq Apps /\ NoApp \notin Apps /\ MaxMessages \in Nat

Kinds == {"signals", "params"}

VARIABLES
    up,                         \* the process runs
    pc, after, app_name,        \* nginx's step, the one after stop(), what to start
    handle, initialized,        \* of rp_module_ctx.app; handle is its module's application
    posts,                      \* POST requests whose body has not come
    s,                          \* the application whose functions the server calls
    m_OnClosed, m_connections,  \* of the server
    closing,                    \* connections that are ending, on_close still to come
    armed, ready,               \* the timers that run; expired ones whose handlers wait
    thread, handler,            \* the server's thread: its step and what it handles
    stopped, exiting,           \* endpoint stopped; a thread sleeps and will exit
    messages                    \* messages the server has had

nginx == <<pc, after, app_name>>
app == <<handle, initialized>>
endpoint == <<s, m_OnClosed, stopped, messages>>
conns == <<m_connections, closing>>
server == <<endpoint, conns, armed, ready>>
loop == <<thread, handler>>
vars == <<up, nginx, app, posts, server, loop, exiting>>

Init ==
    /\ up = TRUE
    /\ pc = "idle" /\ after = "idle" /\ app_name = NoApp
    /\ handle = NoApp /\ initialized = FALSE
    /\ posts = {}
    /\ s = NoApp /\ m_OnClosed = FALSE /\ m_connections = {} /\ closing = {}
    /\ armed = [k \in Kinds |-> FALSE] /\ ready = [k \in Kinds |-> 0]
    /\ thread = "none" /\ handler = "none"
    /\ stopped = FALSE /\ exiting = FALSE
    /\ messages = 0

(* The process ends, by exit(-1) or by a signal; no exit function is called.*)
Die == up' = FALSE

----------------------------------------------------------------------------
(* nginx's thread.                                                          *)

rp_bazaar_start(a) ==
    /\ pc = "idle"
    /\ app_name' = a
    /\ IF handle # NoApp THEN pc' = "stop" /\ after' = "unload"
                         ELSE pc' = "load" /\ UNCHANGED after
    /\ UNCHANGED <<up, app, posts, server, loop, exiting>>

rp_bazaar_stop ==
    /\ pc = "idle" /\ handle # NoApp
    /\ app_name' = NoApp /\ pc' = "stop" /\ after' = "unload"
    /\ UNCHANGED <<up, app, posts, server, loop, exiting>>

(* The list tries to load each application in a variable of its own, and    *)
(* unloading that stops the one server there is.                            *)
rp_bazaar_apps ==
    /\ pc = "idle"
    /\ pc' = "stop" /\ after' = "idle"
    /\ UNCHANGED <<up, app_name, app, posts, server, loop, exiting>>

NoServer ==
    /\ pc = "stop" /\ s = NoApp
    /\ pc' = after /\ after' = "idle"
    /\ UNCHANGED <<up, app_name, app, posts, server, loop, exiting>>

(* Mutant of StopServer: no thread that exits.                              *)
StopServerWaits ==
    /\ pc = "stop" /\ s # NoApp
    /\ pc' = "join"
    /\ m_OnClosed' = TRUE /\ stopped' = TRUE
    /\ armed' = [k \in Kinds |-> FALSE]
    /\ m_connections' = {} /\ closing' = {}
    /\ UNCHANGED <<up, exiting, after, app_name, app, posts, s, messages, ready, loop>>

(* stop() up to the join.  stop_listening throws when the thread does not   *)
(* listen yet, close() when the connection is ending already, and neither   *)
(* is caught; the walk through the connections races the thread that is at  *)
(* them.  Each of these ends the process.                                   *)
StopServer ==
    /\ pc = "stop" /\ s # NoApp
    /\ pc' = "join"
    /\ exiting' = TRUE
    /\ m_OnClosed' = TRUE /\ stopped' = TRUE
    /\ armed' = [k \in Kinds |-> FALSE]
    /\ m_connections' = {} /\ closing' = {}
    /\ \/ thread # "starting" /\ closing = {} /\ UNCHANGED up
       \/ (thread \in {"starting", "app"} \/ closing # {}) /\ Die
    /\ UNCHANGED <<after, app_name, app, posts, s, messages, ready, loop>>

(* What is left when the server has been deleted.                           *)
Deleted ==
    /\ s' = NoApp /\ m_OnClosed' = FALSE /\ stopped' = FALSE /\ messages' = 0
    /\ m_connections' = {} /\ closing' = {}
    /\ armed' = [k \in Kinds |-> FALSE] /\ ready' = [k \in Kinds |-> 0]

(* Mutant of Joined: the server is deleted while its thread runs.           *)
JoinedEarly ==
    /\ pc = "join"
    /\ pc' = after /\ after' = "idle"
    /\ Deleted
    /\ UNCHANGED <<up, app_name, app, posts, loop, exiting>>

Joined ==
    /\ pc = "join" /\ thread = "ended"
    /\ pc' = after /\ after' = "idle"
    /\ Deleted /\ thread' = "none"
    /\ UNCHANGED <<up, app_name, app, posts, handler, exiting>>

(* The application's exit function and dlclose.                             *)
Unload ==
    /\ pc = "unload"
    /\ handle' = NoApp /\ initialized' = FALSE
    /\ pc' = IF app_name = NoApp THEN "idle" ELSE "load"
    /\ UNCHANGED <<up, after, app_name, posts, server, loop, exiting>>

(* The module does not load, or its init function fails: it is unloaded,    *)
(* and no server is there to stop.                                          *)
LoadFails ==
    /\ pc = "load"
    /\ pc' = "idle" /\ app_name' = NoApp
    /\ UNCHANGED <<up, after, app, posts, server, loop, exiting>>

LoadModule ==
    /\ pc = "load"
    /\ handle' = app_name /\ initialized' = TRUE
    /\ pc' = IF app_name \in WsApps THEN "start" ELSE "idle"
    /\ app_name' = NoApp
    /\ UNCHANGED <<up, after, posts, server, loop, exiting>>

(* A new server and its thread.  The constructor leaves m_OnClosed as it    *)
(* finds it.                                                                *)
StartServer ==
    /\ pc = "start"
    /\ s' = handle
    /\ m_OnClosed' \in BOOLEAN
    /\ thread' = "starting"
    /\ pc' = "signals"
    /\ UNCHANGED <<up, after, app_name, app, posts, messages, conns, armed, ready, stopped,
                   handler, exiting>>

(* start() sets both timers, while the thread may already run.              *)
FirstTimer(k) ==
    /\ pc = k
    /\ armed' = [armed EXCEPT ![k] = TRUE]
    /\ pc' = IF k = "signals" THEN "params" ELSE "idle"
    /\ UNCHANGED <<up, after, app_name, app, posts, endpoint, conns, ready, loop, exiting>>

(* A POST is answered in the name of the application it finds; nginx reads  *)
(* its body later.                                                          *)
PostHead(p) ==
    /\ pc = "idle" /\ handle # NoApp /\ p \notin posts
    /\ posts' = posts \cup {p}
    /\ UNCHANGED <<up, nginx, app, server, loop, exiting>>

(* The body is there: set_params_func is called, whatever is loaded by now. *)
PostBody(p) ==
    /\ pc = "idle" /\ p \in posts
    /\ posts' = posts \ {p}
    /\ IF handle = NoApp THEN Die ELSE UNCHANGED up
    /\ UNCHANGED <<nginx, app, server, loop, exiting>>

----------------------------------------------------------------------------
(* The server's thread.  A stopped endpoint starts no further handler.      *)
Ready == thread = "loop" /\ ~stopped

(* An address that cannot be bound throws where nothing is caught.          *)
Listen ==
    /\ thread = "starting"
    /\ \/ thread' = "loop" /\ UNCHANGED up
       \/ Die /\ UNCHANGED thread
    /\ UNCHANGED <<nginx, app, posts, server, handler, exiting>>

on_open(c) ==
    /\ Ready /\ c \notin m_connections
    /\ m_connections' = m_connections \cup {c}
    /\ UNCHANGED <<up, nginx, app, posts, endpoint, closing, armed, ready, loop, exiting>>

(* The library has read that a client closes, or lost it; the handler of    *)
(* that comes later.                                                        *)
Closes(c) ==
    /\ Ready /\ c \in m_connections \ closing
    /\ closing' = closing \cup {c}
    /\ UNCHANGED <<up, nginx, app, posts, endpoint, m_connections, armed, ready, loop, exiting>>

on_close(c) ==
    /\ Ready /\ c \in closing
    /\ m_connections' = m_connections \ {c} /\ closing' = closing \ {c}
    /\ IF m_OnClosed THEN UNCHANGED up ELSE Die
    /\ UNCHANGED <<nginx, app, posts, endpoint, armed, ready, loop, exiting>>

(* set_signal_timer, set_param_timer: a timer that runs is cancelled and    *)
(* set again; one that has expired is not.                                  *)
SetTimer(k) == armed' = [armed EXCEPT ![k] = TRUE]

(* A message sets the timer of its kind before the application has it; one  *)
(* that cannot be parsed throws what the thread does not catch.             *)
on_message(c, k) ==
    /\ Ready /\ c \in m_connections \ closing /\ messages < MaxMessages
    /\ messages' = messages + 1
    /\ \/ SetTimer(k) /\ thread' = "app" /\ handler' = "message" /\ UNCHANGED up
       \/ Die /\ UNCHANGED <<armed, loop>>
    /\ UNCHANGED <<nginx, app, posts, s, m_OnClosed, stopped, conns, ready, exiting>>

Expire(k) ==
    /\ s # NoApp /\ ~stopped /\ armed[k]
    /\ armed' = [armed EXCEPT ![k] = FALSE]
    /\ ready' = [ready EXCEPT ![k] = @ + 1]
    /\ UNCHANGED <<up, nginx, app, posts, endpoint, conns, loop, exiting>>

(* Mutant of OnTimer: a timer's handler runs before it has expired.         *)
OnTimerEarly(k) ==
    /\ Ready
    /\ ready' = [ready EXCEPT ![k] = @ - 1]
    /\ thread' = "app" /\ handler' = k
    /\ UNCHANGED <<up, nginx, app, posts, endpoint, conns, armed, exiting>>

(* on_signal_timer, on_param_timer, up to the call of the application.      *)
OnTimer(k) ==
    /\ Ready /\ ready[k] > 0
    /\ ready' = [ready EXCEPT ![k] = @ - 1]
    /\ thread' = "app" /\ handler' = k
    /\ UNCHANGED <<up, nginx, app, posts, endpoint, conns, armed, exiting>>

(* Mutant of Sent: the handler does not set its timer for the next check.   *)
SentOnce ==
    /\ thread = "app" /\ handler \in Kinds /\ closing = {}
    /\ thread' = "loop" /\ handler' = "none"
    /\ UNCHANGED <<up, nginx, app, posts, server, exiting>>

(* The application's function returns: every client is sent the data.       *)
Sent ==
    /\ thread = "app" /\ handler \in Kinds /\ closing = {}
    /\ SetTimer(handler)
    /\ thread' = "loop" /\ handler' = "none"
    /\ UNCHANGED <<up, nginx, app, posts, endpoint, conns, ready, exiting>>

(* Sending to a connection that is ending throws, when some of the others   *)
(* may have had the data: run() catches it and ends, the process goes on.   *)
SendThrows ==
    /\ thread = "app" /\ handler \in Kinds /\ closing # {}
    /\ thread' = "ended" /\ handler' = "none"
    /\ UNCHANGED <<up, nginx, app, posts, server, exiting>>

MessageSet ==
    /\ thread = "app" /\ handler = "message"
    /\ thread' = "loop" /\ handler' = "none"
    /\ UNCHANGED <<up, nginx, app, posts, server, exiting>>

EndLoop ==
    /\ thread = "loop" /\ stopped
    /\ thread' = "ended"
    /\ UNCHANGED <<up, nginx, app, posts, server, handler, exiting>>

(* The thread of stop() wakes a second later, whatever runs by then.        *)
ExitThread ==
    /\ exiting
    /\ Die
    /\ UNCHANGED <<nginx, app, posts, server, loop, exiting>>

----------------------------------------------------------------------------
(* Outside the process: nginx's master.                                     *)

Respawn ==
    /\ ~up
    /\ up' = TRUE
    /\ pc' = "idle" /\ after' = "idle" /\ app_name' = NoApp
    /\ handle' = NoApp /\ initialized' = FALSE
    /\ posts' = {}
    /\ Deleted
    /\ thread' = "none" /\ handler' = "none" /\ exiting' = FALSE

Unloading == NoServer \/ StopServer \/ Joined \/ Unload
Starting == LoadFails \/ LoadModule \/ StartServer \/ \E k \in Kinds : FirstTimer(k)
Returns == Sent \/ SendThrows \/ MessageSet

Worker ==
    \/ Unloading \/ Starting \/ Returns
    \/ rp_bazaar_stop \/ rp_bazaar_apps \/ \E a \in Apps : rp_bazaar_start(a)
    \/ \E p \in Posts : PostHead(p) \/ PostBody(p)
    \/ Listen \/ EndLoop \/ ExitThread
    \/ \E c \in Clients : on_open(c) \/ Closes(c) \/ on_close(c) \/ \E k \in Kinds : on_message(c, k)
    \/ \E k \in Kinds : Expire(k) \/ OnTimer(k)

Next == (up /\ Worker) \/ Respawn

(* A step of a thread that has one is taken; the loop's handlers are taken  *)
(* in turn, so that one of a timer is not passed over for ever; functions   *)
(* of the applications that do not hang return.                             *)
Fairness ==
    /\ WF_vars(up /\ Unloading) /\ WF_vars(up /\ Starting)
    /\ WF_vars(up /\ Listen) /\ WF_vars(up /\ EndLoop) /\ WF_vars(up /\ ExitThread)
    /\ WF_vars(up /\ s \notin Hanging /\ Returns)
    /\ \A k \in Kinds : WF_vars(up /\ Expire(k)) /\ SF_vars(up /\ OnTimer(k))
    /\ WF_vars(Respawn)

Spec == Init /\ [][Next]_vars /\ Fairness

----------------------------------------------------------------------------
(* The types of the variables.                                              *)
TypeOK ==
    /\ up \in BOOLEAN /\ initialized \in BOOLEAN
    /\ pc \in {"idle", "stop", "join", "unload", "load", "start"} \cup Kinds
    /\ after \in {"idle", "unload"}
    /\ {app_name, handle, s} \subseteq Apps \cup {NoApp}
    /\ posts \subseteq Posts
    /\ {m_OnClosed, stopped, exiting} \subseteq BOOLEAN
    /\ m_connections \subseteq Clients /\ closing \subseteq m_connections
    /\ armed \in [Kinds -> BOOLEAN] /\ ready \in [Kinds -> Nat]
    /\ thread \in {"none", "starting", "loop", "app", "ended"}
    /\ handler \in Kinds \cup {"none", "message"}
    /\ messages \in 0..MaxMessages

(* While the server's thread is in a function of an application, that       *)
(* application is loaded and initialised: nginx neither ends nor unmaps it  *)
(* under the thread.                                                        *)
CalledAppIsUp == thread = "app" => (s = handle /\ handle # NoApp /\ initialized)

(* The loop has ended although nobody has stopped it, because a connection  *)
(* was ending when it was sent data (SendThrows).                           *)
LoopFailed == thread = "ended" /\ ~stopped /\ closing # {}

(* A client is sent data of a kind.                                         *)
Delivers(c, k) == Sent /\ handler = k /\ c \in m_connections

(* A client gets signals and parameters again and again, as long as it is   *)
(* connected to an application whose functions return, whatever the other   *)
(* clients do, but for one that ends while the data are sent: then nobody   *)
(* gets any more, although process and application go on.                   *)
DataFlows ==
    \A c \in Clients, k \in Kinds :
        \/ []<><<Delivers(c, k)>>_vars
        \/ []<>(c \notin m_connections \/ s \in Hanging \/ LoopFailed)

(* Stopping the server ends, even when the application's function the       *)
(* thread is in never returns: the process is then ended.                   *)
StopEnds == (pc = "join") ~> (pc # "join")

----------------------------------------------------------------------------
(* Why it holds.  A server is only there between the load of its           *)
(* application and the join of its thread.                                   *)
ServerInv ==
    /\ s # NoApp => s = handle /\ initialized /\ pc \notin {"unload", "load", "start"}
    /\ thread # "none" => s # NoApp
    /\ pc = "start" => handle # NoApp /\ initialized

=============================================================================
