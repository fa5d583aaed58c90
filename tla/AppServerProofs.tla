-------------------------- MODULE AppServerProofs --------------------------
(****************************************************************************)
(* What holds of the web server for any applications, clients, requests and *)
(* messages: nginx's thread takes no application away from under the        *)
(* websocket server's thread (CalledCorrect).                               *)
(****************************************************************************)
EXTENDS AppServer, TLAPS

(* What is left after the server was deleted has its types.                 *)
LEMMA DeletedType ==
    ASSUME Deleted
    PROVE  /\ s' = NoApp /\ {m_OnClosed', stopped'} \subseteq BOOLEAN /\ messages' \in 0..MaxMessages
           /\ m_connections' = {} /\ closing' = {}
           /\ armed' \in [Kinds -> BOOLEAN] /\ ready' \in [Kinds -> Nat]
  <1>1. s' = NoApp /\ m_OnClosed' \in BOOLEAN /\ stopped' \in BOOLEAN /\ m_connections' = {} /\ closing' = {}
    BY DEF Deleted
  <1>2. messages' \in 0..MaxMessages
    BY AppServerAssumption DEF Deleted
  <1>3. armed' \in [Kinds -> BOOLEAN] /\ ready' \in [Kinds -> Nat]
    BY DEF Deleted
  <1> QED BY <1>1, <1>2, <1>3

(* Unloading, and starting a server, keep the types.                        *)
LEMMA NginxType ==
    ASSUME TypeOK, Unloading \/ Starting
    PROVE  TypeOK'
  <1> USE DEF nginx, app, endpoint, conns, server, loop
  <1>1. CASE NoServer
    BY <1>1 DEF NoServer, TypeOK
  <1>2. CASE StopServer
    <2>1. /\ up' \in BOOLEAN /\ pc' = "join" /\ {m_OnClosed', stopped', exiting'} \subseteq BOOLEAN
          /\ armed' \in [Kinds -> BOOLEAN] /\ m_connections' = {} /\ closing' = {}
      BY <1>2 DEF StopServer, Die, TypeOK
    <2>2. UNCHANGED <<after, app_name, app, posts, s, messages, ready, loop>>
      BY <1>2 DEF StopServer
    <2> QED BY <2>1, <2>2 DEF TypeOK
  <1>3. CASE Joined
    BY <1>3, DeletedType DEF Joined, TypeOK
  <1>4. CASE Unload
    BY <1>4 DEF Unload, TypeOK
  <1>5. CASE LoadFails \/ LoadModule
    <2>1. /\ handle' \in Apps \cup {NoApp} /\ initialized' \in BOOLEAN
          /\ pc' \in {"idle", "start"} /\ app_name' = NoApp
      BY <1>5 DEF LoadFails, LoadModule, TypeOK
    <2>2. UNCHANGED <<up, after, posts, server, loop, exiting>>
      BY <1>5 DEF LoadFails, LoadModule
    <2> QED BY <2>1, <2>2 DEF TypeOK
  <1>6. CASE StartServer
    <2>1. s' \in Apps \cup {NoApp} /\ m_OnClosed' \in BOOLEAN /\ thread' = "starting" /\ pc' = "signals"
      BY <1>6 DEF StartServer, TypeOK
    <2>2. UNCHANGED <<up, after, app_name, app, posts, messages, conns, armed, ready, stopped,
                      handler, exiting>>
      BY <1>6 DEF StartServer
    <2> QED BY <2>1, <2>2 DEF TypeOK, Kinds
  <1>7. ASSUME NEW k \in Kinds, FirstTimer(k)
        PROVE  TypeOK'
    <2>1. armed' \in [Kinds -> BOOLEAN]
      BY <1>7 DEF FirstTimer, TypeOK
    <2> QED BY <1>7, <2>1 DEF FirstTimer, TypeOK, Kinds
  <1> QED BY <1>1, <1>2, <1>3, <1>4, <1>5, <1>6, <1>7 DEF Unloading, Starting

(* So do the requests.                                                      *)
LEMMA RequestType ==
    ASSUME TypeOK,
           \/ rp_bazaar_stop \/ rp_bazaar_apps \/ \E a \in Apps : rp_bazaar_start(a)
           \/ \E p \in Posts : PostHead(p) \/ PostBody(p)
    PROVE  TypeOK'
  <1> USE DEF nginx, app, endpoint, conns, server, loop
  <1>1. CASE rp_bazaar_stop \/ rp_bazaar_apps
    BY <1>1 DEF rp_bazaar_stop, rp_bazaar_apps, TypeOK
  <1>2. ASSUME NEW a \in Apps, rp_bazaar_start(a)
        PROVE  TypeOK'
    BY <1>2 DEF rp_bazaar_start, TypeOK
  <1>3. ASSUME NEW p \in Posts, PostHead(p) \/ PostBody(p)
        PROVE  TypeOK'
    <2>1. posts' \subseteq Posts
      BY <1>3 DEF PostHead, PostBody, TypeOK
    <2>2. up' \in BOOLEAN
      BY <1>3 DEF PostHead, PostBody, Die, TypeOK
    <2>3. UNCHANGED <<nginx, app, server, loop, exiting>>
      BY <1>3 DEF PostHead, PostBody
    <2> QED BY <2>1, <2>2, <2>3 DEF TypeOK
  <1> QED BY <1>1, <1>2, <1>3

(* The thread's handlers, its end and the end of the process keep them.      *)
LEMMA LoopType ==
    ASSUME TypeOK,
           \/ Returns \/ Listen \/ EndLoop \/ ExitThread
           \/ \E c \in Clients : on_open(c) \/ Closes(c) \/ on_close(c) \/ \E k \in Kinds : on_message(c, k)
           \/ \E k \in Kinds : Expire(k) \/ OnTimer(k)
    PROVE  TypeOK'
  <1> USE DEF nginx, app, endpoint, conns, server, loop
  <1>1. CASE Sent
    <2>1. armed' \in [Kinds -> BOOLEAN]
      BY <1>1 DEF Sent, SetTimer, TypeOK
    <2> QED BY <1>1, <2>1 DEF Sent, TypeOK
  <1>2. CASE SendThrows \/ MessageSet \/ Listen \/ EndLoop
    BY <1>2 DEF SendThrows, MessageSet, Listen, EndLoop, Die, TypeOK
  <1>3. CASE ExitThread
    BY <1>3 DEF ExitThread, Die, TypeOK
  <1>4. ASSUME NEW c \in Clients, on_open(c) \/ Closes(c) \/ on_close(c)
        PROVE  TypeOK'
    <2>1. m_connections' \subseteq Clients /\ closing' \subseteq m_connections' /\ up' \in BOOLEAN
      BY <1>4 DEF on_open, Closes, on_close, Die, TypeOK
    <2>2. UNCHANGED <<nginx, app, posts, endpoint, armed, ready, loop, exiting>>
      BY <1>4 DEF on_open, Closes, on_close
    <2> QED BY <2>1, <2>2 DEF TypeOK
  <1>5. ASSUME NEW c \in Clients, NEW k \in Kinds, on_message(c, k)
        PROVE  TypeOK'
    <2>1. messages' \in 0..MaxMessages
      BY <1>5, AppServerAssumption DEF on_message, TypeOK
    <2>2. armed' \in [Kinds -> BOOLEAN]
      BY <1>5 DEF on_message, SetTimer, TypeOK
    <2>3. up' \in BOOLEAN /\ thread' \in {"app", thread} /\ handler' \in {"message", handler}
      BY <1>5 DEF on_message, Die, TypeOK
    <2>4. UNCHANGED <<nginx, app, posts, s, m_OnClosed, stopped, conns, ready, exiting>>
      BY <1>5 DEF on_message
    <2> QED BY <2>1, <2>2, <2>3, <2>4 DEF TypeOK
  <1>6. ASSUME NEW k \in Kinds, Expire(k)
        PROVE  TypeOK'
    <2>1. armed' \in [Kinds -> BOOLEAN] /\ ready' \in [Kinds -> Nat]
      BY <1>6 DEF Expire, TypeOK
    <2> QED BY <1>6, <2>1 DEF Expire, TypeOK
  <1>7. ASSUME NEW k \in Kinds, OnTimer(k)
        PROVE  TypeOK'
    <2>1. ready' \in [Kinds -> Nat]
      BY <1>7 DEF OnTimer, TypeOK
    <2> QED BY <1>7, <2>1 DEF OnTimer, TypeOK
  <1> QED BY <1>1, <1>2, <1>3, <1>4, <1>5, <1>6, <1>7 DEF Returns

(* A new process starts as the first did.                                   *)
LEMMA RespawnType == TypeOK /\ Respawn => TypeOK'
  <1> QED BY DeletedType DEF Respawn, TypeOK

(* Everything has its type.                                                 *)
THEOREM TypeCorrect == Spec => []TypeOK
  <1>1. Init => TypeOK
    <2> SUFFICES ASSUME Init PROVE TypeOK
      OBVIOUS
    <2>1. posts \subseteq Posts
      BY DEF Init
    <2>2. armed \in [Kinds -> BOOLEAN] /\ ready \in [Kinds -> Nat]
      BY DEF Init
    <2>3. messages \in 0..MaxMessages
      BY AppServerAssumption DEF Init
    <2> QED BY <2>1, <2>2, <2>3 DEF Init, TypeOK
  <1>2. TypeOK /\ [Next]_vars => TypeOK'
    <2>1. TypeOK /\ UNCHANGED vars => TypeOK'
      BY DEF vars, nginx, app, endpoint, conns, server, loop, TypeOK
    <2> QED BY <2>1, NginxType, RequestType, LoopType, RespawnType DEF Next, Worker
  <1> QED BY <1>1, <1>2, PTL DEF Spec

----------------------------------------------------------------------------
(* No step leaves the server's thread with an application that is not there.*)
LEMMA ServerStep == TypeOK /\ ServerInv /\ [Next]_vars => ServerInv'
  <1> SUFFICES ASSUME TypeOK, ServerInv, [Next]_vars PROVE ServerInv'
    OBVIOUS
  <1> USE DEF nginx, app, endpoint, conns, server, loop
  <1>0. after \in {"idle", "unload"} /\ NoApp \notin WsApps
    BY AppServerAssumption DEF TypeOK
  <1>1. CASE NoServer
    BY <1>0, <1>1 DEF NoServer, ServerInv
  <1>2. CASE StopServer
    BY <1>2 DEF StopServer, ServerInv
  <1>3. CASE Joined
    BY <1>0, <1>3 DEF Joined, Deleted, ServerInv
  <1>4. CASE Unload
    BY <1>4 DEF Unload, ServerInv
  <1>5. CASE LoadFails \/ LoadModule
    BY <1>0, <1>5 DEF LoadFails, LoadModule, ServerInv
  <1>6. CASE StartServer
    BY <1>6 DEF StartServer, ServerInv
  <1>7. ASSUME NEW k \in Kinds, FirstTimer(k)
        PROVE  ServerInv'
    BY <1>7 DEF FirstTimer, ServerInv
  <1>8. CASE rp_bazaar_stop \/ rp_bazaar_apps
    BY <1>8 DEF rp_bazaar_stop, rp_bazaar_apps, ServerInv
  <1>9. ASSUME NEW a \in Apps, rp_bazaar_start(a)
        PROVE  ServerInv'
    BY <1>9, AppServerAssumption DEF rp_bazaar_start, ServerInv
  <1>10. ASSUME NEW p \in Posts, PostHead(p) \/ PostBody(p)
         PROVE  ServerInv'
    BY <1>10 DEF PostHead, PostBody, ServerInv
  <1>11. CASE Sent \/ SendThrows \/ MessageSet \/ Listen \/ EndLoop \/ ExitThread
    BY <1>11 DEF Sent, SendThrows, MessageSet, Listen, EndLoop, ExitThread, Die, ServerInv
  <1>12. ASSUME NEW c \in Clients, on_open(c) \/ Closes(c) \/ on_close(c)
         PROVE  ServerInv'
    BY <1>12 DEF on_open, Closes, on_close, Die, Ready, ServerInv
  <1>13. ASSUME NEW c \in Clients, NEW k \in Kinds, on_message(c, k)
         PROVE  ServerInv'
    BY <1>13 DEF on_message, Ready, ServerInv
  <1>14. ASSUME NEW k \in Kinds, Expire(k) \/ OnTimer(k)
         PROVE  ServerInv'
    BY <1>14 DEF Expire, OnTimer, Ready, ServerInv
  <1>15. CASE Respawn
    BY <1>15 DEF Respawn, Deleted, ServerInv
  <1>16. CASE UNCHANGED vars
    BY <1>16 DEF vars, ServerInv
  <1> QED BY <1>1, <1>2, <1>3, <1>4, <1>5, <1>6, <1>7, <1>8, <1>9, <1>10, <1>11, <1>12, <1>13,
             <1>14, <1>15, <1>16 DEF Next, Worker, Unloading, Starting, Returns

(* The functions the server's thread calls are those of an application that *)
(* is loaded and initialised (StopServer and Joined before Unload).         *)
THEOREM CalledCorrect == Spec => []CalledAppIsUp
  <1>1. Init => ServerInv
    BY DEF Init, ServerInv
  <1>2. TypeOK /\ ServerInv => CalledAppIsUp
    BY DEF ServerInv, CalledAppIsUp
  <1> QED BY <1>1, <1>2, ServerStep, TypeCorrect, PTL DEF Spec

=============================================================================
