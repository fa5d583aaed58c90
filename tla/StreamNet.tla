------------------------------ MODULE StreamNet ------------------------------
(****************************************************************************)
(* The streaming server's packs on their way to a client over TCP or UDP:   *)
(* passBuffers on the oscilloscope's thread, the server's network thread    *)
(* that accepts a client, the network, and the client's one thread that     *)
(* takes the stream apart (AsioNet.cpp, StreamingManager.cpp, FileLogger).  *)
(*                                                                          *)
(* Abstractions.  A buffer is counted in cells: a pack is the two halves of *)
(* its ID, its index, its size and cells of data, and all packs of a stream *)
(* have one size, as its channels and its resolution are fixed.  A TCP      *)
(* connection is the sequence of what was sent and how much of it was       *)
(* received.  What new leaves in the client's buffer is junk; where junk is *)
(* taken for a size, or the search leaves the buffer, undefined may be set, *)
(* after which nothing is claimed of this client.  memcpy to an overlapping *)
(* lower address moves the bytes, as the libraries do.                      *)
(****************************************************************************)
EXTENDS Integers, Sequences

CONSTANTS
    Payloads,               \* cells of data in a pack
    SOCKET_BUFFER_SIZE, FIFO_BUFFER_SIZE,
    PacksPerBuffer,         \* packs a buffer is split into
    MaxPacks, MaxClients    \* bounds on the packs sent and on the clients

HeaderSize == 4
size_id == 2

ASSUME NetAssumption ==
    /\ Payloads \subseteq Nat \ {0} /\ MaxPacks \in Nat /\ MaxClients \in Nat
    /\ PacksPerBuffer \in Nat \ {0}
    /\ SOCKET_BUFFER_SIZE \in Nat /\ SOCKET_BUFFER_SIZE >= HeaderSize
    /\ FIFO_BUFFER_SIZE \in Nat
    /\ \A p \in Payloads : FIFO_BUFFER_SIZE >= SOCKET_BUFFER_SIZE + HeaderSize + p

VARIABLES
    m_protocol, payload,
    connected, accepting,           \* m_is_tcp_connected or m_is_udp_connected; async_accept
    endpoint, mishap,               \* UDP: the client; TCP: why no client is accepted (history)
    m_index_of_message, sender, left,       \* passBuffers: its step, packs to go
    client, clients,                \* the client's state, clients so far
    requests,                       \* UDP: the clients' datagrams under way
    sent,                           \* indices sent to this client
    net,                            \* UDP: those under way
    transferred,                    \* TCP: cells received
    m_tcp_fifo_buffer, m_pos_last_in_fifo, parsing,
    m_last_pack_id,
    delivered,                      \* indices the client has recorded (history)
    m_old_id, m_udpLostRate,        \* the client's report
    undefined

config == <<m_protocol, payload>>
server == <<connected, accepting, endpoint, mishap>>
sending == <<m_index_of_message, sender, left>>
clientele == <<client, clients, requests>>
fifo == <<m_tcp_fifo_buffer, m_pos_last_in_fifo>>
report == <<delivered, m_old_id, m_udpLostRate>>
receiving == <<fifo, parsing, transferred, m_last_pack_id, report, undefined>>
vars == <<config, server, sending, clientele, sent, net, receiving>>

(* A cell is the index of its pack and its place in it; the ID is at 0 and  *)
(* 1, the size at 3.                                                        *)
Junk == <<-1, -1>>
PackSize == HeaderSize + payload
Cell(n) == <<sent[n \div PackSize + 1], n % PackSize>>      \* the n-th of the connection
NewBuffer == [i \in 0..FIFO_BUFFER_SIZE-1 |-> Junk]

Init ==
    /\ m_protocol \in {"TCP", "UDP"} /\ payload \in Payloads
    /\ connected = FALSE /\ accepting = (m_protocol = "TCP")
    /\ endpoint = 0 /\ mishap = "none"
    /\ m_index_of_message = 0 /\ sender = "idle" /\ left = 0
    /\ client = "down" /\ clients = 0 /\ requests = {}
    /\ sent = <<>> /\ net = {} /\ transferred = 0
    /\ m_tcp_fifo_buffer = NewBuffer /\ m_pos_last_in_fifo = 0 /\ parsing = FALSE
    /\ m_last_pack_id = 0
    /\ delivered = <<>> /\ m_old_id = 0 /\ m_udpLostRate = 0
    /\ undefined = FALSE

----------------------------------------------------------------------------
(* A client is a process that is started, and stopped or killed; one at a   *)
(* time.  Over UDP it says so once, and takes its leave if it is stopped.   *)

ClientStart ==
    /\ client = "down" /\ clients < MaxClients
    /\ clients' = clients + 1
    /\ IF m_protocol = "TCP"
       THEN client' = "asks" /\ UNCHANGED requests
       ELSE client' = "up" /\ requests' = requests \cup {<<clients + 1, 1>>}
    /\ sent' = <<>> /\ net' = {} /\ transferred' = 0
    /\ m_tcp_fifo_buffer' = NewBuffer /\ m_pos_last_in_fifo' = 0 /\ parsing' = FALSE
    /\ m_last_pack_id' = 0
    /\ delivered' = <<>> /\ m_old_id' = 0 /\ m_udpLostRate' = 0
    /\ undefined' = FALSE
    /\ UNCHANGED <<config, server, sending>>

(* A connection that the server has not accepted yet stays in its queue.    *)
ClientEnds ==
    /\ client \in {"asks", "up"}
    /\ client' = IF client = "asks" THEN "left" ELSE "down"
    /\ requests' \in {requests} \cup {requests \cup {<<clients, 0>>} : p \in {m_protocol} \cap {"UDP"}}
    /\ net' = {}
    /\ UNCHANGED <<config, server, sending, clients, sent, receiving>>

----------------------------------------------------------------------------
(* The server's network thread.                                             *)

(* Mutant of Accept: the service has no thread of its own.                  *)
AcceptInSend ==
    /\ accepting /\ client \in {"asks", "left"} /\ sender # "idle"
    /\ accepting' = FALSE /\ connected' = TRUE
    /\ client' = IF client = "asks" THEN "up" ELSE "down"
    /\ mishap' = IF sender = "failed" THEN "race" ELSE mishap
    /\ UNCHANGED <<config, endpoint, sending, clients, requests, sent, net, receiving>>

(* HandlerAcceptFromClient.                                                 *)
Accept ==
    /\ accepting /\ client \in {"asks", "left"}
    /\ accepting' = FALSE /\ connected' = TRUE
    /\ client' = IF client = "asks" THEN "up" ELSE "down"
    /\ mishap' = IF sender = "failed" THEN "race" ELSE mishap
    /\ UNCHANGED <<config, endpoint, sending, clients, requests, sent, net, receiving>>

(* The accept ends with an error: the connection may be lost with it, and   *)
(* the next one is waited for.                                              *)
AcceptFails ==
    /\ accepting /\ client \in {"asks", "left"}
    /\ connected' = FALSE
    /\ client' \in {client, "down"}
    /\ UNCHANGED <<config, accepting, endpoint, mishap, sending, clients, requests, sent, net, receiving>>

(* HandlerReceiveFromClient.                                                *)
Requested ==
    \E r \in requests :
        /\ requests' = requests \ {r}
        /\ \/ endpoint' = r[1] /\ connected' = (r[2] = 1)
           \/ UNCHANGED <<endpoint, connected>>         \* it is lost
        /\ UNCHANGED <<config, accepting, mishap, sending, client, clients, sent, net, receiving>>

----------------------------------------------------------------------------
(* passBuffers and what it calls.                                           *)

Pass ==
    /\ sender = "idle" /\ connected /\ m_index_of_message + PacksPerBuffer <= MaxPacks
    /\ sender' = "pass" /\ left' = PacksPerBuffer
    /\ UNCHANGED <<config, server, m_index_of_message, clientele, sent, net, receiving>>

(* Every pack takes an index, sent or not.                                  *)
NextPack ==
    /\ sender = "pass"
    /\ m_index_of_message' = m_index_of_message + 1
    /\ left' = left - 1

Goes == sender' = IF left = 1 THEN "idle" ELSE "pass"

Reaches == client = "up" /\ (m_protocol = "UDP" => endpoint = clients)

SendPack ==
    /\ NextPack /\ Goes
    /\ IF connected /\ Reaches
       THEN /\ sent' = Append(sent, m_index_of_message)
            /\ net' = net \cup {k \in {m_index_of_message} : m_protocol = "UDP"}
       ELSE UNCHANGED <<sent, net>>
    /\ UNCHANGED <<config, server, clientele, receiving>>

(* HandlerSend: the peer is gone.  A new acceptor resets the connections    *)
(* that wait in the old one.                                                *)
PeerGone ==
    /\ NextPack /\ connected /\ m_protocol = "TCP" /\ client # "up"
    /\ sender' = "failed"
    /\ connected' = FALSE /\ accepting' = TRUE
    /\ client' = "down"
    /\ UNCHANGED <<config, endpoint, mishap, clients, requests, sent, net, receiving>>

(* The flag is cleared once more, after the new client may be accepted.     *)
PeerReset ==
    /\ sender = "failed"
    /\ connected' = FALSE
    /\ sender' = IF left = 0 THEN "idle" ELSE "pass"
    /\ UNCHANGED <<config, accepting, endpoint, mishap, m_index_of_message, left, clientele, sent,
                   net, receiving>>

(* Any other error: the host cannot be reached, for example.                *)
SendFails ==
    /\ NextPack /\ Goes /\ connected
    /\ connected' = FALSE
    /\ mishap' = IF m_protocol = "TCP" THEN "error" ELSE mishap
    /\ UNCHANGED <<config, accepting, endpoint, clientele, sent, net, receiving>>

----------------------------------------------------------------------------
(* The client: reciveData records a pack and AddMetricId counts gaps.       *)

Record(k) ==
    /\ delivered' = Append(delivered, k)
    /\ m_udpLostRate' = IF k # 0 /\ m_old_id # 0 /\ k # m_old_id + 1
                        THEN m_udpLostRate + 1 ELSE m_udpLostRate
    /\ m_old_id' = k

(* Mutant of ReceivePack: what comes late is taken, too.                    *)
ReceiveLate ==
    \E k \in net :
        /\ client = "up"
        /\ net' \in {net, net \ {k}}
        /\ IF k > 0 /\ k # m_last_pack_id
           THEN Record(k) /\ m_last_pack_id' = k
           ELSE UNCHANGED <<report, m_last_pack_id>>
        /\ UNCHANGED <<config, server, sending, clientele, sent, fifo, parsing, transferred, undefined>>

(* HandlerReceiveFromServer over UDP; a datagram may come once more.        *)
ReceivePack ==
    \E k \in net :
        /\ client = "up"
        /\ net' \in {net, net \ {k}}
        /\ IF k > m_last_pack_id
           THEN Record(k) /\ m_last_pack_id' = k
           ELSE UNCHANGED <<report, m_last_pack_id>>
        /\ UNCHANGED <<config, server, sending, clientele, sent, fifo, parsing, transferred, undefined>>

LosePack ==
    \E k \in net :
        /\ net' = net \ {k}
        /\ UNCHANGED <<config, server, sending, clientele, sent, receiving>>

(* Mutant of ReceiveCells: the cells are put at the beginning.              *)
ReceiveOver ==
    \E n \in 1..SOCKET_BUFFER_SIZE :
        /\ client = "up" /\ m_protocol = "TCP" /\ ~parsing /\ ~undefined
        /\ transferred + n <= Len(sent) * PackSize
        /\ m_pos_last_in_fifo + n <= FIFO_BUFFER_SIZE
        /\ m_tcp_fifo_buffer' = [i \in 0..FIFO_BUFFER_SIZE-1 |->
               IF i < n THEN Cell(transferred + i) ELSE m_tcp_fifo_buffer[i]]
        /\ m_pos_last_in_fifo' = m_pos_last_in_fifo + n
        /\ transferred' = transferred + n
        /\ parsing' = TRUE
        /\ UNCHANGED <<config, server, sending, clientele, sent, net, m_last_pack_id, report, undefined>>

(* Over TCP the cells are put behind those that are left.                   *)
ReceiveCells ==
    \E n \in 1..SOCKET_BUFFER_SIZE :
        /\ client = "up" /\ m_protocol = "TCP" /\ ~parsing /\ ~undefined
        /\ transferred + n <= Len(sent) * PackSize
        /\ IF m_pos_last_in_fifo + n > FIFO_BUFFER_SIZE
           THEN client' = "overflow" /\ UNCHANGED <<fifo, parsing, transferred>>
           ELSE /\ m_tcp_fifo_buffer' = [i \in 0..FIFO_BUFFER_SIZE-1 |->
                      IF i - m_pos_last_in_fifo \in 0..n-1
                      THEN Cell(transferred + i - m_pos_last_in_fifo) ELSE m_tcp_fifo_buffer[i]]
                /\ m_pos_last_in_fifo' = m_pos_last_in_fifo + n
                /\ transferred' = transferred + n
                /\ parsing' = TRUE /\ UNCHANGED client
        /\ UNCHANGED <<config, server, sending, clients, requests, sent, net, m_last_pack_id, report,
                       undefined>>

(* The search for an ID.  The bound is unsigned: with less than an ID in    *)
(* the buffer there is none.                                                *)
Bound == IF m_pos_last_in_fifo >= size_id THEN m_pos_last_in_fifo - size_id ELSE FIFO_BUFFER_SIZE - 1
IdAt(i) == m_tcp_fifo_buffer[i][2] = 0 /\ m_tcp_fifo_buffer[i + 1][2] = 1
FoundAt(i) == i < Bound /\ IdAt(i) /\ \A j \in 0..i-1 : ~IdAt(j)
NotFound == \A i \in 0..Bound-1 : ~IdAt(i)

(* What cannot be told: a size that has not come, read from memory that was *)
(* never written, and a search beyond the end.                              *)
Misread ==
    \/ \E i \in 0..FIFO_BUFFER_SIZE-HeaderSize : FoundAt(i) /\ m_tcp_fifo_buffer[i + 3][2] # 3
    \/ \E i \in FIFO_BUFFER_SIZE-HeaderSize+1..FIFO_BUFFER_SIZE-1 : FoundAt(i)
    \/ NotFound /\ m_pos_last_in_fifo < size_id

Complete(i) ==
    /\ FoundAt(i) /\ i <= FIFO_BUFFER_SIZE - HeaderSize /\ m_tcp_fifo_buffer[i + 3][2] = 3
    /\ i + PackSize <= m_pos_last_in_fifo

(* Mutant of Take: the rest of the buffer is cleared.                       *)
TakeAndClear ==
    \E i \in 0..FIFO_BUFFER_SIZE-1 :
        /\ parsing /\ Complete(i)
        /\ Record(m_tcp_fifo_buffer[i + 2][1])
        /\ m_pos_last_in_fifo' = m_pos_last_in_fifo - (PackSize + i)
        /\ m_tcp_fifo_buffer' = [j \in 0..FIFO_BUFFER_SIZE-1 |->
              IF j < m_pos_last_in_fifo - (PackSize + i) THEN m_tcp_fifo_buffer[j + PackSize + i]
              ELSE Junk]
        /\ parsing' = (m_pos_last_in_fifo' > size_id)
        /\ UNCHANGED <<config, server, sending, clientele, sent, net, transferred, m_last_pack_id, undefined>>

(* Mutant of Take: one pack for each receive.                               *)
TakeOne ==
    \E i \in 0..FIFO_BUFFER_SIZE-1 :
        /\ parsing /\ Complete(i)
        /\ Record(m_tcp_fifo_buffer[i + 2][1])
        /\ m_pos_last_in_fifo' = m_pos_last_in_fifo - (PackSize + i)
        /\ m_tcp_fifo_buffer' = [j \in 0..FIFO_BUFFER_SIZE-1 |->
              IF j < m_pos_last_in_fifo - (PackSize + i) THEN m_tcp_fifo_buffer[j + PackSize + i]
              ELSE m_tcp_fifo_buffer[j]]
        /\ parsing' = FALSE
        /\ UNCHANGED <<config, server, sending, clientele, sent, net, transferred, m_last_pack_id, undefined>>

(* A complete pack is recorded, and what follows it moved to the beginning; *)
(* what was behind that stays where it is.                                  *)
Take ==
    \E i \in 0..FIFO_BUFFER_SIZE-1 :
        /\ parsing /\ Complete(i)
        /\ Record(m_tcp_fifo_buffer[i + 2][1])
        /\ m_pos_last_in_fifo' = m_pos_last_in_fifo - (PackSize + i)
        /\ m_tcp_fifo_buffer' = [j \in 0..FIFO_BUFFER_SIZE-1 |->
              IF j < m_pos_last_in_fifo - (PackSize + i) THEN m_tcp_fifo_buffer[j + PackSize + i]
              ELSE m_tcp_fifo_buffer[j]]
        /\ parsing' = (m_pos_last_in_fifo' > size_id)
        /\ UNCHANGED <<config, server, sending, clientele, sent, net, transferred, m_last_pack_id, undefined>>

(* Nothing, or the beginning of a pack: the client waits for more.  So it   *)
(* does where the size is junk, if that is larger than what has come;       *)
(* otherwise a pack of that size is taken, for ever if it is 0.             *)
Wait ==
    /\ parsing /\ ~\E i \in 0..FIFO_BUFFER_SIZE-1 : Complete(i)
    /\ undefined' \in BOOLEAN /\ (undefined' => Misread)
    /\ parsing' = FALSE
    /\ UNCHANGED <<config, server, sending, clientele, sent, net, fifo, transferred, m_last_pack_id, report>>

----------------------------------------------------------------------------
Clients == ClientStart \/ ClientEnds
Network == Accept \/ AcceptFails \/ Requested \/ LosePack
passBuffers == Pass \/ SendPack \/ PeerGone \/ PeerReset \/ SendFails
HandlerReceiveFromServer == ReceivePack \/ ReceiveCells \/ Take \/ Wait
Next == Clients \/ Network \/ passBuffers \/ HandlerReceiveFromServer

(* The server's two threads and the client's go on, and the network takes   *)
(* what is sent over TCP.                                                   *)
Spec ==
    /\ Init /\ [][Next]_vars
    /\ WF_vars(Accept) /\ WF_vars(passBuffers)
    /\ WF_vars(ReceiveCells \/ Take \/ Wait)

----------------------------------------------------------------------------
Indices == 0..MaxPacks-1
CellType == Indices \X (0..PackSize-1) \cup {Junk}

TypeOK ==
    /\ m_protocol \in {"TCP", "UDP"} /\ payload \in Payloads
    /\ connected \in BOOLEAN /\ accepting \in BOOLEAN
    /\ endpoint \in 0..MaxClients /\ mishap \in {"none", "race", "error"}
    /\ m_index_of_message \in 0..MaxPacks /\ sender \in {"idle", "pass", "failed"}
    /\ left \in 0..PacksPerBuffer
    /\ client \in {"down", "asks", "left", "up", "overflow"} /\ clients \in 0..MaxClients
    /\ requests \subseteq (0..MaxClients) \X {0, 1}
    /\ sent \in Seq(Indices) /\ net \subseteq Indices
    /\ transferred \in Nat
    /\ m_tcp_fifo_buffer \in [0..FIFO_BUFFER_SIZE-1 -> CellType]
    /\ m_pos_last_in_fifo \in 0..FIFO_BUFFER_SIZE /\ parsing \in BOOLEAN
    /\ m_last_pack_id \in 0..MaxPacks
    /\ delivered \in Seq(Indices) /\ m_old_id \in 0..MaxPacks /\ m_udpLostRate \in Nat
    /\ undefined \in BOOLEAN

(* However the connection cuts the stream, what was sent is what was        *)
(* recorded, then what is in the buffer, from its beginning, then what has  *)
(* not come: no pack is lost, repeated, reordered or mixed with another     *)
(* (HandlerReceiveFromServer), as long as nothing was misread.              *)
StreamPlaced ==
    m_protocol = "TCP" =>
        /\ Len(delivered) <= Len(sent)
        /\ \A i \in 1..Len(delivered) : delivered[i] = sent[i]
        /\ transferred = Len(delivered) * PackSize + m_pos_last_in_fifo
        /\ \A j \in 0..m_pos_last_in_fifo-1 :
              m_tcp_fifo_buffer[j] = Cell(transferred - m_pos_last_in_fifo + j)
StreamIsWhole == ~undefined => StreamPlaced

(* The size of a pack is compared before it has come.  Nothing but the very *)
(* first cells of a connection can be misread for that: once a header has   *)
(* come, what is read is the last pack's size, and the packs are of one     *)
(* size, and the search ends in the buffer (pack_size, m_pos_last_in_fifo). *)
MisreadsFirstOnly == undefined => transferred < HeaderSize

(* The buffer never overflows: what waits in it is less than a pack.        *)
NeverOverflows == client # "overflow"

(* Over UDP every pack is recorded once at most and in the order of the     *)
(* server, whatever is lost, repeated or overtaken (m_last_pack_id).        *)
RecordedInOrder ==
    m_protocol = "UDP" =>
        /\ \A i \in 1..Len(delivered) : \E j \in 1..Len(sent) : delivered[i] = sent[j]
        /\ \A i \in 1..Len(delivered)-1 : delivered[i] < delivered[i+1]

(* Between two sends the server over TCP has a client or waits for one,     *)
(* unless a send failed in another way than by a closed connection, or a    *)
(* client was accepted while one that had gone was being dealt with.        *)
DeafHasCause ==
    m_protocol = "TCP" /\ sender # "failed" /\ ~connected => accepting \/ mishap # "none"

(* What is sent over TCP is recorded without waiting for more, unless the   *)
(* client ends or has misread the first cells (HandlerReceiveFromServer's   *)
(* loop).                                                                   *)
SentIsRecorded ==
    \A n \in 1..MaxPacks :
        (m_protocol = "TCP" /\ client = "up" /\ Len(sent) >= n)
            ~> (Len(delivered) >= n \/ client # "up" \/ undefined)

(* A client that asks is accepted, or reset by the server's next send that  *)
(* fails, as long as there is something to send.                            *)
AskIsAnswered ==
    client = "asks" ~> (client # "asks" \/ mishap # "none" \/ m_index_of_message + PacksPerBuffer > MaxPacks)

----------------------------------------------------------------------------
(* The invariant behind these properties, in its parts.                     *)

(* passBuffers sends what it began with, within the bound.                  *)
PacksLeft ==
    /\ m_index_of_message + left <= MaxPacks
    /\ sender = "pass" => left > 0

OneProtocol ==
    /\ m_protocol = "TCP" => net = {} /\ requests = {}
    /\ m_protocol = "UDP" => ~parsing

(* A server over TCP that has lost its client waits for the next one.       *)
WaitsForClient ==
    m_protocol = "TCP" /\ (sender = "failed" \/ ~connected) => accepting \/ mishap # "none"

(* Once a header has come, there is one at the beginning of the buffer, the *)
(* last pack's where the next has not come.                                 *)
HeaderStays == transferred >= HeaderSize => \A j \in 0..HeaderSize-1 : m_tcp_fifo_buffer[j][2] = j

(* When the client waits for more there is less than a pack in the buffer.  *)
LessThanPack ==
    /\ ~parsing => m_pos_last_in_fifo < PackSize
    /\ parsing => transferred > 0

Received == transferred <= Len(sent) * PackSize /\ HeaderStays /\ LessThanPack

(* Over UDP the client knows the last of the packs it has recorded.         *)
LastIsKnown ==
    /\ delivered = <<>> => m_last_pack_id = 0
    /\ m_protocol = "UDP" /\ delivered # <<>> => m_last_pack_id = delivered[Len(delivered)]
    /\ m_protocol = "UDP" => \A k \in net : \E j \in 1..Len(sent) : k = sent[j]
    /\ m_old_id = IF delivered = <<>> THEN 0 ELSE delivered[Len(delivered)]

NetInv ==
    /\ TypeOK /\ PacksLeft /\ OneProtocol /\ WaitsForClient
    /\ MisreadsFirstOnly /\ NeverOverflows
    /\ StreamPlaced /\ (m_protocol = "TCP" => Received)
    /\ RecordedInOrder /\ LastIsKnown

=============================================================================
