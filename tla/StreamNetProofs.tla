--------------------------- MODULE StreamNetProofs ---------------------------
(****************************************************************************)
(* What a client records of a stream, for every size of its packs and       *)
(* buffers and however the connection cuts the stream or the network        *)
(* reorders it.  The argument is NetInv: once a header has come there is    *)
(* always one in front of the buffer, if only the last pack's, so the       *)
(* search finds it at once and what it reads as a size is one; and what     *)
(* waits is less than a pack, so the next receive fits.                     *)
(****************************************************************************)
EXTENDS StreamNet, TLAPS

(* Division by P, as the cells are numbered.                                *)
LEMMA Division ==
    ASSUME NEW P \in Nat \ {0}, NEW D \in Nat, NEW j \in 0..P-1
    PROVE  (D * P + j) \div P = D /\ (D * P + j) % P = j
  <1> DEFINE a == D * P + j
             q == a \div P
             r == a % P
  <1>1. a \in Int /\ D * P \in Int
    OBVIOUS
  <1>2. q \in Int /\ r \in 0..P-1 /\ a = P * q + r
    BY <1>1
  <1> HIDE DEF a, q, r
  <1>3. a = D * P + j
    BY DEF a
  <1>4. ~(q >= D + 1)
    <2> SUFFICES ASSUME q >= D + 1 PROVE FALSE
      OBVIOUS
    <2>1. P * q >= P * (D + 1)
      BY <1>2
    <2>2. P * (D + 1) = D * P + P
      OBVIOUS
    <2> QED BY <1>1, <1>2, <1>3, <2>1, <2>2
  <1>5. ~(q <= D - 1)
    <2> SUFFICES ASSUME q <= D - 1 PROVE FALSE
      OBVIOUS
    <2>1. P * q <= P * (D - 1)
      BY <1>2
    <2>2. P * (D - 1) = D * P - P
      OBVIOUS
    <2> QED BY <1>1, <1>2, <1>3, <2>1, <2>2
  <1>6. q = D
    BY <1>2, <1>4, <1>5
  <1>7. P * D = D * P
    OBVIOUS
  <1>8. r = j
    BY <1>1, <1>2, <1>3, <1>6, <1>7
  <1> QED BY <1>6, <1>8 DEF a, q, r

(* A number of cells below that of L packs belongs to one of them.          *)
LEMMA Quotient ==
    ASSUME NEW P \in Nat \ {0}, NEW L \in Nat, NEW n \in Nat, n < L * P
    PROVE  n \div P \in 0..L-1 /\ n % P \in 0..P-1
  <1> DEFINE q == n \div P
             r == n % P
  <1>1. q \in Int /\ r \in 0..P-1 /\ n = P * q + r
    OBVIOUS
  <1> HIDE DEF q, r
  <1>2. ~(q >= L)
    <2> SUFFICES ASSUME q >= L PROVE FALSE
      OBVIOUS
    <2>1. P * q >= P * L
      BY <1>1
    <2>2. P * L = L * P
      OBVIOUS
    <2> QED BY <1>1, <2>1, <2>2
  <1>3. ~(q <= -1)
    <2> SUFFICES ASSUME q <= -1 PROVE FALSE
      OBVIOUS
    <2>1. P * q <= P * (-1)
      BY <1>1
    <2>2. P * (-1) = -P
      OBVIOUS
    <2> QED BY <1>1, <2>1, <2>2
  <1> QED BY <1>1, <1>2, <1>3 DEF q, r

(* The sizes of a pack and of the buffers.                                  *)
Sizes ==
    /\ PackSize \in Nat /\ PackSize > HeaderSize /\ payload \in Nat
    /\ SOCKET_BUFFER_SIZE \in Nat /\ SOCKET_BUFFER_SIZE >= HeaderSize
    /\ FIFO_BUFFER_SIZE \in Nat /\ FIFO_BUFFER_SIZE >= SOCKET_BUFFER_SIZE + PackSize
    /\ MaxPacks \in Nat /\ MaxClients \in Nat /\ PacksPerBuffer \in Nat \ {0}

LEMMA SizesHold ==
    ASSUME payload \in Payloads
    PROVE  Sizes
  <1>1. payload \in Nat \ {0} /\ FIFO_BUFFER_SIZE >= SOCKET_BUFFER_SIZE + HeaderSize + payload
    BY NetAssumption
  <1> QED BY <1>1, NetAssumption DEF Sizes, PackSize, HeaderSize

(* The j-th cell of the D-th pack that is sent, counted from 0.             *)
LEMMA CellOfPack ==
    ASSUME Sizes, NEW D \in Nat, NEW j \in 0..PackSize-1
    PROVE  Cell(D * PackSize + j) = <<sent[D + 1], j>>
  <1>1. PackSize \in Nat \ {0}
    BY DEF Sizes, HeaderSize
  <1> HIDE DEF PackSize
  <1>2. (D * PackSize + j) \div PackSize = D /\ (D * PackSize + j) % PackSize = j
    BY <1>1, Division
  <1> QED BY <1>2 DEF Cell

(* What is sent is made of cells.                                           *)
LEMMA CellIsCell ==
    ASSUME Sizes, sent \in Seq(Indices), NEW n \in Nat, n < Len(sent) * PackSize
    PROVE  Cell(n) \in CellType
  <1>1. PackSize \in Nat \ {0} /\ Len(sent) \in Nat
    BY DEF Sizes, HeaderSize
  <1> HIDE DEF PackSize
  <1>2. n \div PackSize \in 0..Len(sent)-1 /\ n % PackSize \in 0..PackSize-1
    BY <1>1, Quotient
  <1>3. sent[n \div PackSize + 1] \in Indices
    BY <1>1, <1>2
  <1> QED BY <1>2, <1>3 DEF Cell, CellType

(* Sending one more pack changes nothing of what was sent.                  *)
LEMMA CellIsKept ==
    ASSUME Sizes, sent \in Seq(Indices), NEW k \in Indices, sent' = Append(sent, k),
           payload' = payload, NEW n \in Nat, n < Len(sent) * PackSize
    PROVE  Cell(n)' = Cell(n)
  <1>1. PackSize \in Nat \ {0} /\ Len(sent) \in Nat /\ PackSize' = PackSize
    BY DEF Sizes, HeaderSize, PackSize
  <1> HIDE DEF PackSize
  <1>2. n \div PackSize \in 0..Len(sent)-1
    BY <1>1, Quotient
  <1>3. sent'[n \div PackSize + 1] = sent[n \div PackSize + 1]
    BY <1>1, <1>2
  <1> QED BY <1>1, <1>3 DEF Cell

----------------------------------------------------------------------------
(* What the search finds.                                                   *)

(* What HandlerReceiveFromServer relies on when it takes the buffer apart.  *)
InBuffer ==
    /\ Sizes /\ m_protocol = "TCP"
    /\ sent \in Seq(Indices) /\ Len(sent) \in Nat
    /\ delivered \in Seq(Indices) /\ Len(delivered) \in Nat
    /\ m_tcp_fifo_buffer \in [0..FIFO_BUFFER_SIZE-1 -> CellType]
    /\ m_pos_last_in_fifo \in 0..FIFO_BUFFER_SIZE /\ transferred \in Nat
    /\ StreamPlaced /\ Received

LEMMA InBufferHolds ==
    ASSUME NetInv, m_protocol = "TCP"
    PROVE  InBuffer
  <1>1. /\ payload \in Payloads /\ sent \in Seq(Indices) /\ delivered \in Seq(Indices)
        /\ m_tcp_fifo_buffer \in [0..FIFO_BUFFER_SIZE-1 -> CellType]
        /\ m_pos_last_in_fifo \in 0..FIFO_BUFFER_SIZE /\ transferred \in Nat
    BY DEF NetInv, TypeOK
  <1>2. StreamPlaced /\ Received
    BY DEF NetInv
  <1> QED BY <1>1, <1>2, SizesHold DEF InBuffer

(* A cell that waits in the buffer is one of the next packs.                *)
LEMMA WaitingCell ==
    ASSUME InBuffer, NEW j \in 0..m_pos_last_in_fifo-1
    PROVE  m_tcp_fifo_buffer[j] = Cell(Len(delivered) * PackSize + j)
  <1>1. /\ m_tcp_fifo_buffer[j] = Cell(transferred - m_pos_last_in_fifo + j)
        /\ transferred = Len(delivered) * PackSize + m_pos_last_in_fifo
    BY DEF InBuffer, StreamPlaced
  <1>2. Len(delivered) * PackSize \in Int
    BY DEF InBuffer, Sizes
  <1>3. transferred - m_pos_last_in_fifo + j = Len(delivered) * PackSize + j
    BY <1>1, <1>2 DEF InBuffer
  <1> QED BY <1>1, <1>3

(* What has come is at least what waits.                                    *)
LEMMA WaitingHasCome ==
    ASSUME InBuffer
    PROVE  m_pos_last_in_fifo <= transferred
  <1>1. Len(delivered) * PackSize \in Nat
    BY DEF InBuffer, Sizes
  <1> QED BY <1>1 DEF InBuffer, StreamPlaced

(* While there is something to search, the ID is at the beginning.          *)
LEMMA FoundAtOnce ==
    ASSUME InBuffer, parsing, transferred >= HeaderSize
    PROVE  /\ IdAt(0) /\ m_tcp_fifo_buffer[3][2] = 3
           /\ \A i \in 0..FIFO_BUFFER_SIZE-1 : FoundAt(i) => i = 0
           /\ m_pos_last_in_fifo # size_id => FoundAt(0)
  <1>2. /\ m_tcp_fifo_buffer[0][2] = 0 /\ m_tcp_fifo_buffer[1][2] = 1
        /\ m_tcp_fifo_buffer[3][2] = 3
    BY DEF InBuffer, Received, HeaderStays, HeaderSize
  <1>3. IdAt(0)
    BY <1>2 DEF IdAt
  <1>4. \A i \in 0..FIFO_BUFFER_SIZE-1 : FoundAt(i) => i = 0
    BY <1>3 DEF FoundAt
  <1>5. ASSUME m_pos_last_in_fifo # size_id
        PROVE  FoundAt(0)
    <2>1. Bound > 0
      BY <1>5 DEF Bound, InBuffer, Sizes, size_id, HeaderSize
    <2>2. 0..0-1 = {}
      OBVIOUS
    <2> QED BY <1>3, <2>1, <2>2 DEF FoundAt
  <1> QED BY <1>2, <1>3, <1>4, <1>5

(* A complete pack is the next one that was sent.                           *)
LEMMA CompleteIsNext ==
    ASSUME InBuffer, parsing, NEW i \in 0..FIFO_BUFFER_SIZE-1, Complete(i)
    PROVE  /\ i = 0 /\ PackSize <= m_pos_last_in_fifo
           /\ Len(delivered) < Len(sent)
           /\ m_tcp_fifo_buffer[2][1] = sent[Len(delivered) + 1]
  <1>0. transferred >= HeaderSize
    <2>1. i + PackSize <= m_pos_last_in_fifo /\ m_pos_last_in_fifo <= transferred
      BY WaitingHasCome DEF Complete
    <2> QED BY <2>1 DEF InBuffer, Sizes, HeaderSize
  <1>1. i = 0
    BY <1>0, FoundAtOnce DEF Complete
  <1>2. PackSize <= m_pos_last_in_fifo
    BY <1>1 DEF Complete, InBuffer, Sizes
  <1>3. m_tcp_fifo_buffer[2] = <<sent[Len(delivered) + 1], 2>>
    <2>1. 2 \in 0..m_pos_last_in_fifo-1 /\ 2 \in 0..PackSize-1
      BY <1>2 DEF InBuffer, Sizes, HeaderSize
    <2>2. m_tcp_fifo_buffer[2] = Cell(Len(delivered) * PackSize + 2)
      BY <2>1, WaitingCell
    <2> QED BY <2>1, <2>2, CellOfPack DEF InBuffer
  <1>4. Len(delivered) < Len(sent)
    <2> DEFINE D == Len(delivered)
               L == Len(sent)
               P == PackSize
    <2>1. D \in Nat /\ L \in Nat /\ P \in Nat /\ P > 0 /\ D <= L
      BY DEF InBuffer, StreamPlaced, Sizes, HeaderSize
    <2>2. D * P + m_pos_last_in_fifo <= L * P /\ m_pos_last_in_fifo >= P
      BY <1>2 DEF InBuffer, StreamPlaced, Received
    <2>3. m_pos_last_in_fifo \in Nat
      BY DEF InBuffer, Sizes
    <2> HIDE DEF D, L, P
    <2>4. D # L
      <3> SUFFICES ASSUME D = L PROVE FALSE
        OBVIOUS
      <3>1. D * P \in Int /\ D * P = L * P
        BY <2>1
      <3> QED BY <2>1, <2>2, <2>3, <3>1
    <2>5. D < L
      BY <2>1, <2>4
    <2> QED BY <2>5 DEF D, L
  <1> QED BY <1>1, <1>2, <1>3, <1>4

(* If no pack is complete there is less than one, and once a header has     *)
(* come nothing is misread.                                                 *)
LEMMA NothingComplete ==
    ASSUME InBuffer, parsing, ~\E i \in 0..FIFO_BUFFER_SIZE-1 : Complete(i)
    PROVE  m_pos_last_in_fifo < PackSize /\ (Misread => transferred < HeaderSize)
  <1>0. m_pos_last_in_fifo <= transferred /\ transferred \in Nat
    BY WaitingHasCome DEF InBuffer
  <1>1. /\ FIFO_BUFFER_SIZE \in Nat /\ FIFO_BUFFER_SIZE > HeaderSize
        /\ PackSize \in Nat /\ PackSize > HeaderSize
        /\ m_pos_last_in_fifo \in 0..FIFO_BUFFER_SIZE
    BY DEF InBuffer, Sizes, HeaderSize
  <1> HIDE DEF PackSize
  <1>2. m_pos_last_in_fifo < PackSize
    <2> SUFFICES ASSUME m_pos_last_in_fifo >= PackSize PROVE FALSE
      BY <1>1
    <2>1. FoundAt(0) /\ m_tcp_fifo_buffer[3][2] = 3
      BY <1>0, <1>1, FoundAtOnce DEF size_id, HeaderSize
    <2>2. Complete(0)
      BY <1>1, <2>1 DEF Complete, HeaderSize
    <2>3. 0 \in 0..FIFO_BUFFER_SIZE-1
      BY <1>1 DEF HeaderSize
    <2> QED BY <2>2, <2>3
  <1>3. ASSUME transferred >= HeaderSize
        PROVE  ~Misread
    <2>3. ~\E i \in 0..FIFO_BUFFER_SIZE-HeaderSize : FoundAt(i) /\ m_tcp_fifo_buffer[i + 3][2] # 3
      <3> SUFFICES ASSUME NEW i \in 0..FIFO_BUFFER_SIZE-HeaderSize, FoundAt(i)
                   PROVE  m_tcp_fifo_buffer[i + 3][2] = 3
        OBVIOUS
      <3>1. i \in 0..FIFO_BUFFER_SIZE-1
        BY <1>1 DEF HeaderSize
      <3>2. i = 0
        BY <3>1, <1>3, FoundAtOnce
      <3> QED BY <3>2, <1>3, FoundAtOnce
    <2>4. ~\E i \in FIFO_BUFFER_SIZE-HeaderSize+1..FIFO_BUFFER_SIZE-1 : FoundAt(i)
      <3> SUFFICES ASSUME NEW i \in FIFO_BUFFER_SIZE-HeaderSize+1..FIFO_BUFFER_SIZE-1, FoundAt(i)
                   PROVE  FALSE
        OBVIOUS
      <3>1. i \in 0..FIFO_BUFFER_SIZE-1 /\ i # 0
        BY <1>1 DEF HeaderSize
      <3> QED BY <3>1, <1>3, FoundAtOnce
    <2>5. ~(NotFound /\ m_pos_last_in_fifo < size_id)
      <3> SUFFICES ASSUME NotFound, m_pos_last_in_fifo < size_id PROVE FALSE
        OBVIOUS
      <3>1. FoundAt(0)
        BY <1>1, <1>3, FoundAtOnce DEF size_id
      <3>2. 0 < Bound /\ Bound \in Int
        BY <1>1, <3>1 DEF FoundAt, Bound, size_id
      <3> QED BY <3>1, <3>2 DEF NotFound, FoundAt
    <2> QED BY <2>3, <2>4, <2>5 DEF Misread
  <1>4. Misread => transferred < HeaderSize
    BY <1>0, <1>3 DEF HeaderSize
  <1> QED BY <1>2, <1>4

----------------------------------------------------------------------------
(* Types.                                                                   *)

TypeInv == TypeOK /\ PacksLeft /\ Sizes

LEMMA TypeInvHolds ==
    ASSUME NetInv
    PROVE  TypeInv
  BY SizesHold DEF NetInv, TypeInv, TypeOK

(* Recording a pack keeps the report's types.                               *)
LEMMA RecordType ==
    ASSUME TypeInv, NEW k \in Indices, Record(k)
    PROVE  delivered' \in Seq(Indices) /\ m_old_id' \in 0..MaxPacks /\ m_udpLostRate' \in Nat
  <1>1. delivered \in Seq(Indices) /\ m_udpLostRate \in Nat
    BY DEF TypeInv, TypeOK
  <1>2. delivered' = Append(delivered, k) /\ m_old_id' = k
    BY DEF Record
  <1>3. delivered' \in Seq(Indices)
    BY <1>1, <1>2
  <1>4. m_udpLostRate' \in {m_udpLostRate, m_udpLostRate + 1}
    BY DEF Record
  <1>5. k \in 0..MaxPacks
    BY DEF Indices, TypeInv, Sizes
  <1> QED BY <1>1, <1>2, <1>3, <1>4, <1>5

LEMMA ClientsType ==
    ASSUME TypeInv, Clients
    PROVE  TypeOK'
  <1> USE DEF config, server, sending, clientele, fifo, report, receiving
  <1>1. CASE ClientStart
    <2>1. clients + 1 \in 1..MaxClients
      BY <1>1 DEF ClientStart, TypeInv, TypeOK, Sizes
    <2>2. requests' \subseteq (0..MaxClients) \X {0, 1}
      BY <1>1, <2>1 DEF ClientStart, TypeInv, TypeOK
    <2>3. NewBuffer \in [0..FIFO_BUFFER_SIZE-1 -> CellType]
      BY DEF NewBuffer, CellType
    <2>4. CellType' = CellType
      BY <1>1 DEF ClientStart, CellType, PackSize
    <2>5. /\ 0 \in 0..FIFO_BUFFER_SIZE /\ 0 \in 0..MaxPacks /\ clients' \in 0..MaxClients
          /\ client' \in {"asks", "up"} /\ <<>> \in Seq(Indices)
      BY <1>1, <2>1 DEF ClientStart, TypeInv, Sizes
    <2> QED BY <1>1, <2>2, <2>3, <2>4, <2>5 DEF ClientStart, TypeInv, TypeOK
  <1>2. CASE ClientEnds
    <2>1. CellType' = CellType
      BY <1>2 DEF ClientEnds, CellType, PackSize
    <2>2. requests' \subseteq (0..MaxClients) \X {0, 1}
      <3>1. clients \in 0..MaxClients /\ requests \subseteq (0..MaxClients) \X {0, 1}
        BY DEF TypeInv, TypeOK
      <3>2. requests' \subseteq requests \cup {<<clients, 0>>}
        BY <1>2 DEF ClientEnds
      <3> QED BY <3>1, <3>2
    <2>3. client' \in {"left", "down"} /\ net' = {}
      BY <1>2 DEF ClientEnds
    <2> QED BY <1>2, <2>1, <2>2, <2>3 DEF ClientEnds, TypeInv, TypeOK
  <1> QED BY <1>1, <1>2 DEF Clients

LEMMA NetworkType ==
    ASSUME TypeInv, Network
    PROVE  TypeOK'
  <1> USE DEF config, server, sending, clientele, fifo, report, receiving
  <1>1. CASE Accept
    <2>1. CellType' = CellType
      BY <1>1 DEF Accept, CellType, PackSize
    <2> QED BY <1>1, <2>1 DEF Accept, TypeInv, TypeOK
  <1>2. CASE Requested
    <2>1. PICK r \in requests :
             /\ requests' = requests \ {r}
             /\ \/ endpoint' = r[1] /\ connected' = (r[2] = 1)
                \/ UNCHANGED <<endpoint, connected>>
             /\ UNCHANGED <<config, accepting, mishap, sending, client, clients, sent, net,
                            receiving>>
      BY <1>2 DEF Requested
    <2>2. requests \subseteq (0..MaxClients) \X {0, 1}
      BY DEF TypeInv, TypeOK
    <2>3. r[1] \in 0..MaxClients /\ requests' \subseteq (0..MaxClients) \X {0, 1}
      BY <2>1, <2>2
    <2>4. endpoint' \in 0..MaxClients /\ connected' \in BOOLEAN
      BY <2>1, <2>3 DEF TypeInv, TypeOK
    <2>5. CellType' = CellType
      BY <2>1 DEF CellType, PackSize
    <2> QED BY <2>1, <2>3, <2>4, <2>5 DEF TypeInv, TypeOK
  <1>3. CASE LosePack
    <2>1. PICK k \in net : /\ net' = net \ {k}
                           /\ UNCHANGED <<config, server, sending, clientele, sent, receiving>>
      BY <1>3 DEF LosePack
    <2>2. CellType' = CellType
      BY <2>1 DEF CellType, PackSize
    <2> QED BY <2>1, <2>2 DEF TypeInv, TypeOK
  <1>4. CASE AcceptFails
    <2>1. CellType' = CellType
      BY <1>4 DEF AcceptFails, CellType, PackSize
    <2>2. client' \in {"asks", "left", "down"}
      BY <1>4 DEF AcceptFails
    <2> QED BY <1>4, <2>1, <2>2 DEF AcceptFails, TypeInv, TypeOK
  <1> QED BY <1>1, <1>2, <1>3, <1>4 DEF Network

(* A pack takes an index within the bound.                                  *)
LEMMA NextPackType ==
    ASSUME TypeInv, NextPack
    PROVE  /\ m_index_of_message \in Indices
           /\ m_index_of_message' \in 0..MaxPacks /\ left' \in 0..PacksPerBuffer
           /\ m_index_of_message' + left' <= MaxPacks
  <1>1. /\ m_index_of_message \in 0..MaxPacks /\ left \in 0..PacksPerBuffer /\ left > 0
        /\ m_index_of_message + left <= MaxPacks
        /\ MaxPacks \in Nat /\ PacksPerBuffer \in Nat
    BY DEF TypeInv, TypeOK, PacksLeft, NextPack, Sizes
  <1>2. m_index_of_message' = m_index_of_message + 1 /\ left' = left - 1
    BY DEF NextPack
  <1> QED BY <1>1, <1>2 DEF Indices

LEMMA PassBuffersType ==
    ASSUME TypeInv, passBuffers
    PROVE  TypeOK' /\ PacksLeft'
  <1> USE DEF config, server, sending, clientele, fifo, report, receiving
  <1>0. /\ MaxPacks \in Nat /\ PacksPerBuffer \in Nat \ {0}
        /\ m_index_of_message \in 0..MaxPacks /\ left \in 0..PacksPerBuffer
        /\ m_index_of_message + left <= MaxPacks
    BY DEF TypeInv, Sizes, TypeOK, PacksLeft
  <1>1. ASSUME Goes, NextPack
        PROVE  sender' \in {"idle", "pass"} /\ (sender' = "pass" => left' > 0)
    <2>1. left > 0 /\ left' = left - 1 /\ sender' = IF left = 1 THEN "idle" ELSE "pass"
      BY <1>1 DEF Goes, NextPack, TypeInv, PacksLeft
    <2> QED BY <1>0, <2>1
  <1>2. CASE Pass
    <2>1. CellType' = CellType
      BY <1>2 DEF Pass, CellType, PackSize
    <2>2. /\ m_index_of_message' = m_index_of_message /\ left' = PacksPerBuffer
          /\ m_index_of_message + PacksPerBuffer <= MaxPacks /\ sender' = "pass"
      BY <1>2 DEF Pass
    <2>3. PacksLeft' /\ left' \in 0..PacksPerBuffer
      BY <1>0, <2>2 DEF PacksLeft
    <2> QED BY <1>2, <2>1, <2>2, <2>3 DEF Pass, TypeInv, TypeOK
  <1>3. CASE SendPack
    <2>1. CellType' = CellType
      BY <1>3 DEF SendPack, CellType, PackSize
    <2>2. NextPack /\ Goes
      BY <1>3 DEF SendPack
    <2>3. sent' \in Seq(Indices) /\ net' \subseteq Indices
      <3>1. sent \in Seq(Indices) /\ net \subseteq Indices /\ m_index_of_message \in Indices
        BY <2>2, NextPackType DEF TypeInv, TypeOK
      <3>2. /\ sent' = Append(sent, m_index_of_message) \/ sent' = sent
            /\ net' \subseteq net \cup {m_index_of_message}
        BY <1>3 DEF SendPack
      <3>3. Append(sent, m_index_of_message) \in Seq(Indices)
        BY <3>1
      <3>4. sent' \in Seq(Indices)
        BY <3>1, <3>2, <3>3
      <3>5. net' \subseteq Indices
        BY <3>1, <3>2
      <3> QED BY <3>4, <3>5
    <2>4. PacksLeft'
      BY <1>1, <2>2, NextPackType DEF PacksLeft
    <2>5. /\ m_index_of_message' \in 0..MaxPacks /\ left' \in 0..PacksPerBuffer
          /\ sender' \in {"idle", "pass"}
      BY <1>1, <2>2, NextPackType
    <2>6. UNCHANGED <<config, server, clientele, receiving>>
      BY <1>3 DEF SendPack
    <2>7. TypeOK'
      BY <2>1, <2>3, <2>5, <2>6 DEF TypeInv, TypeOK
    <2> QED BY <2>4, <2>7
  <1>4. CASE PeerGone
    <2>1. CellType' = CellType
      BY <1>4 DEF PeerGone, CellType, PackSize
    <2>2. NextPack /\ sender' = "failed"
      BY <1>4 DEF PeerGone
    <2>3. PacksLeft'
      BY <2>2, NextPackType DEF PacksLeft
    <2> QED BY <1>4, <2>1, <2>2, <2>3, NextPackType DEF PeerGone, TypeInv, TypeOK
  <1>5. CASE PeerReset
    <2>1. CellType' = CellType
      BY <1>5 DEF PeerReset, CellType, PackSize
    <2>2. /\ m_index_of_message' = m_index_of_message /\ left' = left
          /\ sender' = IF left = 0 THEN "idle" ELSE "pass"
      BY <1>5 DEF PeerReset
    <2>3. PacksLeft'
      BY <1>0, <2>2 DEF PacksLeft
    <2> QED BY <1>5, <2>1, <2>2, <2>3 DEF PeerReset, TypeInv, TypeOK
  <1>6. CASE SendFails
    <2>1. CellType' = CellType
      BY <1>6 DEF SendFails, CellType, PackSize
    <2>2. NextPack /\ Goes
      BY <1>6 DEF SendFails
    <2>3. PacksLeft'
      BY <1>1, <2>2, NextPackType DEF PacksLeft
    <2> QED BY <1>1, <1>6, <2>1, <2>2, <2>3, NextPackType DEF SendFails, TypeInv, TypeOK
  <1> QED BY <1>2, <1>3, <1>4, <1>5, <1>6 DEF passBuffers

(* Only TCP is taken apart.                                                 *)
LEMMA TcpOnly ==
    ASSUME NetInv, parsing
    PROVE  InBuffer
  <1>1. m_protocol = "TCP"
    BY DEF NetInv, OneProtocol, TypeOK
  <1> QED BY <1>1, InBufferHolds

LEMMA TakeFacts ==
    ASSUME NetInv, Take
    PROVE  /\ InBuffer /\ PackSize <= m_pos_last_in_fifo /\ Len(delivered) < Len(sent)
           /\ sent[Len(delivered) + 1] \in Indices
           /\ Record(sent[Len(delivered) + 1])
           /\ m_pos_last_in_fifo' = m_pos_last_in_fifo - PackSize
           /\ m_tcp_fifo_buffer' = [j \in 0..FIFO_BUFFER_SIZE-1 |->
                 IF j < m_pos_last_in_fifo' THEN m_tcp_fifo_buffer[j + PackSize]
                 ELSE m_tcp_fifo_buffer[j]]
           /\ parsing' = (m_pos_last_in_fifo' > size_id)
           /\ UNCHANGED <<config, server, sending, clientele, sent, net, transferred,
                          m_last_pack_id, undefined>>
  <1>1. PICK i \in 0..FIFO_BUFFER_SIZE-1 :
        /\ parsing /\ Complete(i)
        /\ Record(m_tcp_fifo_buffer[i + 2][1])
        /\ m_pos_last_in_fifo' = m_pos_last_in_fifo - (PackSize + i)
        /\ m_tcp_fifo_buffer' = [j \in 0..FIFO_BUFFER_SIZE-1 |->
              IF j < m_pos_last_in_fifo - (PackSize + i) THEN m_tcp_fifo_buffer[j + PackSize + i]
              ELSE m_tcp_fifo_buffer[j]]
        /\ parsing' = (m_pos_last_in_fifo' > size_id)
        /\ UNCHANGED <<config, server, sending, clientele, sent, net, transferred,
                       m_last_pack_id, undefined>>
    BY DEF Take
  <1>2. InBuffer
    BY <1>1, TcpOnly
  <1>3. /\ i = 0 /\ PackSize <= m_pos_last_in_fifo /\ Len(delivered) < Len(sent)
        /\ m_tcp_fifo_buffer[2][1] = sent[Len(delivered) + 1]
    BY <1>1, <1>2, CompleteIsNext
  <1>4. sent[Len(delivered) + 1] \in Indices
    BY <1>2, <1>3 DEF InBuffer
  <1>5. PackSize \in Nat /\ m_pos_last_in_fifo \in Nat
    BY <1>2 DEF InBuffer, Sizes
  <1>6. /\ i + 2 = 2 /\ PackSize + i = PackSize
        /\ \A j \in 0..FIFO_BUFFER_SIZE-1 : j + PackSize + i = j + PackSize
    BY <1>3, <1>5
  <1>7. Record(sent[Len(delivered) + 1])
    BY <1>1, <1>3, <1>6
  <1>8. m_pos_last_in_fifo' = m_pos_last_in_fifo - PackSize
    BY <1>1, <1>6
  <1>9. m_tcp_fifo_buffer' = [j \in 0..FIFO_BUFFER_SIZE-1 |->
                 IF j < m_pos_last_in_fifo' THEN m_tcp_fifo_buffer[j + PackSize]
                 ELSE m_tcp_fifo_buffer[j]]
    BY <1>1, <1>6, <1>8
  <1> QED BY <1>1, <1>2, <1>3, <1>4, <1>7, <1>8, <1>9

LEMMA HandlerType ==
    ASSUME NetInv, HandlerReceiveFromServer
    PROVE  TypeOK'
  <1> USE DEF config, server, sending, clientele, fifo, report, receiving
  <1>0. TypeInv
    BY TypeInvHolds
  <1>1. CASE ReceivePack
    <2>1. PICK k \in net :
            /\ net' \in {net, net \ {k}}
            /\ IF k > m_last_pack_id
               THEN Record(k) /\ m_last_pack_id' = k
               ELSE UNCHANGED <<report, m_last_pack_id>>
            /\ UNCHANGED <<config, server, sending, clientele, sent, fifo, parsing, transferred,
                           undefined>>
      BY <1>1 DEF ReceivePack
    <2>2. k \in Indices /\ k \in 0..MaxPacks
      BY <1>0 DEF TypeInv, TypeOK, Indices, Sizes
    <2>3. CellType' = CellType
      BY <2>1 DEF CellType, PackSize
    <2>4. /\ delivered' \in Seq(Indices) /\ m_old_id' \in 0..MaxPacks /\ m_udpLostRate' \in Nat
          /\ m_last_pack_id' \in 0..MaxPacks
      <3>1. CASE k > m_last_pack_id
        BY <1>0, <2>1, <2>2, <3>1, RecordType
      <3>2. CASE ~(k > m_last_pack_id)
        BY <1>0, <2>1, <3>2 DEF TypeInv, TypeOK
      <3> QED BY <3>1, <3>2
    <2>5. net' \subseteq Indices
      BY <1>0, <2>1 DEF TypeInv, TypeOK
    <2>6. UNCHANGED <<config, server, sending, clientele, sent, fifo, parsing, transferred, undefined>>
      BY <2>1
    <2> QED BY <1>0, <2>3, <2>4, <2>5, <2>6 DEF TypeInv, TypeOK
  <1>2. CASE ReceiveCells
    <2>1. PICK n \in 1..SOCKET_BUFFER_SIZE :
        /\ client = "up" /\ m_protocol = "TCP"
        /\ transferred + n <= Len(sent) * PackSize
        /\ IF m_pos_last_in_fifo + n > FIFO_BUFFER_SIZE
           THEN client' = "overflow" /\ UNCHANGED <<fifo, parsing, transferred>>
           ELSE /\ m_tcp_fifo_buffer' = [i \in 0..FIFO_BUFFER_SIZE-1 |->
                      IF i - m_pos_last_in_fifo \in 0..n-1
                      THEN Cell(transferred + i - m_pos_last_in_fifo) ELSE m_tcp_fifo_buffer[i]]
                /\ m_pos_last_in_fifo' = m_pos_last_in_fifo + n
                /\ transferred' = transferred + n
                /\ parsing' = TRUE /\ UNCHANGED client
        /\ UNCHANGED <<config, server, sending, clients, requests, sent, net, m_last_pack_id,
                       report, undefined>>
      BY <1>2 DEF ReceiveCells
    <2>2. CellType' = CellType
      BY <2>1 DEF CellType, PackSize
    <2>3. CASE m_pos_last_in_fifo + n > FIFO_BUFFER_SIZE
      BY <1>0, <2>1, <2>2, <2>3 DEF TypeInv, TypeOK
    <2>4. CASE ~(m_pos_last_in_fifo + n > FIFO_BUFFER_SIZE)
      <3>1. /\ m_pos_last_in_fifo \in 0..FIFO_BUFFER_SIZE /\ transferred \in Nat
            /\ sent \in Seq(Indices) /\ FIFO_BUFFER_SIZE \in Nat /\ SOCKET_BUFFER_SIZE \in Nat
            /\ m_tcp_fifo_buffer \in [0..FIFO_BUFFER_SIZE-1 -> CellType]
        BY <1>0 DEF TypeInv, TypeOK, Sizes
      <3>2. m_pos_last_in_fifo' \in 0..FIFO_BUFFER_SIZE /\ transferred' \in Nat
        BY <2>1, <2>4, <3>1
      <3>3. Len(sent) * PackSize \in Int
        BY <1>0, <3>1 DEF TypeInv, Sizes
      <3>4. ASSUME NEW i \in 0..FIFO_BUFFER_SIZE-1, i - m_pos_last_in_fifo \in 0..n-1
            PROVE  Cell(transferred + i - m_pos_last_in_fifo) \in CellType
        <4>1. /\ transferred + i - m_pos_last_in_fifo \in Nat
              /\ transferred + i - m_pos_last_in_fifo < Len(sent) * PackSize
          BY <2>1, <3>1, <3>3, <3>4
        <4> QED BY <1>0, <3>1, <4>1, CellIsCell DEF TypeInv
      <3>5. m_tcp_fifo_buffer' \in [0..FIFO_BUFFER_SIZE-1 -> CellType]
        BY <2>1, <2>4, <3>1, <3>4
      <3> QED BY <1>0, <2>1, <2>2, <2>4, <3>2, <3>5 DEF TypeInv, TypeOK
    <2> QED BY <2>3, <2>4
  <1>3. CASE Take
    <2>1. CellType' = CellType
      BY <1>3, TakeFacts DEF CellType, PackSize
    <2>2. /\ delivered' \in Seq(Indices) /\ m_old_id' \in 0..MaxPacks /\ m_udpLostRate' \in Nat
      BY <1>0, <1>3, TakeFacts, RecordType
    <2>3. /\ PackSize \in Nat /\ FIFO_BUFFER_SIZE \in Nat
          /\ m_pos_last_in_fifo \in 0..FIFO_BUFFER_SIZE
          /\ m_pos_last_in_fifo' = m_pos_last_in_fifo - PackSize /\ PackSize <= m_pos_last_in_fifo
          /\ m_tcp_fifo_buffer \in [0..FIFO_BUFFER_SIZE-1 -> CellType]
      BY <1>3, TakeFacts DEF InBuffer, Sizes
    <2>4. m_pos_last_in_fifo' \in 0..FIFO_BUFFER_SIZE
      BY <2>3
    <2>5. m_tcp_fifo_buffer' \in [0..FIFO_BUFFER_SIZE-1 -> CellType]
      <3>1. \A j \in 0..FIFO_BUFFER_SIZE-1 :
              j < m_pos_last_in_fifo' => j + PackSize \in 0..FIFO_BUFFER_SIZE-1
        BY <2>3
      <3> QED BY <1>3, <2>3, <3>1, TakeFacts
    <2>6. /\ parsing' \in BOOLEAN
          /\ UNCHANGED <<config, server, sending, clientele, sent, net, transferred,
                         m_last_pack_id, undefined>>
      BY <1>3, TakeFacts
    <2> QED BY <1>0, <2>1, <2>2, <2>4, <2>5, <2>6 DEF TypeInv, TypeOK
  <1>4. CASE Wait
    <2>1. CellType' = CellType
      BY <1>4 DEF Wait, CellType, PackSize
    <2>2. undefined' \in BOOLEAN /\ parsing' \in BOOLEAN
      BY <1>4 DEF Wait
    <2> QED BY <1>0, <1>4, <2>1, <2>2 DEF Wait, TypeInv, TypeOK
  <1> QED BY <1>1, <1>2, <1>3, <1>4 DEF HandlerReceiveFromServer

----------------------------------------------------------------------------
(* The stream is whole.                                                     *)

StreamInv == MisreadsFirstOnly /\ StreamPlaced /\ (m_protocol = "TCP" => Received)

(* What leaves the stream and the client's buffer alone keeps them.         *)
LEMMA StreamUntouched ==
    ASSUME StreamInv, UNCHANGED <<config, sent, fifo, parsing, transferred, delivered, undefined>>
    PROVE  StreamInv'
  <1>1. \A n : Cell(n)' = Cell(n)
    BY DEF Cell, PackSize, config
  <1> QED BY <1>1 DEF config, fifo, StreamInv, MisreadsFirstOnly, StreamPlaced, Received, HeaderStays,
                      LessThanPack, PackSize

(* One more pack is sent.                                                   *)
LEMMA StreamGrows ==
    ASSUME InBuffer, StreamInv, NEW k \in Indices, sent' = Append(sent, k),
           UNCHANGED <<config, fifo, parsing, transferred, delivered, undefined>>
    PROVE  StreamInv'
  <1> DEFINE P == PackSize
             L == Len(sent)
  <1>1. /\ P \in Nat /\ P > 0 /\ PackSize' = P /\ payload' = payload /\ L \in Nat
        /\ Len(sent') = L + 1 /\ sent \in Seq(Indices)
    BY DEF InBuffer, Sizes, PackSize, config, HeaderSize
  <1>2. \A i \in 1..L : sent'[i] = sent[i]
    BY <1>1
  <1>3. \A n \in Nat : n < L * P => Cell(n)' = Cell(n)
    BY <1>1, CellIsKept DEF InBuffer
  <1>4. /\ m_pos_last_in_fifo \in Nat /\ transferred \in Nat /\ transferred <= L * P
        /\ transferred - m_pos_last_in_fifo \in Nat
    <2>1. Len(delivered) * PackSize \in Nat
      BY DEF InBuffer, Sizes
    <2> QED BY <2>1 DEF InBuffer, Sizes, StreamPlaced, Received
  <1>5. L * P <= (L + 1) * P /\ L * P \in Int /\ (L + 1) * P \in Int
    <2> HIDE DEF P, L
    <2>1. (L + 1) * P = L * P + P
      BY <1>1
    <2> QED BY <1>1, <2>1
  <1> HIDE DEF P, L
  <1>6. transferred' <= Len(sent') * PackSize'
    <2>1. transferred' = transferred /\ Len(sent') * PackSize' = (L + 1) * P
      BY <1>1
    <2> QED BY <1>4, <1>5, <2>1
  <1>7. Received'
    <2>1. HeaderStays' /\ LessThanPack'
      BY <1>1 DEF InBuffer, Received, HeaderStays, LessThanPack, fifo, P
    <2> QED BY <1>6, <2>1 DEF Received
  <1>8. StreamPlaced'
    <2>1. Len(delivered') <= Len(sent') /\ \A i \in 1..Len(delivered') : delivered'[i] = sent'[i]
      <3>1. Len(delivered) <= L /\ Len(delivered) \in Nat
        BY DEF InBuffer, StreamPlaced, L
      <3>2. \A i \in 1..Len(delivered) : delivered[i] = sent[i]
        BY DEF InBuffer, StreamPlaced
      <3>3. 1..Len(delivered) \subseteq 1..L
        BY <1>1, <3>1
      <3> QED BY <1>1, <1>2, <3>1, <3>2, <3>3
    <2>2. transferred' = Len(delivered') * PackSize' + m_pos_last_in_fifo'
      <3>1. transferred = Len(delivered) * PackSize + m_pos_last_in_fifo
        BY DEF InBuffer, StreamPlaced
      <3> QED BY <1>1, <3>1 DEF fifo, P
    <2>3. ASSUME NEW j \in 0..m_pos_last_in_fifo-1
          PROVE  m_tcp_fifo_buffer[j] = Cell(transferred - m_pos_last_in_fifo + j)'
      <3>1. m_tcp_fifo_buffer[j] = Cell(transferred - m_pos_last_in_fifo + j)
        BY DEF InBuffer, StreamPlaced
      <3>2. /\ transferred - m_pos_last_in_fifo + j \in Nat
            /\ transferred - m_pos_last_in_fifo + j < L * P
        BY <1>4, <1>5
      <3>3. (transferred - m_pos_last_in_fifo + j)' = transferred - m_pos_last_in_fifo + j
        BY DEF fifo
      <3> HIDE DEF Cell
      <3>4. Cell(transferred - m_pos_last_in_fifo + j)' = Cell(transferred - m_pos_last_in_fifo + j)
        BY <1>3, <3>2, <3>3 DEF Cell
      <3> QED BY <3>1, <3>4
    <2> QED BY <2>1, <2>2, <2>3 DEF StreamPlaced, fifo, Cell
  <1>9. MisreadsFirstOnly'
    BY DEF StreamInv, MisreadsFirstOnly
  <1> QED BY <1>7, <1>8, <1>9 DEF StreamInv

(* What is received fits, and stands where it was sent.                     *)
LEMMA StreamReceives ==
    ASSUME NetInv, ReceiveCells
    PROVE  StreamInv' /\ client' = client
  <1> DEFINE P == PackSize
             D == Len(delivered)
             B == Len(delivered) * PackSize
             pos == m_pos_last_in_fifo
  <1>1. PICK n \in 1..SOCKET_BUFFER_SIZE :
        /\ client = "up" /\ m_protocol = "TCP" /\ ~parsing /\ ~undefined
        /\ transferred + n <= Len(sent) * P
        /\ IF pos + n > FIFO_BUFFER_SIZE
           THEN client' = "overflow" /\ UNCHANGED <<fifo, parsing, transferred>>
           ELSE /\ m_tcp_fifo_buffer' = [i \in 0..FIFO_BUFFER_SIZE-1 |->
                      IF i - pos \in 0..n-1
                      THEN Cell(transferred + i - pos) ELSE m_tcp_fifo_buffer[i]]
                /\ pos' = pos + n
                /\ transferred' = transferred + n
                /\ parsing' = TRUE /\ UNCHANGED client
        /\ UNCHANGED <<config, server, sending, clients, requests, sent, net, m_last_pack_id,
                       report, undefined>>
    BY DEF ReceiveCells
  <1>2. InBuffer
    BY <1>1, InBufferHolds
  <1>3. /\ P \in Nat /\ P > HeaderSize /\ D \in Nat /\ B \in Nat /\ pos \in Nat
        /\ transferred \in Nat /\ SOCKET_BUFFER_SIZE \in Nat /\ FIFO_BUFFER_SIZE \in Nat
        /\ FIFO_BUFFER_SIZE >= SOCKET_BUFFER_SIZE + P
        /\ transferred = B + pos /\ pos < P
        /\ D <= Len(sent) /\ \A i \in 1..D : delivered[i] = sent[i]
        /\ \A j \in 0..pos-1 : m_tcp_fifo_buffer[j] = Cell(transferred - pos + j)
    BY <1>1, <1>2 DEF InBuffer, Sizes, StreamPlaced, Received, LessThanPack
  <1> HIDE DEF B
  <1>4. ~(pos + n > FIFO_BUFFER_SIZE)
    BY <1>3
  <1>5. /\ m_tcp_fifo_buffer' = [i \in 0..FIFO_BUFFER_SIZE-1 |->
              IF i - pos \in 0..n-1 THEN Cell(transferred + i - pos) ELSE m_tcp_fifo_buffer[i]]
        /\ pos' = pos + n /\ transferred' = transferred + n /\ parsing' = TRUE
        /\ client' = client
        /\ UNCHANGED <<m_protocol, payload, sent, delivered, undefined>>
    BY <1>1, <1>4 DEF config, report
  <1>6. P' = P /\ D' = D /\ B' = B /\ \A m : Cell(m)' = Cell(m)
    BY <1>5 DEF PackSize, Cell, B
  <1>7. StreamPlaced'
    <2>1. transferred' = B' + pos' /\ transferred' - pos' = transferred - pos
      BY <1>3, <1>5, <1>6
    <2>2. ASSUME NEW j \in 0..pos+n-1
          PROVE  m_tcp_fifo_buffer'[j] = Cell(transferred' - pos' + j)
      <3>1. j \in 0..FIFO_BUFFER_SIZE-1
        BY <1>3, <1>4
      <3>2. CASE j < pos
        <4>1. ~(j - pos \in 0..n-1) /\ j \in 0..pos-1
          BY <1>3, <3>2
        <4>2. m_tcp_fifo_buffer'[j] = m_tcp_fifo_buffer[j]
          BY <1>5, <3>1, <4>1
        <4> QED BY <1>3, <2>1, <4>1, <4>2
      <3>3. CASE ~(j < pos)
        <4>1. j - pos \in 0..n-1
          BY <1>3, <3>3
        <4>2. m_tcp_fifo_buffer'[j] = Cell(transferred + j - pos)
          BY <1>5, <3>1, <4>1
        <4>3. transferred + j - pos = transferred' - pos' + j
          BY <1>3, <2>1
        <4> QED BY <4>2, <4>3
      <3> QED BY <3>2, <3>3
    <2> HIDE DEF P, D, pos
    <2>3. \A j \in 0..pos'-1 :
            m_tcp_fifo_buffer'[j] = <<sent'[(transferred' - pos' + j) \div P' + 1],
                                      (transferred' - pos' + j) % P'>>
      <3>1. \A j \in 0..pos'-1 : m_tcp_fifo_buffer'[j] = Cell(transferred' - pos' + j)
        <4>1. pos' = pos + n
          BY <1>5
        <4>2. pos' - 1 = pos + n - 1
          BY <1>3, <4>1
        <4>3. 0..(pos' - 1) = 0..(pos + n - 1)
          BY <4>2
        <4> QED BY <4>3, <2>2
      <3>2. sent' = sent /\ P' = P
        BY <1>5, <1>6
      <3> QED BY <3>1, <3>2 DEF Cell, P
    <2>4. D' <= Len(sent') /\ \A i \in 1..D' : delivered'[i] = sent'[i]
      BY <1>3, <1>5, <1>6
    <2> QED BY <2>1, <2>3, <2>4 DEF StreamPlaced, Cell, P, D, B, pos
  <1>8. HeaderStays'
    <2> SUFFICES ASSUME transferred' >= HeaderSize, NEW j \in 0..HeaderSize-1
                 PROVE  m_tcp_fifo_buffer'[j][2] = j
      BY DEF HeaderStays
    <2>1. j \in 0..FIFO_BUFFER_SIZE-1 /\ j \in 0..P-1
      BY <1>3 DEF HeaderSize
    <2>2. CASE j - pos \in 0..n-1
      <3>1. m_tcp_fifo_buffer'[j] = Cell(transferred + j - pos)
        BY <1>5, <2>1, <2>2
      <3>2. transferred + j - pos = B + j
        BY <1>3
      <3>3. Cell(B + j) = <<sent[D + 1], j>>
        BY <1>2, <1>3, <2>1, CellOfPack DEF InBuffer, B
      <3> QED BY <3>1, <3>2, <3>3
    <2>3. CASE j < pos
      <3>1. m_tcp_fifo_buffer'[j] = m_tcp_fifo_buffer[j]
        BY <1>3, <1>5, <2>1, <2>3
      <3>2. m_tcp_fifo_buffer[j] = Cell(B + j)
        <4>1. j \in 0..pos-1
          BY <1>3, <2>1, <2>3
        <4> QED BY <1>2, <4>1, WaitingCell DEF B
      <3>3. Cell(B + j) = <<sent[D + 1], j>>
        BY <1>2, <1>3, <2>1, CellOfPack DEF InBuffer, B
      <3> QED BY <3>1, <3>2, <3>3
    <2>4. CASE j >= pos + n
      <3>1. m_tcp_fifo_buffer'[j] = m_tcp_fifo_buffer[j]
        BY <1>3, <1>5, <2>1, <2>4
      <3>2. B # 0
        BY <1>3, <1>5, <2>1, <2>4 DEF HeaderSize
      <3>3. B >= P
        <4>1. D # 0 /\ B = D * P
          <5>1. B = D * P
            BY DEF B
          <5> HIDE DEF D, P
          <5>2. D = 0 => D * P = 0
            BY <1>3
          <5> QED BY <3>2, <5>1, <5>2
        <4> HIDE DEF D, P
        <4>2. D >= 1 /\ P \in Nat
          BY <1>3, <4>1
        <4>3. D * P >= 1 * P
          BY <1>3, <4>2
        <4> QED BY <4>1, <4>2, <4>3
      <3>4. transferred >= HeaderSize
        BY <1>3, <3>3 DEF HeaderSize
      <3> QED BY <1>2, <3>1, <3>4 DEF InBuffer, Received, HeaderStays
    <2> QED BY <1>3, <2>1, <2>2, <2>3, <2>4
  <1>9. Received'
    <2>1. transferred' <= Len(sent') * PackSize'
      <3>1. transferred + n <= Len(sent) * P /\ transferred' = transferred + n /\ sent' = sent
        BY <1>1, <1>5
      <3> HIDE DEF D
      <3> QED BY <1>6, <3>1
    <2>2. LessThanPack'
      <3>1. parsing' /\ transferred' > 0
        BY <1>3, <1>5
      <3> QED BY <3>1 DEF LessThanPack
    <2> QED BY <1>8, <2>1, <2>2 DEF Received
  <1>10. MisreadsFirstOnly'
    BY <1>1, <1>5 DEF MisreadsFirstOnly
  <1> QED BY <1>5, <1>7, <1>9, <1>10 DEF StreamInv

(* Taking a pack records the next one and leaves the rest in its place.     *)
LEMMA StreamTaken ==
    ASSUME NetInv, Take
    PROVE  StreamInv'
  <1> DEFINE P == PackSize
             D == Len(delivered)
             B == Len(delivered) * PackSize
             pos == m_pos_last_in_fifo
  <1>1. /\ InBuffer /\ P <= pos /\ D < Len(sent) /\ sent[D + 1] \in Indices
        /\ delivered' = Append(delivered, sent[D + 1])
        /\ pos' = pos - P
        /\ m_tcp_fifo_buffer' = [j \in 0..FIFO_BUFFER_SIZE-1 |->
              IF j < pos' THEN m_tcp_fifo_buffer[j + P] ELSE m_tcp_fifo_buffer[j]]
        /\ parsing' = (pos' > size_id)
        /\ UNCHANGED <<m_protocol, payload, sent, transferred, undefined>>
    BY TakeFacts DEF Record, config
  <1>2. /\ P \in Nat /\ P > HeaderSize /\ D \in Nat /\ B \in Nat
        /\ pos \in 0..FIFO_BUFFER_SIZE /\ FIFO_BUFFER_SIZE \in Nat /\ transferred \in Nat
        /\ transferred = B + pos /\ Len(sent) \in Nat /\ delivered \in Seq(Indices)
        /\ \A i \in 1..D : delivered[i] = sent[i]
        /\ \A j \in 0..pos-1 : m_tcp_fifo_buffer[j] = Cell(transferred - pos + j)
        /\ transferred <= Len(sent) * P
        /\ transferred >= HeaderSize => \A j \in 0..HeaderSize-1 : m_tcp_fifo_buffer[j][2] = j
    BY <1>1 DEF InBuffer, Sizes, StreamPlaced, Received, HeaderStays
  <1>3. P' = P /\ (\A m : Cell(m)' = Cell(m)) /\ Len(delivered') = D + 1
    BY <1>1, <1>2 DEF PackSize, Cell
  <1>4. Len(delivered') * PackSize' = B + P
    <2>1. (D + 1) * P = D * P + P
      <3> HIDE DEF P, D
      <3> QED BY <1>2
    <2> QED BY <1>3, <2>1
  <1> HIDE DEF B
  <1>5. /\ P \in Nat /\ P > 0 /\ pos \in Nat /\ pos <= FIFO_BUFFER_SIZE /\ FIFO_BUFFER_SIZE \in Nat
        /\ transferred \in Nat /\ P <= pos /\ pos' = pos - P
        /\ transferred - pos' = B + P /\ transferred = B + P + pos' /\ pos' \in Nat
        /\ transferred >= HeaderSize /\ transferred > 0
    <2>1. P \in Nat /\ P > HeaderSize /\ B \in Nat
      BY <1>2 DEF HeaderSize
    <2>2. /\ pos \in Nat /\ pos <= FIFO_BUFFER_SIZE /\ FIFO_BUFFER_SIZE \in Nat
          /\ transferred \in Nat /\ transferred = B + pos
      BY <1>2
    <2>3. P <= pos /\ pos' = pos - P
      BY <1>1
    <2> HIDE DEF P, D, pos
    <2> QED BY <2>1, <2>2, <2>3 DEF HeaderSize
  <1>6. ASSUME NEW j \in 0..pos'-1
        PROVE  /\ m_tcp_fifo_buffer'[j] = Cell(transferred - pos' + j)
               /\ j \in 0..FIFO_BUFFER_SIZE-1
    <2>1. j + P \in 0..pos-1 /\ j \in 0..FIFO_BUFFER_SIZE-1 /\ j < pos'
      <3> HIDE DEF P, D, pos
      <3> QED BY <1>5
    <2>2. m_tcp_fifo_buffer'[j] = m_tcp_fifo_buffer[j + P]
      BY <1>1, <2>1
    <2>3. m_tcp_fifo_buffer[j + P] = Cell(transferred - pos + (j + P))
      BY <1>2, <2>1
    <2>4. transferred - pos + (j + P) = transferred - pos' + j
      <3> HIDE DEF P, D, pos
      <3> QED BY <1>5
    <2> QED BY <2>1, <2>2, <2>3, <2>4
  <1>7. StreamPlaced'
    <2>1. \A i \in 1..D+1 : delivered'[i] = sent[i]
      <3>1. \A i \in 1..D : delivered'[i] = delivered[i]
        BY <1>1, <1>2
      <3>2. delivered'[D + 1] = sent[D + 1]
        BY <1>1, <1>2
      <3> HIDE DEF D
      <3> QED BY <1>2, <3>1, <3>2
    <2> HIDE DEF P, D, pos
    <2>2. \A j \in 0..pos'-1 :
            m_tcp_fifo_buffer'[j] = <<sent'[(transferred' - pos' + j) \div P' + 1],
                                      (transferred' - pos' + j) % P'>>
      BY <1>1, <1>3, <1>6 DEF Cell, P
    <2>3. D + 1 <= Len(sent)
      <3>1. D < Len(sent)
        BY <1>1
      <3>2. D \in Nat /\ Len(sent) \in Nat
        BY <1>2
      <3> QED BY <3>1, <3>2
    <2>4. transferred' = Len(delivered') * PackSize' + pos'
      BY <1>1, <1>4, <1>5
    <2>5. Len(delivered') <= Len(sent') /\ \A i \in 1..Len(delivered') : delivered'[i] = sent'[i]
      BY <1>1, <1>3, <2>1, <2>3
    <2> QED BY <2>2, <2>4, <2>5 DEF StreamPlaced, Cell, P, pos
  <1>8. transferred >= HeaderSize => \A j \in 0..HeaderSize-1 : m_tcp_fifo_buffer'[j][2] = j
    <2> SUFFICES ASSUME transferred >= HeaderSize, NEW j \in 0..HeaderSize-1
                 PROVE  m_tcp_fifo_buffer'[j][2] = j
      OBVIOUS
    <2>1. j \in 0..FIFO_BUFFER_SIZE-1 /\ j \in 0..P-1
      <3>1. P > HeaderSize
        BY <1>2
      <3> HIDE DEF P, D, pos
      <3> QED BY <1>5, <3>1 DEF HeaderSize
    <2>2. CASE j < pos'
      <3>1. j \in 0..pos'-1
        <4>1. j \in Nat
          BY DEF HeaderSize
        <4>2. \A q \in Nat : j < q => j \in 0..q-1
          BY <4>1
        <4>3. pos' \in Nat
          BY <1>5
        <4>4. j < pos' => j \in 0..pos'-1
          BY <4>2, <4>3
        <4> QED BY <2>2, <4>4
      <3>2. m_tcp_fifo_buffer'[j] = Cell(B + P + j)
        BY <1>5, <1>6, <3>1
      <3>3. B + P = (D + 1) * P /\ D + 1 \in Nat
        BY <1>2, <1>3, <1>4
      <3> HIDE DEF D
      <3>4. Cell((D + 1) * P + j) = <<sent[D + 1 + 1], j>>
        BY <1>1, <2>1, <3>3, CellOfPack DEF InBuffer
      <3> QED BY <3>2, <3>3, <3>4
    <2>3. CASE ~(j < pos')
      BY <1>1, <1>2, <2>1, <2>3
    <2> QED BY <2>2, <2>3
  <1>9. Received'
    <2>1. transferred' <= Len(sent') * PackSize'
      BY <1>1, <1>2, <1>3
    <2>2. HeaderStays'
      BY <1>1, <1>8 DEF HeaderStays
    <2>3. LessThanPack'
      <3>1. (parsing' => pos' > 2) /\ (~parsing' => ~(pos' > 2)) /\ pos' \in Nat
        BY <1>1, <1>5 DEF size_id
      <3>2. transferred' > 0
        BY <1>1, <1>5
      <3>3. ~parsing' => pos' < P
        BY <1>2, <3>1 DEF HeaderSize
      <3> QED BY <1>3, <3>2, <3>3 DEF LessThanPack
    <2> QED BY <2>1, <2>2, <2>3 DEF Received
  <1>10. MisreadsFirstOnly'
    BY <1>1 DEF NetInv, MisreadsFirstOnly
  <1> QED BY <1>7, <1>9, <1>10 DEF StreamInv

(* The client waits with less than a pack.                                  *)
LEMMA StreamWaits ==
    ASSUME NetInv, Wait
    PROVE  StreamInv'
  <1>1. /\ parsing /\ ~\E i \in 0..FIFO_BUFFER_SIZE-1 : Complete(i)
        /\ undefined' \in BOOLEAN /\ (undefined' => Misread) /\ parsing' = FALSE
        /\ UNCHANGED <<m_protocol, payload, sent, m_tcp_fifo_buffer, m_pos_last_in_fifo,
                       transferred, delivered>>
    BY DEF Wait, config, fifo, report
  <1>2. InBuffer
    BY <1>1, TcpOnly
  <1>3. m_pos_last_in_fifo < PackSize /\ (Misread => transferred < HeaderSize)
    BY <1>1, <1>2, NothingComplete
  <1>4. PackSize' = PackSize /\ \A n : Cell(n)' = Cell(n)
    BY <1>1 DEF PackSize, Cell
  <1>5. StreamPlaced'
    <2>1. StreamPlaced
      BY <1>2 DEF InBuffer
    <2> QED BY <1>1, <1>4, <2>1 DEF StreamPlaced
  <1>6. Received'
    BY <1>1, <1>2, <1>3, <1>4 DEF InBuffer, Received, HeaderStays, LessThanPack
  <1>7. MisreadsFirstOnly'
    BY <1>1, <1>3 DEF MisreadsFirstOnly
  <1> QED BY <1>5, <1>6, <1>7 DEF StreamInv

----------------------------------------------------------------------------
(* Order.                                                                   *)

OrderInv == RecordedInOrder /\ LastIsKnown

(* What neither sends nor records keeps the order.                          *)
LEMMA OrderUntouched ==
    ASSUME OrderInv, UNCHANGED <<m_protocol, m_last_pack_id, report, sent>>, net' \subseteq net
    PROVE  OrderInv'
  BY DEF OrderInv, RecordedInOrder, LastIsKnown, report

(* What is sent stays sent.                                                 *)
LEMMA OrderGrows ==
    ASSUME OrderInv, sent \in Seq(Indices), NEW k \in Indices, sent' = Append(sent, k),
           net' \subseteq net \cup {k}, UNCHANGED <<m_protocol, m_last_pack_id, report>>
    PROVE  OrderInv'
  <1>1. ASSUME NEW q, \E j \in 1..Len(sent) : q = sent[j]
        PROVE  \E j \in 1..Len(sent') : q = sent'[j]
    <2>1. PICK j \in 1..Len(sent) : q = sent[j]
      BY <1>1
    <2>2. j \in 1..Len(sent') /\ sent'[j] = sent[j]
      OBVIOUS
    <2> QED BY <2>1, <2>2
  <1>2. \E j \in 1..Len(sent') : k = sent'[j]
    <2>1. Len(sent') \in 1..Len(sent') /\ sent'[Len(sent')] = k
      OBVIOUS
    <2> QED BY <2>1
  <1>3. RecordedInOrder'
    BY <1>1 DEF OrderInv, RecordedInOrder, report
  <1>4. LastIsKnown'
    BY <1>1, <1>2 DEF OrderInv, LastIsKnown, report
  <1> QED BY <1>3, <1>4 DEF OrderInv

(* What follows the last pack is recorded behind it.                        *)
LEMMA OrderRecords ==
    ASSUME NetInv, ReceivePack
    PROVE  OrderInv'
  <1>1. PICK k \in net :
          /\ net' \in {net, net \ {k}}
          /\ IF k > m_last_pack_id
             THEN Record(k) /\ m_last_pack_id' = k
             ELSE UNCHANGED <<report, m_last_pack_id>>
          /\ UNCHANGED <<m_protocol, sent>>
    BY DEF ReceivePack, config
  <1>2. OrderInv /\ m_protocol = "UDP"
    BY DEF NetInv, OrderInv, OneProtocol, TypeOK
  <1>3. CASE ~(k > m_last_pack_id)
    BY <1>1, <1>2, <1>3, OrderUntouched
  <1>4. CASE k > m_last_pack_id
    <2>1. delivered' = Append(delivered, k) /\ m_last_pack_id' = k /\ m_old_id' = k
      BY <1>1, <1>4 DEF Record
    <2>2. delivered \in Seq(Indices) /\ k \in Indices
      BY DEF NetInv, TypeOK
    <2>3. /\ Len(delivered') = Len(delivered) + 1 /\ delivered' # <<>>
          /\ delivered'[Len(delivered) + 1] = k
          /\ \A i \in 1..Len(delivered) : delivered'[i] = delivered[i]
      BY <2>1, <2>2
    <2>4. \E j \in 1..Len(sent) : k = sent[j]
      BY <1>2 DEF OrderInv, LastIsKnown
    <2>5. ASSUME NEW i \in 1..Len(delivered')
          PROVE  \E j \in 1..Len(sent) : delivered'[i] = sent[j]
      <3>1. CASE i = Len(delivered) + 1
        BY <2>3, <2>4, <3>1
      <3>2. CASE i \in 1..Len(delivered)
        <4>1. delivered'[i] = delivered[i]
          BY <2>3, <3>2
        <4>2. \E j \in 1..Len(sent) : delivered[i] = sent[j]
          BY <1>2, <3>2 DEF OrderInv, RecordedInOrder
        <4> QED BY <4>1, <4>2
      <3>3. Len(delivered) \in Nat
        BY <2>2
      <3> QED BY <2>3, <3>1, <3>2, <3>3
    <2>6. ASSUME NEW i \in 1..Len(delivered')-1
          PROVE  delivered'[i] < delivered'[i+1]
      <3>0. Len(delivered) \in Nat /\ i \in 1..Len(delivered)
        BY <2>2, <2>3
      <3>1. CASE i = Len(delivered)
        <4>1. delivered # <<>> /\ delivered'[i] = delivered[i]
          BY <2>3, <3>0, <3>1
        <4>2. m_last_pack_id = delivered[i]
          BY <1>2, <3>1, <4>1 DEF OrderInv, LastIsKnown
        <4>3. delivered'[i+1] = k
          BY <2>3, <3>1
        <4>4. Indices \subseteq Int /\ delivered[i] \in Indices
          BY <2>2, <3>0, NetAssumption DEF Indices
        <4> QED BY <1>4, <2>2, <4>1, <4>2, <4>3, <4>4
      <3>2. CASE i # Len(delivered)
        <4>1. i \in 1..Len(delivered)-1 /\ i + 1 \in 1..Len(delivered)
          BY <3>0, <3>2
        <4>2. delivered[i] < delivered[i+1]
          BY <1>2, <4>1 DEF OrderInv, RecordedInOrder
        <4> QED BY <2>3, <3>0, <4>1, <4>2
      <3> QED BY <3>1, <3>2
    <2>7. RecordedInOrder'
      BY <1>1, <2>5, <2>6 DEF RecordedInOrder
    <2>8. LastIsKnown'
      BY <1>1, <1>2, <2>1, <2>3 DEF OrderInv, LastIsKnown
    <2> QED BY <2>7, <2>8 DEF OrderInv
  <1> QED BY <1>3, <1>4

(* Over TCP it is the pack that was taken that the client knows.            *)
LEMMA OrderTakes ==
    ASSUME NetInv, Take
    PROVE  OrderInv'
  <1>1. /\ InBuffer /\ Record(sent[Len(delivered) + 1]) /\ UNCHANGED m_protocol
        /\ sent[Len(delivered) + 1] \in Indices
    BY TakeFacts DEF config
  <1>2. m_protocol' = "TCP" /\ delivered \in Seq(Indices)
    BY <1>1 DEF InBuffer
  <1>3. /\ delivered' = Append(delivered, sent[Len(delivered) + 1])
        /\ m_old_id' = sent[Len(delivered) + 1]
    BY <1>1 DEF Record
  <1>4. delivered' # <<>> /\ m_old_id' = delivered'[Len(delivered')]
    BY <1>1, <1>2, <1>3
  <1> QED BY <1>2, <1>4 DEF OrderInv, RecordedInOrder, LastIsKnown

----------------------------------------------------------------------------
(* Who waits for whom.                                                      *)

ControlInv == OneProtocol /\ WaitsForClient /\ NeverOverflows

LEMMA ControlStep ==
    ASSUME NetInv, Next
    PROVE  ControlInv'
  <1> USE DEF config, server, sending, clientele, fifo, report, receiving
  <1>1. /\ ControlInv /\ m_protocol \in {"TCP", "UDP"}
        /\ parsing \in BOOLEAN /\ connected \in BOOLEAN /\ accepting \in BOOLEAN
    BY DEF NetInv, ControlInv, TypeOK
  <1>2. CASE ClientStart
    BY <1>1, <1>2 DEF ClientStart, ControlInv, OneProtocol, WaitsForClient, NeverOverflows
  <1>3. CASE ClientEnds
    <2>1. client' # "overflow" /\ net' = {} /\ (m_protocol = "TCP" => requests' = requests)
      BY <1>3 DEF ClientEnds
    <2> QED BY <1>1, <1>3, <2>1
          DEF ClientEnds, ControlInv, OneProtocol, WaitsForClient, NeverOverflows
  <1>4. CASE Accept
    BY <1>1, <1>4 DEF Accept, ControlInv, OneProtocol, WaitsForClient, NeverOverflows
  <1>16. CASE AcceptFails
    <2>1. client' # "overflow"
      BY <1>16 DEF AcceptFails
    <2> QED BY <1>1, <1>16, <2>1 DEF AcceptFails, ControlInv, OneProtocol, WaitsForClient, NeverOverflows
  <1>5. CASE Requested
    <2>1. requests # {} /\ requests' \subseteq requests
      BY <1>5 DEF Requested
    <2>2. m_protocol = "UDP"
      BY <1>1, <2>1 DEF ControlInv, OneProtocol
    <2>3. UNCHANGED <<m_protocol, parsing, client>>
      BY <1>5 DEF Requested
    <2> QED BY <1>1, <2>2, <2>3 DEF ControlInv, OneProtocol, WaitsForClient, NeverOverflows
  <1>6. CASE LosePack
    <2>1. net' \subseteq net /\ UNCHANGED <<config, server, sending, clientele, receiving>>
      BY <1>6 DEF LosePack
    <2> QED BY <1>1, <2>1 DEF ControlInv, OneProtocol, WaitsForClient, NeverOverflows
  <1>7. CASE Pass
    BY <1>1, <1>7 DEF Pass, ControlInv, OneProtocol, WaitsForClient, NeverOverflows
  <1>8. CASE SendPack
    <2>1. m_protocol = "TCP" => net' \subseteq net
      BY <1>8 DEF SendPack
    <2>2. sender' # "failed" /\ sender = "pass"
      BY <1>8 DEF SendPack, Goes, NextPack
    <2>3. UNCHANGED <<config, server, clientele, receiving>>
      BY <1>8 DEF SendPack
    <2> QED BY <1>1, <2>1, <2>2, <2>3 DEF ControlInv, OneProtocol, WaitsForClient, NeverOverflows
  <1>9. CASE PeerGone
    BY <1>1, <1>9 DEF PeerGone, ControlInv, OneProtocol, WaitsForClient, NeverOverflows
  <1>10. CASE PeerReset
    BY <1>1, <1>10 DEF PeerReset, ControlInv, OneProtocol, WaitsForClient, NeverOverflows
  <1>11. CASE SendFails
    BY <1>1, <1>11 DEF SendFails, ControlInv, OneProtocol, WaitsForClient, NeverOverflows
  <1>12. CASE ReceivePack
    <2>1. UNCHANGED <<config, server, sending, clientele, parsing>> /\ net' \subseteq net
      BY <1>12 DEF ReceivePack
    <2> QED BY <1>1, <2>1 DEF ControlInv, OneProtocol, WaitsForClient, NeverOverflows
  <1>13. CASE ReceiveCells
    <2>1. client' = client
      BY <1>13, StreamReceives
    <2>2. m_protocol = "TCP" /\ UNCHANGED <<config, server, sending, clients, requests, net>>
      BY <1>13 DEF ReceiveCells
    <2> QED BY <1>1, <2>1, <2>2 DEF ControlInv, OneProtocol, WaitsForClient, NeverOverflows
  <1>14. CASE Take
    <2>1. m_protocol = "TCP" /\ UNCHANGED <<config, server, sending, clientele, net>>
      BY <1>14, TakeFacts DEF InBuffer
    <2> QED BY <1>1, <2>1 DEF ControlInv, OneProtocol, WaitsForClient, NeverOverflows
  <1>15. CASE Wait
    BY <1>1, <1>15 DEF Wait, ControlInv, OneProtocol, WaitsForClient, NeverOverflows
  <1> QED BY <1>2, <1>3, <1>4, <1>5, <1>6, <1>7, <1>8, <1>9, <1>10, <1>11, <1>12, <1>13, <1>14,
             <1>15, <1>16 DEF Next, Clients, Network, passBuffers, HandlerReceiveFromServer

----------------------------------------------------------------------------
(* The invariant.                                                           *)

(* Nothing has been sent yet.                                               *)
LEMMA NothingSent ==
    ASSUME Sizes, sent = <<>>, delivered = <<>>, transferred = 0, m_pos_last_in_fifo = 0,
           ~parsing, ~undefined
    PROVE  StreamInv
  <1>1. Len(sent) = 0 /\ Len(delivered) = 0 /\ 0 * PackSize = 0 /\ PackSize > 0
    BY DEF Sizes, HeaderSize
  <1>2. 1..0 = {} /\ 0..0-1 = {}
    OBVIOUS
  <1>3. StreamPlaced
    BY <1>1, <1>2 DEF StreamPlaced
  <1>4. Received
    BY <1>1 DEF Received, HeaderStays, LessThanPack, HeaderSize, Sizes
  <1> QED BY <1>3, <1>4 DEF StreamInv, MisreadsFirstOnly

LEMMA InitHolds == Init => NetInv
  <1> SUFFICES ASSUME Init PROVE NetInv
    OBVIOUS
  <1>1. Sizes
    BY SizesHold DEF Init
  <1>2. StreamInv
    BY <1>1, NothingSent DEF Init
  <1>3. TypeOK
    <2>1. NewBuffer \in [0..FIFO_BUFFER_SIZE-1 -> CellType]
      BY DEF NewBuffer, CellType
    <2>2. /\ 0 \in 0..FIFO_BUFFER_SIZE /\ 0 \in 0..MaxPacks /\ 0 \in 0..MaxClients
          /\ 0 \in 0..PacksPerBuffer
      BY <1>1 DEF Sizes
    <2>3. accepting \in BOOLEAN
      BY DEF Init
    <2>4. sent \in Seq(Indices) /\ delivered \in Seq(Indices)
      BY DEF Init
    <2> QED BY <2>1, <2>2, <2>3, <2>4 DEF Init, TypeOK
  <1>4. PacksLeft /\ OneProtocol /\ WaitsForClient /\ NeverOverflows
    <2>1. m_protocol = "TCP" => accepting
      BY DEF Init
    <2>2. PacksLeft /\ NeverOverflows
      BY <1>1 DEF Init, PacksLeft, NeverOverflows, Sizes
    <2>3. OneProtocol
      BY DEF Init, OneProtocol
    <2> QED BY <2>1, <2>2, <2>3 DEF WaitsForClient
  <1>5. RecordedInOrder /\ LastIsKnown
    BY DEF Init, RecordedInOrder, LastIsKnown
  <1> QED BY <1>2, <1>3, <1>4, <1>5 DEF NetInv, StreamInv

LEMMA TypeStep ==
    ASSUME NetInv, Next
    PROVE  TypeOK' /\ PacksLeft'
  <1>1. TypeInv
    BY TypeInvHolds
  <1>2. ASSUME UNCHANGED <<m_index_of_message, left, sender>>
        PROVE  PacksLeft'
    BY <1>1, <1>2 DEF PacksLeft, TypeInv
  <1>3. CASE Clients
    <2>1. UNCHANGED sending
      BY <1>3 DEF Clients, ClientStart, ClientEnds
    <2> QED BY <1>1, <1>2, <1>3, <2>1, ClientsType DEF sending
  <1>4. CASE Network
    <2>1. UNCHANGED sending
      BY <1>4 DEF Network, Accept, AcceptFails, Requested, LosePack
    <2> QED BY <1>1, <1>2, <1>4, <2>1, NetworkType DEF sending
  <1>5. CASE passBuffers
    BY <1>1, <1>5, PassBuffersType
  <1>6. CASE HandlerReceiveFromServer
    <2>1. UNCHANGED sending
      BY <1>6 DEF HandlerReceiveFromServer, ReceivePack, ReceiveCells, Take, Wait
    <2> QED BY <1>2, <1>6, <2>1, HandlerType DEF sending
  <1> QED BY <1>3, <1>4, <1>5, <1>6 DEF Next

LEMMA StreamStep ==
    ASSUME NetInv, Next
    PROVE  StreamInv' /\ OrderInv'
  <1>1. StreamInv /\ OrderInv
    BY DEF NetInv, StreamInv, OrderInv
  <1>2. ASSUME UNCHANGED <<config, sent, receiving>>, net' \subseteq net
        PROVE  StreamInv' /\ OrderInv'
    BY <1>1, <1>2, StreamUntouched, OrderUntouched DEF receiving, report, config
  <1>3. CASE ClientStart
    <2>1. Sizes'
      BY <1>3, TypeInvHolds DEF ClientStart, config, TypeInv, Sizes, PackSize
    <2>3. /\ sent' = <<>> /\ delivered' = <<>> /\ transferred' = 0 /\ m_pos_last_in_fifo' = 0
          /\ parsing' = FALSE /\ undefined' = FALSE /\ net' = {} /\ m_last_pack_id' = 0
          /\ m_old_id' = 0
      BY <1>3 DEF ClientStart
    <2>4. StreamInv'
      <3>1. Len(sent') = 0 /\ Len(delivered') = 0 /\ 0 * PackSize' = 0 /\ PackSize' > 0
        <4>1. PackSize' \in Nat /\ PackSize' > 0
          BY <2>1 DEF Sizes, HeaderSize
        <4>2. \A q \in Nat : 0 * q = 0
          OBVIOUS
        <4>3. Len(<<>>) = 0
          OBVIOUS
        <4> QED BY <2>3, <4>1, <4>2, <4>3
      <3>2. 1..0 = {} /\ 0..0-1 = {}
        OBVIOUS
      <3>3. StreamPlaced'
        BY <2>3, <3>1, <3>2 DEF StreamPlaced
      <3>4. Received'
        BY <2>3, <3>1 DEF Received, HeaderStays, LessThanPack, HeaderSize
      <3> QED BY <2>3, <3>3, <3>4 DEF StreamInv, MisreadsFirstOnly
    <2>5. OrderInv'
      BY <2>3 DEF OrderInv, RecordedInOrder, LastIsKnown
    <2> QED BY <2>4, <2>5
  <1>4. CASE ClientEnds
    BY <1>2, <1>4 DEF ClientEnds
  <1>5. CASE Network
    <2>1. UNCHANGED <<config, sent, receiving>> /\ net' \subseteq net
      BY <1>5 DEF Network, Accept, AcceptFails, Requested, LosePack
    <2> QED BY <1>2, <2>1
  <1>6. CASE SendPack
    <2>1. UNCHANGED <<config, receiving>>
      BY <1>6 DEF SendPack
    <2>2. m_index_of_message \in Indices
      BY <1>6, TypeInvHolds, NextPackType DEF SendPack
    <2>3. CASE UNCHANGED <<sent, net>>
      BY <1>2, <2>1, <2>3
    <2>4. CASE /\ sent' = Append(sent, m_index_of_message)
               /\ net' = net \cup {k \in {m_index_of_message} : m_protocol = "UDP"}
      <3>1. sent \in Seq(Indices) /\ m_protocol \in {"TCP", "UDP"}
        BY DEF NetInv, TypeOK
      <3>2. UNCHANGED <<m_protocol, m_last_pack_id, report, fifo, parsing, transferred, delivered,
                        undefined>>
        BY <2>1 DEF config, receiving, report
      <3>3. OrderInv'
        BY <1>1, <2>2, <2>4, <3>1, <3>2, OrderGrows
      <3>4. StreamInv'
        <4>1. CASE m_protocol = "TCP"
          BY <1>1, <2>1, <2>2, <2>4, <3>2, <4>1, InBufferHolds, StreamGrows
        <4>2. CASE m_protocol = "UDP"
          BY <1>1, <3>2, <4>2 DEF StreamInv, StreamPlaced, MisreadsFirstOnly
        <4> QED BY <3>1, <4>1, <4>2
      <3> QED BY <3>3, <3>4
    <2> QED BY <1>6, <2>3, <2>4 DEF SendPack
  <1>7. CASE Pass \/ PeerGone \/ PeerReset \/ SendFails
    <2>1. UNCHANGED <<config, sent, receiving>> /\ net' \subseteq net
      BY <1>7 DEF Pass, PeerGone, PeerReset, SendFails
    <2> QED BY <1>2, <2>1
  <1>8. CASE ReceivePack
    <2>1. m_protocol = "UDP"
      BY <1>8 DEF ReceivePack, NetInv, OneProtocol, TypeOK
    <2>2. UNCHANGED <<m_protocol, transferred, undefined>>
      BY <1>8 DEF ReceivePack, config
    <2>3. StreamInv'
      BY <1>1, <2>1, <2>2 DEF StreamInv, StreamPlaced, MisreadsFirstOnly
    <2> QED BY <1>8, <2>3, OrderRecords
  <1>9. CASE ReceiveCells
    <2>1. UNCHANGED <<m_protocol, m_last_pack_id, report, sent>> /\ net' \subseteq net
      BY <1>9 DEF ReceiveCells, config
    <2> QED BY <1>1, <1>9, <2>1, StreamReceives, OrderUntouched
  <1>10. CASE Take
    BY <1>10, StreamTaken, OrderTakes
  <1>11. CASE Wait
    <2>1. UNCHANGED <<m_protocol, m_last_pack_id, report, sent>> /\ net' \subseteq net
      BY <1>11 DEF Wait, config
    <2> QED BY <1>1, <1>11, <2>1, StreamWaits, OrderUntouched
  <1> QED BY <1>3, <1>4, <1>5, <1>6, <1>7, <1>8, <1>9, <1>10, <1>11
          DEF Next, Clients, passBuffers, HandlerReceiveFromServer

LEMMA NetStep == NetInv /\ [Next]_vars => NetInv'
  <1> SUFFICES ASSUME NetInv, [Next]_vars PROVE NetInv'
    OBVIOUS
  <1>1. CASE Next
    BY <1>1, TypeStep, ControlStep, StreamStep DEF NetInv, ControlInv, StreamInv, OrderInv
  <1>2. CASE UNCHANGED vars
    <2> USE <1>2 DEF vars, config, server, sending, clientele, fifo, report, receiving, NetInv,
                     CellType, Cell, PackSize
    <2>1. TypeOK' BY DEF TypeOK
    <2>2. (PacksLeft /\ OneProtocol /\ WaitsForClient)'
      BY DEF PacksLeft, OneProtocol, WaitsForClient
    <2>3. (StreamPlaced /\ MisreadsFirstOnly /\ NeverOverflows)'
      BY DEF StreamPlaced, MisreadsFirstOnly, NeverOverflows
    <2>4. (m_protocol = "TCP" => Received)' BY DEF Received, HeaderStays, LessThanPack
    <2>5. (RecordedInOrder /\ LastIsKnown)' BY DEF RecordedInOrder, LastIsKnown
    <2> QED BY <2>1, <2>2, <2>3, <2>4, <2>5
  <1> QED BY <1>1, <1>2

----------------------------------------------------------------------------
(* Theorems.                                                                *)

LEMMA NetCorrect == Spec => []NetInv
  BY InitHolds, NetStep, PTL DEF Spec

(* Every variable keeps its type.                                           *)
THEOREM TypeCorrect == Spec => []TypeOK
  <1>1. NetInv => TypeOK
    BY DEF NetInv
  <1> QED BY <1>1, NetCorrect, PTL

(* However TCP cuts what is sent, of whatever size the packs, the reads and *)
(* the buffer are, a client that has misread nothing records the packs that *)
(* were sent, whole and in their order, and has the rest in its buffer      *)
(* (HandlerReceiveFromServer).                                              *)
THEOREM StreamCorrect == Spec => []StreamIsWhole
  <1>1. NetInv => StreamIsWhole
    BY DEF NetInv, StreamIsWhole
  <1> QED BY <1>1, NetCorrect, PTL

(* Once a connection has brought a header, the size of a pack is never read *)
(* where there is none, and the search for an ID ends in the buffer         *)
(* (HandlerReceiveFromServer): only a shorter beginning can be misread.     *)
THEOREM ReadsCorrect == Spec => []MisreadsFirstOnly
  <1>1. NetInv => MisreadsFirstOnly
    BY DEF NetInv
  <1> QED BY <1>1, NetCorrect, PTL

(* A buffer that holds a read and a pack never overflows (FIFO_BUFFER_SIZE).*)
THEOREM BufferCorrect == Spec => []NeverOverflows
  <1>1. NetInv => NeverOverflows
    BY DEF NetInv
  <1> QED BY <1>1, NetCorrect, PTL

(* Over UDP the packs are recorded once and in order, whatever the network  *)
(* does with them (m_last_pack_id).                                         *)
THEOREM OrderCorrect == Spec => []RecordedInOrder
  <1>1. NetInv => RecordedInOrder
    BY DEF NetInv
  <1> QED BY <1>1, NetCorrect, PTL

(* A server over TCP without a client that does not wait for one has met an *)
(* error or the race of HandlerSend with HandlerAcceptFromClient.           *)
THEOREM DeafCorrect == Spec => []DeafHasCause
  <1>1. NetInv => DeafHasCause
    BY DEF NetInv, WaitsForClient, DeafHasCause
  <1> QED BY <1>1, NetCorrect, PTL

=============================================================================
