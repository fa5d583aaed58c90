--------------------------- MODULE CounterBusProofs ---------------------------
(****************************************************************************)
(* What holds of every access of software to the counter, for any           *)
(* registers, memories, countdowns and timeout: proofs about CounterBus.    *)
(****************************************************************************)
EXTENDS CounterBus, TLAPS

Response == [kind : {"read", "write"}, addr : Address, data : Values]

(* The memory a record names is none of the sentinels.                      *)
LEMMA SoftwareWriteRam ==
    ASSUME NEW w \in {NoSoftwareWrite} \cup [ram : Rams, value : Values], w.ram \in Rams
    PROVE  w \in [ram : Rams, value : Values]
BY CounterBusAssumption DEF NoSoftwareWrite

LEMMA AddressType ==
    ASSUME TypeOK
    PROVE  /\ addr \in Address
           /\ IsRegister(addr) => addr.register \in Registers
           /\ ~IsRegister(addr) => addr.ram \in Rams /\ addr.bin \in Bins
BY DEF TypeOK, addr, Address, IsRegister, RegisterAddress, RamAddress

LEMMA InitTypeOK == Init => TypeOK
<1> SUFFICES ASSUME Init PROVE TypeOK
  OBVIOUS
<1>1. /\ rd_araddr \in Address /\ wr_awaddr \in Address /\ wr_wdata \in Values
      /\ response = NoResponse /\ sys_rdata \in Values /\ sw_write = NoSoftwareWrite
  BY DEF Init, Address
<1>2. /\ counter_memory \in [Rams -> [Bins -> Values]] /\ sw_ram_rdata \in [Rams -> Values]
      /\ registers \in [Registers -> Values] /\ progress_ram \in Rams
      /\ sw_counter_ram_addr \in Bins
  BY DEF Init
<1>3. /\ access = "none" /\ ack_cnt = 0 /\ ack_cnt \in 0..AckTimeout /\ wen = FALSE
      /\ ren = FALSE /\ sys_ack = FALSE /\ in_progress \in 0..MaxWait /\ overlap \in Nat /\ met = FALSE
  BY CounterBusAssumption DEF Init, MaxWait
<1> QED BY <1>1, <1>2, <1>3 DEF TypeOK, MaxWait

(* The part of the type invariant that the AXI slave keeps.                 *)
AxiTypeOK ==
    /\ access \in {"none", "read", "write"}
    /\ rd_araddr \in Address /\ wr_awaddr \in Address /\ wr_wdata \in Values
    /\ ack_cnt \in 0..AckTimeout /\ (access = "none" <=> ack_cnt = 0)
    /\ wen \in BOOLEAN /\ (wen => access = "write")
    /\ ren \in BOOLEAN /\ (ren => access = "read")
    /\ response \in {NoResponse} \cup Response

LEMMA AxiSlaveType ==
    ASSUME TypeOK, NEW request \in Requests, AxiSlave(request)
    PROVE  AxiTypeOK'
<1>0. /\ AxiTypeOK /\ sys_rdata \in Values
  BY DEF TypeOK, AxiTypeOK, Response
<1>1. CASE Accept(request)
  <2>1. request \in [kind : {"read"}, addr : Address]
        \/ request \in [kind : {"write"}, addr : Address, value : Values]
    BY <1>1 DEF Accept, Requests
  <2>2. 1 \in 0..AckTimeout /\ response' = NoResponse
    BY <1>1, CounterBusAssumption DEF Accept
  <2>3. CASE request \in [kind : {"read"}, addr : Address]
    <3>1. /\ request.kind = "read" /\ request.addr \in Address
      BY <2>3
    <3>2. access' = "read" /\ ren' = TRUE /\ wen' = FALSE
      BY <1>1, <3>1 DEF Accept
    <3>3. rd_araddr' \in Address /\ wr_awaddr' = wr_awaddr /\ wr_wdata' = wr_wdata /\ ack_cnt' = 1
      BY <1>1, <3>1 DEF Accept
    <3>4. ack_cnt' \in 0..AckTimeout /\ access' # "none" /\ ack_cnt' # 0
      BY <2>2, <3>2, <3>3
    <3> QED BY <1>0, <2>2, <3>2, <3>3, <3>4 DEF AxiTypeOK
  <2>4. CASE request \in [kind : {"write"}, addr : Address, value : Values]
    <3>1. /\ request.kind = "write" /\ request.addr \in Address /\ request.value \in Values
      BY <2>4
    <3>2. access' = "write" /\ ren' = FALSE /\ wen' = FALSE
      BY <1>1, <3>1 DEF Accept
    <3>3. rd_araddr' = rd_araddr /\ wr_awaddr' \in Address /\ wr_wdata' \in Values /\ ack_cnt' = 1
      BY <1>1, <3>1 DEF Accept
    <3>4. ack_cnt' \in 0..AckTimeout /\ access' # "none" /\ ack_cnt' # 0
      BY <2>2, <3>2, <3>3
    <3> QED BY <1>0, <2>2, <3>2, <3>3, <3>4 DEF AxiTypeOK
  <2> QED BY <2>1, <2>3, <2>4
<1>2. CASE Complete
  <2>1. Answer \in Response
    <3>1. CASE access = "read"
      BY <1>0, <3>1 DEF Answer, Response, AxiTypeOK
    <3>2. CASE access # "read"
      BY <1>0, <3>2 DEF Answer, Response, AxiTypeOK
    <3> QED BY <3>1, <3>2
  <2>2. 0 \in 0..AckTimeout
    BY CounterBusAssumption
  <2> QED BY <1>0, <1>2, <2>1, <2>2 DEF Complete, AxiTypeOK
<1>3. CASE Wait
  <2>1. ack_cnt' \in 0..AckTimeout /\ ack_cnt' # 0
    BY <1>0, <1>3, CounterBusAssumption DEF Wait, ack, AxiTypeOK
  <2>2. wen' \in BOOLEAN /\ (wen' => access = "write")
    BY <1>0, <1>3 DEF Wait, AxiTypeOK
  <2> QED BY <1>0, <1>3, <2>1, <2>2 DEF Wait, AxiTypeOK
<1>4. CASE Quiet(request)
  BY <1>0, <1>4, CounterBusAssumption DEF Quiet, AxiTypeOK
<1> QED BY <1>1, <1>2, <1>3, <1>4 DEF AxiSlave

(* The part of the type invariant that the bus decoder keeps.               *)
DecoderTypeOK ==
    /\ sys_ack \in BOOLEAN /\ sys_rdata \in Values
    /\ in_progress \in 0..MaxWait
    /\ progress_ram \in Rams /\ sw_counter_ram_addr \in Bins
    /\ sw_write \in {NoSoftwareWrite} \cup [ram : Rams, value : Values]
    /\ registers \in [Registers -> Values]

LEMMA DecoderType ==
    ASSUME TypeOK, SystemBusWrite, SystemBusRead
    PROVE  DecoderTypeOK'
<1>0. /\ DecoderTypeOK /\ wen \in BOOLEAN /\ ren \in BOOLEAN /\ wr_wdata \in Values
      /\ sw_ram_rdata \in [Rams -> Values]
  BY DEF TypeOK, DecoderTypeOK, MaxWait
<1>1. sw_write' \in {NoSoftwareWrite} \cup [ram : Rams, value : Values]
  BY <1>0, AddressType DEF SystemBusWrite
<1>2. registers' \in [Registers -> Values]
  BY <1>0, AddressType DEF SystemBusWrite, RegisterWrite, DecoderTypeOK
<1>3. /\ ReadWait \in 0..MaxWait /\ WriteWait \in 0..MaxWait
      /\ in_progress - 1 \in 0..MaxWait \/ in_progress = 0
      /\ 0 \in 0..MaxWait
  BY <1>0, CounterBusAssumption DEF MaxWait, DecoderTypeOK
<1>4. sys_en \in BOOLEAN
  BY <1>0 DEF sys_en
<1>5. CASE CountDown
  <2>1. in_progress' \in 0..MaxWait
    BY <1>0, <1>5, CounterBusAssumption DEF CountDown, DecoderTypeOK, MaxWait
  <2>2. sys_ack' = FALSE /\ UNCHANGED <<sys_rdata, progress_ram, sw_counter_ram_addr>>
    BY <1>5 DEF CountDown
  <2> QED BY <1>0, <1>1, <1>2, <2>1, <2>2 DEF DecoderTypeOK
<1>6. CASE CountedDown
  BY <1>0, <1>1, <1>2, <1>3, <1>4, <1>6 DEF CountedDown, DecoderTypeOK
<1>7. CASE RegisterRead
  BY <1>0, <1>1, <1>2, <1>4, <1>7, AddressType DEF RegisterRead, DecoderTypeOK
<1>8. CASE RamRequest
  BY <1>0, <1>1, <1>2, <1>3, <1>8, AddressType DEF RamRequest, DecoderTypeOK
<1> QED BY <1>5, <1>6, <1>7, <1>8 DEF SystemBusRead

LEMMA MemoryType ==
    ASSUME TypeOK, NEW store \in Stores \cup {NoStore}, CounterSram(store)
    PROVE  /\ counter_memory' \in [Rams -> [Bins -> Values]]
           /\ sw_ram_rdata' \in [Rams -> Values]
<1>0. /\ counter_memory \in [Rams -> [Bins -> Values]] /\ sw_counter_ram_addr \in Bins
      /\ sw_write \in {NoSoftwareWrite} \cup [ram : Rams, value : Values]
  BY DEF TypeOK
<1>1. sw_ram_rdata' \in [Rams -> Values]
  BY <1>0 DEF CounterSram
<1>2. ASSUME NEW r \in Rams
      PROVE  counter_memory'[r] \in [Bins -> Values]
  <2>1. CASE store # NoStore
    <3>1. store.bin \in Bins /\ store.value \in Values
      BY <2>1, CounterBusAssumption
    <3> QED BY <1>0, <2>1, <3>1 DEF CounterSram
  <2>2. CASE store = NoStore /\ sw_write.ram = r
    <3>1. sw_write.value \in Values
      BY <1>0, <2>2, SoftwareWriteRam
    <3> QED BY <1>0, <2>2, <3>1 DEF CounterSram
  <2>3. CASE store = NoStore /\ sw_write.ram # r
    BY <1>0, <2>3 DEF CounterSram
  <2> QED BY <2>1, <2>2, <2>3
<1>3. counter_memory' = [r \in Rams |-> counter_memory'[r]]
  BY DEF CounterSram
<1> QED BY <1>1, <1>2, <1>3

LEMMA NextTypeOK == TypeOK /\ [Next]_vars => TypeOK'
<1> SUFFICES ASSUME TypeOK, [Next]_vars PROVE TypeOK'
  OBVIOUS
<1>1. CASE UNCHANGED vars
  BY <1>1 DEF TypeOK, vars, axi, decoder
<1>2. ASSUME NEW request \in Requests, NEW store \in Stores \cup {NoStore},
             Clock(request, store)
      PROVE  TypeOK'
  <2>1. AxiTypeOK' /\ DecoderTypeOK'
    BY <1>2, AxiSlaveType, DecoderType DEF Clock
  <2>2. counter_memory' \in [Rams -> [Bins -> Values]] /\ sw_ram_rdata' \in [Rams -> Values]
    BY <1>2, MemoryType DEF Clock
  <2>3. overlap' \in Nat
    BY <1>2, CounterBusAssumption DEF Clock, Overlap, TypeOK
  <2>4. met' \in BOOLEAN
    BY <1>2 DEF Clock, Met, TypeOK
  <2> QED BY <2>1, <2>2, <2>3, <2>4 DEF TypeOK, AxiTypeOK, DecoderTypeOK, Response, MaxWait
<1> QED BY <1>1, <1>2 DEF Next

(* The registers of the slave, the decoder and the memories keep their      *)
(* types, and an access is never under way for longer than the timeout.     *)
THEOREM TypeCorrect == Spec => []TypeOK
<1> QED BY InitTypeOK, NextTypeOK, PTL DEF Spec

----------------------------------------------------------------------------
(* A write is in its register, or in its bin, before it is answered.        *)

LEMMA InitAccess == Init => AccessInv
BY DEF Init, AccessInv, StrobesInv, WrittenInv, RamWriteInv, NoResponse

LEMMA StrobesNext ==
    ASSUME TypeOK, StrobesInv, NEW request \in Requests, AxiSlave(request), SystemBusRead
    PROVE  StrobesInv'
<1>0. /\ access \in {"none", "read", "write"} /\ (access = "none" <=> ack_cnt = 0)
      /\ ack_cnt \in Nat /\ wen \in BOOLEAN /\ ren \in BOOLEAN
  BY CounterBusAssumption DEF TypeOK
<1>1. sys_ack' => wen \/ ren
  BY <1>0 DEF SystemBusRead, CountDown, CountedDown, RegisterRead, RamRequest, sys_en
<1>2. CASE Accept(request)
  <2>1. ~sys_ack'
    BY <1>0, <1>1, <1>2 DEF Accept, StrobesInv
  <2>2. request.kind \in {"read", "write"}
    BY <1>2 DEF Accept, Requests
  <2>3. /\ ack_cnt' = 1 /\ wen' = FALSE /\ access' = request.kind
        /\ ren' <=> request.kind = "read"
    BY <1>2 DEF Accept
  <2> QED BY <2>1, <2>2, <2>3 DEF StrobesInv
<1>3. CASE Complete
  <2>1. ack_cnt >= 2
    BY <1>0, <1>3, CounterBusAssumption DEF Complete, ack, StrobesInv
  <2>2. ~sys_ack'
    <3>1. CASE ack_cnt = AckTimeout
      BY <1>0, <1>1, <3>1, CounterBusAssumption DEF StrobesInv
    <3>2. CASE sys_ack
      BY <1>0, <1>1, <3>2 DEF StrobesInv
    <3> QED BY <1>3, <3>1, <3>2 DEF Complete, ack
  <2> QED BY <1>3, <2>2 DEF Complete, StrobesInv
<1>4. CASE Wait
  <2>1. ack_cnt' = ack_cnt + 1 /\ access' = access /\ ren' = FALSE
        /\ (wen' <=> access = "write" /\ ack_cnt = 1)
    BY <1>4 DEF Wait
  <2> QED BY <1>0, <1>1, <1>4, <2>1 DEF Wait, StrobesInv
<1>5. CASE Quiet(request)
  BY <1>0, <1>1, <1>5 DEF Quiet, StrobesInv
<1> QED BY <1>2, <1>3, <1>4, <1>5 DEF AxiSlave

LEMMA WrittenNext ==
    ASSUME TypeOK, StrobesInv, WrittenInv, NEW request \in Requests, AxiSlave(request),
           SystemBusWrite
    PROVE  WrittenInv'
<1>0. /\ access \in {"none", "read", "write"} /\ (access = "none" <=> ack_cnt = 0)
      /\ ack_cnt \in Nat /\ registers \in [Registers -> Values] /\ wr_awaddr \in Address
  BY CounterBusAssumption DEF TypeOK
<1>1. CASE Accept(request) \/ Quiet(request)
  BY <1>1 DEF Accept, Quiet, WrittenInv, NoResponse
<1>2. CASE Complete
  BY <1>2 DEF Complete, WrittenInv
<1>3. CASE Wait
  <2>1. /\ ack_cnt' = ack_cnt + 1 /\ access' = access /\ response' = NoResponse
        /\ wr_awaddr' = wr_awaddr /\ wr_wdata' = wr_wdata
    BY <1>3 DEF Wait
  <2>2. CASE access = "write" /\ IsRegister(wr_awaddr) /\ ack_cnt = 2
    <3>1. wen /\ addr = wr_awaddr /\ wr_awaddr.register \in Registers
      BY <1>0, <2>2, AddressType DEF StrobesInv, addr
    <3>2. registers' = [registers EXCEPT ![wr_awaddr.register] = wr_wdata]
      BY <2>2, <3>1 DEF SystemBusWrite, RegisterWrite
    <3>3. registers'[wr_awaddr.register] = wr_wdata
      BY <1>0, <3>1, <3>2
    <3> QED BY <2>1, <3>3 DEF WrittenInv, NoResponse
  <2>3. CASE access = "write" /\ IsRegister(wr_awaddr) /\ ack_cnt > 2
    <3>1. registers' = registers
      BY <2>3 DEF StrobesInv, SystemBusWrite, RegisterWrite
    <3> QED BY <2>1, <2>3, <3>1 DEF WrittenInv, NoResponse
  <2>4. CASE ~(access = "write" /\ IsRegister(wr_awaddr) /\ ack_cnt >= 2)
    BY <1>0, <2>1, <2>4 DEF WrittenInv, NoResponse, IsRegister
  <2> QED BY <1>0, <2>2, <2>3, <2>4
<1> QED BY <1>1, <1>2, <1>3 DEF AxiSlave

(* From the edge at which the memory write reaches the memory on, its bin   *)
(* holds the value, if no store has met it.                                 *)
LEMMA Landed ==
    ASSUME TypeOK, StrobesInv, RamWriteInv, NEW request \in Requests, NEW store \in Stores \cup {NoStore},
           Clock(request, store), access = "write", ~IsRegister(wr_awaddr), ack_cnt > 2,
           overlap <= 1, ~met', Calm(wr_awaddr)
    PROVE  counter_memory'[wr_awaddr.ram][wr_awaddr.bin] = wr_wdata
<1> DEFINE r == wr_awaddr.ram  b == wr_awaddr.bin
<1>1. /\ r \in Rams /\ b \in Bins /\ ack_cnt \in Nat
      /\ counter_memory \in [Rams -> [Bins -> Values]] /\ sw_counter_ram_addr \in Bins
  BY CounterBusAssumption DEF TypeOK, Address, IsRegister, RegisterAddress, RamAddress
<1>2. CASE ack_cnt = 3
  <2>1. /\ sw_write = [ram |-> r, value |-> wr_wdata] /\ sw_counter_ram_addr = b
    BY <1>2 DEF RamWriteInv
  <2>2. sw_write # NoSoftwareWrite
    BY <1>1, <2>1, CounterBusAssumption DEF NoSoftwareWrite
  <2>3. store = NoStore
    BY <2>2 DEF Clock, Met
  <2>4. counter_memory'[r] = [counter_memory[r] EXCEPT ![b] = wr_wdata]
    BY <1>1, <2>1, <2>3 DEF Clock, CounterSram
  <2> QED BY <1>1, <2>4
<1>3. CASE ack_cnt > 3
  <2>1. sw_write = NoSoftwareWrite
    BY <1>1, <1>3 DEF RamWriteInv
  <2>2. sw_write.ram # r
    BY <1>1, <2>1, CounterBusAssumption DEF NoSoftwareWrite
  <2>3. store # NoStore => store.bin # b
    BY DEF Calm
  <2>4. counter_memory'[r] = IF store # NoStore THEN [counter_memory[r] EXCEPT ![store.bin] = store.value]
                                                ELSE counter_memory[r]
    BY <1>1, <2>2 DEF Clock, CounterSram
  <2>5. ~met
    BY <2>1 DEF Clock, Met
  <2>6. counter_memory[r][b] = wr_wdata
    BY <1>3, <2>5 DEF RamWriteInv, Contents
  <2> QED BY <1>1, <2>3, <2>4, <2>6
<1> QED BY <1>1, <1>2, <1>3

LEMMA RamWriteNext ==
    ASSUME TypeOK, StrobesInv, RamWriteInv, NEW request \in Requests, NEW store \in Stores \cup {NoStore},
           Clock(request, store)
    PROVE  RamWriteInv'
<1>0. /\ access \in {"none", "read", "write"} /\ (access = "none" <=> ack_cnt = 0)
      /\ ack_cnt \in Nat /\ in_progress \in Nat /\ overlap \in Nat /\ wr_awaddr \in Address
      /\ AxiSlave(request) /\ SystemBusWrite /\ SystemBusRead /\ Overlap
  BY CounterBusAssumption DEF TypeOK, Clock
<1>1. /\ sw_write' # NoSoftwareWrite => access = "write" /\ ack_cnt = 2 /\ ~IsRegister(wr_awaddr)
      /\ access = "write" /\ ack_cnt = 2 /\ ~IsRegister(wr_awaddr) =>
           sw_write' = [ram |-> wr_awaddr.ram, value |-> wr_wdata]
  BY <1>0 DEF SystemBusWrite, StrobesInv, addr
<1>2. CASE Accept(request) \/ Quiet(request) \/ Complete
  <2>1. sw_write' = NoSoftwareWrite
    BY <1>0, <1>1, <1>2, CounterBusAssumption DEF Accept, Quiet, Complete, ack, StrobesInv
  <2>2. access' # "write" \/ ack_cnt' = 1
    BY <1>2 DEF Accept, Quiet, Complete
  <2> QED BY <2>1, <2>2 DEF RamWriteInv
<1>3. CASE Wait
  <2>1. /\ ack_cnt' = ack_cnt + 1 /\ access' = access /\ wr_awaddr' = wr_awaddr /\ wr_wdata' = wr_wdata
        /\ access = "none" => ack_cnt = 0
        /\ IsRegister(wr_awaddr)' <=> IsRegister(wr_awaddr)
        /\ Calm(wr_awaddr)' <=> Calm(wr_awaddr)
    BY <1>0, <1>3 DEF Wait, IsRegister, Calm
  <2>2. /\ sw_write' # NoSoftwareWrite => access' = "write" /\ ack_cnt' = 3 /\ ~IsRegister(wr_awaddr)'
        /\ access' = "write" /\ ack_cnt' = 3 /\ ~IsRegister(wr_awaddr)' =>
             sw_write' = [ram |-> wr_awaddr'.ram, value |-> wr_wdata']
    BY <1>0, <1>1, <2>1
  <2>3. ASSUME access = "write", ~IsRegister(wr_awaddr), overlap' <= 1, ack_cnt = 1
        PROVE  \/ in_progress' = ReadWait /\ sw_counter_ram_addr' = wr_awaddr.bin
               \/ in_progress' = 0
    <3>1. in_progress \in {0, 1} /\ ~wen /\ addr = wr_awaddr
      BY <1>0, <2>3 DEF Overlap, StrobesInv, addr
    <3> QED BY <1>0, <2>3, <3>1 DEF SystemBusRead, CountDown, CountedDown, RegisterRead, RamRequest
  <2>4. ASSUME access = "write", ~IsRegister(wr_awaddr), overlap' <= 1, ack_cnt = 2
        PROVE  sw_counter_ram_addr' = wr_awaddr.bin
    <3>1. /\ addr = wr_awaddr
          /\ \/ in_progress = ReadWait /\ sw_counter_ram_addr = wr_awaddr.bin
             \/ in_progress = 0
      BY <1>0, <2>4 DEF Overlap, RamWriteInv, addr
    <3> QED BY <1>0, <2>4, <3>1, CounterBusAssumption
            DEF SystemBusRead, CountDown, CountedDown, RegisterRead, RamRequest
  <2>5. ASSUME access = "write", ~IsRegister(wr_awaddr), overlap' <= 1, ack_cnt > 2, ~met', Calm(wr_awaddr)
        PROVE  Contents(wr_awaddr)' = wr_wdata'
    <3>1. overlap' = overlap
      BY <1>0, <2>5 DEF Overlap
    <3>2. counter_memory'[wr_awaddr.ram][wr_awaddr.bin] = wr_wdata
      BY <2>5, <3>1, Landed
    <3> QED BY <2>1, <2>5, <3>2 DEF Contents
  <2>6. ack_cnt' = 2 => ack_cnt = 1
    BY <1>0, <2>1
  <2>7. ack_cnt' = 3 => ack_cnt = 2
    BY <1>0, <2>1
  <2>8. ack_cnt' > 3 => ack_cnt > 2
    BY <1>0, <2>1
  <2> QED BY <2>1, <2>2, <2>3, <2>4, <2>5, <2>6, <2>7, <2>8 DEF RamWriteInv
<1> QED BY <1>0, <1>2, <1>3 DEF AxiSlave

LEMMA NextAccess == TypeOK /\ AccessInv /\ [Next]_vars => AccessInv'
<1> SUFFICES ASSUME TypeOK, AccessInv, [Next]_vars PROVE AccessInv'
  OBVIOUS
<1>1. CASE UNCHANGED vars
  BY <1>1 DEF AccessInv, StrobesInv, WrittenInv, RamWriteInv, Contents, Calm, IsRegister, vars, axi, decoder
<1>2. ASSUME NEW request \in Requests, NEW store \in Stores \cup {NoStore},
             Clock(request, store)
      PROVE  AccessInv'
  BY <1>2, StrobesNext, WrittenNext, RamWriteNext DEF Clock, AccessInv
<1> QED BY <1>1, <1>2 DEF Next

LEMMA AccessInvariant == Spec => [](TypeOK /\ AccessInv)
<1>1. Init => TypeOK /\ AccessInv
  BY InitTypeOK, InitAccess
<1>2. (TypeOK /\ AccessInv) /\ [Next]_vars => (TypeOK /\ AccessInv)'
  BY NextTypeOK, NextAccess
<1> QED BY <1>1, <1>2, PTL DEF Spec

(* A write is answered once its register or its bin holds the value.        *)
LEMMA AnsweredWrite ==
    ASSUME TypeOK, AccessInv, WritesLand, [Next]_vars
    PROVE  WritesLand'
<1>0. /\ access \in {"none", "read", "write"} /\ ack_cnt \in Nat /\ wr_awaddr \in Address
  BY CounterBusAssumption DEF TypeOK
<1>1. CASE UNCHANGED vars
  BY <1>1 DEF WritesLand, Contents, Calm, IsRegister, vars, axi, decoder
<1>2. ASSUME NEW request \in Requests, NEW store \in Stores \cup {NoStore},
             Clock(request, store)
      PROVE  WritesLand'
  <2>1. CASE access = "write" /\ Complete
    <3>1. ack_cnt > 2
      BY <1>0, <2>1, CounterBusAssumption DEF Complete, ack, AccessInv, StrobesInv
    <3>2. response' = [kind |-> "write", addr |-> wr_awaddr, data |-> wr_wdata]
      BY <2>1 DEF Complete, Answer
    <3>3. CASE IsRegister(wr_awaddr)
      <4>1. registers[wr_awaddr.register] = wr_wdata /\ ~wen
        BY <2>1, <3>1, <3>3 DEF AccessInv, StrobesInv, WrittenInv
      <4>2. registers' = registers
        BY <1>2, <4>1 DEF Clock, SystemBusWrite, RegisterWrite
      <4> QED BY <3>2, <3>3, <4>1, <4>2 DEF WritesLand, Contents, IsRegister
    <3>4. CASE ~IsRegister(wr_awaddr)
      <4>1. overlap' = overlap
        BY <1>0, <1>2, <3>1 DEF Clock, Overlap
      <4>2. overlap' <= 1 /\ ~met' /\ Calm(wr_awaddr) =>
              counter_memory'[wr_awaddr.ram][wr_awaddr.bin] = wr_wdata
        BY <1>2, <2>1, <3>1, <3>4, <4>1, Landed DEF AccessInv
      <4> QED BY <3>2, <3>4, <4>2 DEF WritesLand, Contents, Calm, IsRegister
    <3> QED BY <3>3, <3>4
  <2>2. CASE ~(access = "write" /\ Complete)
    <3>1. response'.kind # "write"
      BY <1>0, <1>2, <2>2
      DEF Clock, AxiSlave, Accept, Complete, Wait, Quiet, Answer, NoResponse
    <3> QED BY <3>1 DEF WritesLand
  <2> QED BY <2>1, <2>2
<1> QED BY <1>1, <1>2 DEF Next

(* When a write is answered its register holds the value, however far the   *)
(* countdown of a memory access has got; and so does its bin, if the write  *)
(* found no countdown or the last edge of one, and the state machine        *)
(* neither stored to any bin as the write reached the memory nor ever       *)
(* stores to this one.                                                      *)
THEOREM WriteCorrect == Spec => []WritesLand
<1>1. Init => WritesLand
  BY DEF Init, WritesLand, NoResponse
<1>2. TypeOK /\ AccessInv /\ WritesLand /\ [Next]_vars => WritesLand'
  BY AnsweredWrite
<1> QED BY <1>1, <1>2, AccessInvariant, PTL DEF Spec

-----------------------------------------------------------------------------
(* The answers of reads.                                                    *)

(* While a read is under way its register is not written, and its bin only  *)
(* by the state machine.                                                    *)
LEMMA CalmContents ==
    ASSUME TypeOK, AccessInv, NEW request \in Requests, NEW store \in Stores \cup {NoStore},
           Clock(request, store), access = "read", Calm(rd_araddr)
    PROVE  rd_araddr' = rd_araddr /\ Contents(rd_araddr)' = Contents(rd_araddr)
<1>1. rd_araddr' = rd_araddr
  BY DEF Clock, AxiSlave, Accept, Complete, Wait, Quiet
<1>2. ~wen /\ sw_write = NoSoftwareWrite
  BY DEF AccessInv, StrobesInv, RamWriteInv
<1>3. CASE IsRegister(rd_araddr)
  <2>1. registers' = registers
    BY <1>2 DEF Clock, SystemBusWrite, RegisterWrite
  <2> QED BY <1>1, <1>3, <2>1 DEF Contents, IsRegister
<1>4. CASE ~IsRegister(rd_araddr)
  <2> DEFINE r == rd_araddr.ram  b == rd_araddr.bin
  <2>1. r \in Rams /\ b \in Bins /\ counter_memory \in [Rams -> [Bins -> Values]]
    BY <1>4 DEF TypeOK, Address, IsRegister, RegisterAddress, RamAddress
  <2>2. sw_write.ram # r
    BY <1>2, <2>1, CounterBusAssumption DEF NoSoftwareWrite
  <2>3. store # NoStore => store.bin # b
    BY <1>4 DEF Calm
  <2>4. counter_memory'[r] = IF store # NoStore THEN [counter_memory[r] EXCEPT ![store.bin] = store.value]
                                                ELSE counter_memory[r]
    BY <2>1, <2>2 DEF Clock, CounterSram
  <2>5. counter_memory'[r][b] = counter_memory[r][b]
    BY <2>1, <2>3, <2>4
  <2> QED BY <1>1, <1>4, <2>5 DEF Contents, IsRegister
<1> QED BY <1>3, <1>4

LEMMA ReadNext ==
    ASSUME TypeOK, AccessInv, ReadInv, NEW request \in Requests, NEW store \in Stores \cup {NoStore},
           Clock(request, store)
    PROVE  ReadInv'
<1>0. /\ access \in {"none", "read", "write"} /\ (access = "none" <=> ack_cnt = 0)
      /\ ack_cnt \in Nat /\ in_progress \in 0..MaxWait /\ in_progress \in Nat /\ overlap \in Nat
      /\ MaxWait \in Nat /\ ReadWait \in Nat /\ ReadWait > 1
  BY CounterBusAssumption DEF TypeOK, MaxWait
<1>1. overlap' <= MaxWait
  <2>1. overlap' = in_progress \/ overlap' = overlap
    BY DEF Clock, Overlap
  <2> QED BY <1>0, <2>1 DEF ReadInv
<1>2. CASE ~(access = "read" /\ Wait)
  <2>1. access' # "read" \/ ack_cnt' = 1
    BY <1>2 DEF Clock, AxiSlave, Accept, Complete, Wait, Quiet
  <2> QED BY <1>1, <2>1 DEF ReadInv
<1>3. CASE access = "read" /\ Wait /\ overlap' # 1 /\ Calm(rd_araddr)
  <2> DEFINE a == rd_araddr
  <2>1. /\ access' = "read" /\ ack_cnt' = ack_cnt + 1 /\ a' = a /\ addr = a /\ ~wen
        /\ Contents(a)' = Contents(a)
    BY <1>3, CalmContents DEF Wait, addr, AccessInv, StrobesInv
  <2>2. /\ SystemBusRead /\ IsRegister(a)' = IsRegister(a)
        /\ IsRegister(a) => Contents(a) = registers[a.register]
        /\ ~IsRegister(a) => Contents(a) = counter_memory[a.ram][a.bin] /\ a.ram \in Rams
    BY <2>1, AddressType DEF Clock, Contents, IsRegister
  <2>3. CASE ack_cnt = 1
    <3>1. overlap' = in_progress
      BY <1>3, <2>3 DEF Clock, Overlap
    <3>2. CASE in_progress = 0 /\ IsRegister(a)
      <4>1. in_progress' = 0 /\ sys_rdata' = registers[a.register]
        BY <2>1, <2>2, <3>2 DEF SystemBusRead, CountDown, CountedDown, RegisterRead, RamRequest
      <4> QED BY <1>1, <2>1, <2>2, <3>2, <4>1 DEF ReadInv, Answered
    <3>3. CASE in_progress = 0 /\ ~IsRegister(a)
      <4>1. /\ in_progress' = ReadWait /\ ~sys_ack' /\ sw_counter_ram_addr' = a.bin
            /\ progress_ram' = a.ram
        BY <2>1, <2>2, <3>3 DEF SystemBusRead, CountDown, CountedDown, RegisterRead, RamRequest
      <4>2. in_progress' + ack_cnt' = overlap' + 2 + ReadWait /\ ReadWait \in 1..ReadWait
        BY <1>0, <2>1, <2>3, <3>1, <3>3, <4>1
      <4>3. OwnCount(a)'
        BY <1>0, <2>1, <4>1, <4>2 DEF OwnCount
      <4> QED BY <1>1, <2>1, <2>2, <3>3, <4>1, <4>3 DEF ReadInv
    <3>4. CASE in_progress > 1
      <4>1. in_progress' = in_progress - 1 /\ ~sys_ack'
        BY <2>2, <3>4 DEF SystemBusRead, CountDown, CountedDown, RegisterRead, RamRequest
      <4>2. Awaited'
        BY <1>0, <2>1, <2>3, <3>1, <3>4, <4>1 DEF Awaited
      <4> QED BY <1>1, <4>2 DEF ReadInv
    <3> QED BY <1>0, <1>3, <3>1, <3>2, <3>3, <3>4
  <2>4. CASE ack_cnt > 1
    <3>0. /\ overlap' = overlap /\ ~sys_en
          /\ \/ Awaited
             \/ IsRegister(a) /\ in_progress = 0 /\ Answered(a)
             \/ ~IsRegister(a) /\ OwnCount(a)
             \/ ~IsRegister(a) /\ in_progress = 0 /\ Answered(a)
      BY <1>0, <1>3, <2>4 DEF Clock, Overlap, ReadInv, AccessInv, StrobesInv, sys_en
    <3>1. ~sys_ack'
      BY <2>2, <3>0 DEF SystemBusRead, CountDown, CountedDown, RegisterRead, RamRequest
    <3>2. CASE Awaited /\ in_progress # 0
      <4>1. in_progress' = in_progress - 1
        BY <1>0, <2>2, <3>2 DEF SystemBusRead, CountDown, CountedDown, RegisterRead, RamRequest
      <4>2. Awaited'
        BY <1>0, <2>1, <3>0, <3>1, <3>2, <4>1 DEF Awaited
      <4> QED BY <1>1, <4>2 DEF ReadInv
    <3>3. CASE IsRegister(a) /\ in_progress = 0
      <4>1. in_progress' = 0 /\ sys_rdata' = registers[a.register]
        BY <2>1, <2>2, <3>3 DEF SystemBusRead, CountDown, CountedDown, RegisterRead, RamRequest
      <4> QED BY <1>1, <2>1, <2>2, <3>3, <4>1 DEF ReadInv, Answered
    <3>4. CASE ~IsRegister(a) /\ in_progress = 0
      <4>1. /\ in_progress' = ReadWait /\ sw_counter_ram_addr' = a.bin /\ progress_ram' = a.ram
            /\ sys_rdata' = sys_rdata
        BY <2>1, <2>2, <3>4 DEF SystemBusRead, CountDown, CountedDown, RegisterRead, RamRequest
      <4>2. Answered(a)' \/ in_progress' + ack_cnt' = overlap' + 2 + ReadWait
        <5>1. CASE Awaited
          BY <1>0, <2>1, <3>0, <3>4, <4>1, <5>1 DEF Awaited
        <5>2. CASE Answered(a)
          BY <2>1, <4>1, <5>2 DEF Answered
        <5> QED BY <3>0, <3>4, <5>1, <5>2 DEF OwnCount
      <4>3. OwnCount(a)'
        BY <1>0, <2>1, <4>1, <4>2 DEF OwnCount
      <4> QED BY <1>1, <2>1, <2>2, <3>1, <3>4, <4>3 DEF ReadInv
    <3>5. CASE ~IsRegister(a) /\ OwnCount(a) /\ in_progress > 1
      <4>1. /\ in_progress' = in_progress - 1
            /\ UNCHANGED <<sys_rdata, progress_ram, sw_counter_ram_addr>>
        BY <2>2, <3>5 DEF SystemBusRead, CountDown, CountedDown, RegisterRead, RamRequest
      <4>2. sw_ram_rdata'[a.ram] = Contents(a)
        BY <2>2, <3>5 DEF OwnCount, Clock, CounterSram
      <4>3. in_progress' \in 1..ReadWait
        BY <1>0, <3>5, <4>1 DEF OwnCount
      <4>4. Answered(a)' \/ in_progress' + ack_cnt' = overlap' + 2 + ReadWait
        BY <1>0, <2>1, <3>0, <3>5, <4>1 DEF OwnCount, Answered
      <4>5. OwnCount(a)'
        BY <2>1, <3>5, <4>1, <4>2, <4>3, <4>4 DEF OwnCount
      <4> QED BY <1>1, <2>1, <2>2, <3>1, <3>5, <4>5 DEF ReadInv
    <3>6. CASE ~IsRegister(a) /\ OwnCount(a) /\ in_progress = 1
      <4>1. in_progress' = 0 /\ sys_rdata' = sw_ram_rdata[a.ram]
        BY <2>2, <3>6 DEF OwnCount, SystemBusRead, CountDown, CountedDown, RegisterRead, RamRequest
      <4>2. sw_ram_rdata[a.ram] = Contents(a)
        BY <1>0, <3>6 DEF OwnCount
      <4>3. Answered(a)'
        BY <2>1, <4>1, <4>2 DEF Answered
      <4> QED BY <1>1, <2>1, <2>2, <3>1, <3>6, <4>1, <4>3 DEF ReadInv
    <3>7. OwnCount(a) => in_progress >= 1
      BY <1>0 DEF OwnCount
    <3> QED BY <1>0, <3>0, <3>2, <3>3, <3>4, <3>5, <3>6, <3>7
  <2> QED BY <1>0, <1>3, <2>3, <2>4
<1>4. CASE access = "read" /\ Wait /\ ~(overlap' # 1 /\ Calm(rd_araddr))
  <2>1. overlap' = 1 \/ ~Calm(rd_araddr)'
    BY <1>4 DEF Wait, Calm, IsRegister
  <2> QED BY <1>1, <2>1 DEF ReadInv
<1> QED BY <1>2, <1>3, <1>4

(* The slave answers a read when its data are there, if its timeout is not  *)
(* shorter than two countdowns.                                             *)
LEMMA AnsweredRead ==
    ASSUME TimeoutIsLonger, TypeOK, AccessInv, ReadInv, [Next]_vars, AnswersRight
    PROVE  AnswersRight'
<1>1. CASE UNCHANGED vars
  BY <1>1 DEF AnswersRight, Contents, Calm, IsRegister, vars, axi, decoder
<1>2. ASSUME NEW request \in Requests, NEW store \in Stores \cup {NoStore},
             Clock(request, store)
      PROVE  AnswersRight'
  <2>1. CASE ~(access = "read" /\ Complete)
    <3>1. response'.kind # "read"
      BY <1>2, <2>1 DEF TypeOK, Clock, AxiSlave, Accept, Complete, Wait, Quiet, Answer, NoResponse
    <3> QED BY <3>1 DEF AnswersRight
  <2>2. CASE access = "read" /\ Complete /\ overlap' # 1 /\ Calm(rd_araddr)
    <3>0. /\ ack_cnt \in Nat /\ in_progress \in Nat /\ overlap \in Nat /\ ReadWait \in Nat
          /\ MaxWait \in Nat /\ AckTimeout \in Nat /\ AckTimeout > 2
      BY CounterBusAssumption DEF TypeOK, MaxWait
    <3>1. ack_cnt > 1
      BY <2>2, <3>0 DEF TypeOK, Complete, ack, AccessInv, StrobesInv
    <3>2. overlap' = overlap
      BY <1>2, <3>0, <3>1 DEF Clock, Overlap
    <3>3. Answered(rd_araddr)
      <4>1. ~Awaited
        BY <2>2, <3>0 DEF Complete, ack, Awaited, ReadInv, TimeoutIsLonger
      <4>2. ~sys_ack /\ OwnCount(rd_araddr) => Answered(rd_araddr)
        <5>1. ASSUME ~sys_ack, OwnCount(rd_araddr), ~Answered(rd_araddr) PROVE FALSE
          <6>1. ack_cnt = AckTimeout /\ in_progress >= 1 /\ overlap <= MaxWait
            BY <2>2, <3>0, <5>1 DEF Complete, ack, OwnCount, ReadInv
          <6>2. in_progress + ack_cnt = overlap + 2 + ReadWait
            BY <5>1 DEF OwnCount
          <6> QED BY <3>0, <6>1, <6>2 DEF TimeoutIsLonger
        <5> QED BY <5>1
      <4> QED BY <2>2, <3>1, <3>2, <4>1, <4>2 DEF ReadInv
    <3>4. response' = [kind |-> "read", addr |-> rd_araddr, data |-> sys_rdata]
      BY <2>2 DEF Complete, Answer
    <3>5. rd_araddr' = rd_araddr /\ Contents(rd_araddr)' = Contents(rd_araddr)
      BY <1>2, <2>2, CalmContents
    <3>6. response'.data = Contents(rd_araddr)' /\ response'.addr = rd_araddr'
      BY <3>3, <3>4, <3>5 DEF Answered
    <3> QED BY <3>6 DEF AnswersRight, Contents, Calm, IsRegister
  <2>3. CASE access = "read" /\ Complete /\ ~(overlap' # 1 /\ Calm(rd_araddr))
    <3>1. response' = [kind |-> "read", addr |-> rd_araddr, data |-> sys_rdata]
      BY <2>3 DEF Complete, Answer
    <3> QED BY <2>3, <3>1 DEF AnswersRight, Calm, IsRegister
  <2> QED BY <2>1, <2>2, <2>3
<1> QED BY <1>1, <1>2 DEF Next

(* A read is answered with the contents of its register or bin, whatever    *)
(* was accessed before, for any countdowns the timeout leaves time for (it  *)
(* is 128 edges in axi4_slave.sv, the countdowns are 8 and 10).             *)
THEOREM ReadCorrect ==
    ASSUME TimeoutIsLonger
    PROVE  Spec => []AnswersRight
<1>1. Init => ReadInv /\ AnswersRight
  BY CounterBusAssumption DEF Init, ReadInv, MaxWait, AnswersRight, NoResponse
<1>2. TypeOK /\ AccessInv /\ ReadInv /\ [Next]_vars => ReadInv'
  <2> SUFFICES ASSUME TypeOK, AccessInv, ReadInv, [Next]_vars PROVE ReadInv'
    OBVIOUS
  <2>1. CASE UNCHANGED vars
    BY <2>1 DEF ReadInv, Calm, Awaited, OwnCount, Answered, Contents, IsRegister, vars, axi, decoder
  <2>2. ASSUME NEW request \in Requests, NEW store \in Stores \cup {NoStore}, Clock(request, store)
        PROVE  ReadInv'
    BY <2>2, ReadNext
  <2> QED BY <2>1, <2>2 DEF Next
<1>3. TypeOK /\ AccessInv /\ ReadInv /\ AnswersRight /\ [Next]_vars => AnswersRight'
  BY AnsweredRead
<1> QED BY <1>1, <1>2, <1>3, AccessInvariant, PTL DEF Spec

================================================================================
