------------------------------ MODULE CounterBus ------------------------------
(****************************************************************************)
(* The path from software to the counter's registers and bin memories: the  *)
(* AXI slave of fpga/rtl/axi4_slave.sv, the bus decoder of                  *)
(* fpga/prj/counter/rtl/red_pitaya_counter.sv and the two-port memories of  *)
(* counter_sram.sv.  One step is one clock edge; unprimed variables are the *)
(* register values before the edge.                                         *)
(*                                                                          *)
(* Abstractions.  Only word accesses without bursts, which is all a memory  *)
(* mapped CPU access produces, so the slave's error paths are left out; the *)
(* write data beat is presented together with the address and the master is *)
(* always ready for the response.  rd_do and wr_do are never both set and   *)
(* are one variable.  sw_counter_ram_read_in_progress and                   *)
(* sw_duration_ram_read_in_progress are never both nonzero, because each is *)
(* set only while both are zero: they are in_progress, and the memory it    *)
(* counts for is progress_ram (sw_counter_ram_id).                          *)
(****************************************************************************)
EXTENDS Integers

CONSTANTS
    Registers,   \* configuration registers
    Rams,        \* bin memories: one per counter and one for the durations
    Bins,        \* addresses of a memory
    Values,      \* contents of registers and memories
    NoValue,     \* nothing
    ReadWait,    \* countdown of a memory read (0x8)
    WriteWait,   \* countdown of a memory write (0xA)
    AckTimeout,  \* edges until the slave answers by itself (ack_cnt[7])
    Stores       \* stores of the state machine through port A of the memories

ASSUME CounterBusAssumption ==
    /\ Registers # {} /\ Values # {} /\ Registers \cap Rams = {} /\ NoValue \notin Rams
    /\ ReadWait \in Nat \ {0, 1} /\ WriteWait \in Nat \ {0, 1}
    /\ AckTimeout \in Nat \ {0, 1, 2}
    /\ Stores \subseteq [bin : Bins, value : Values]

RegisterAddress == [register : Registers]
RamAddress == [ram : Rams, bin : Bins]
Address == RegisterAddress \cup RamAddress
IsRegister(a) == a \in RegisterAddress

VARIABLES
    access,               \* "none", "read" or "write": rd_do and wr_do
    rd_araddr, wr_awaddr, wr_wdata, ack_cnt, wen, ren,
    response,             \* BVALID or RVALID, with the answer
    sys_ack, sys_rdata, in_progress, progress_ram, sw_counter_ram_addr,
    sw_write,             \* sw_*_ram_write_enable and sw_*_ram_wdata
    sw_ram_rdata,         \* port B outputs of the memories
    counter_memory, registers,
    overlap,              \* history: the countdown this access found
    met                   \* history: a store met the memory write of this access

axi == <<access, rd_araddr, wr_awaddr, wr_wdata, ack_cnt, wen, ren, response>>
decoder == <<sys_ack, sys_rdata, in_progress, progress_ram, sw_counter_ram_addr>>
vars == <<axi, decoder, sw_write, sw_ram_rdata, counter_memory, registers, overlap, met>>

NoRequest == [kind |-> "none"]
Requests == {NoRequest} \cup [kind : {"read"}, addr : Address]
                        \cup [kind : {"write"}, addr : Address, value : Values]
NoResponse == [kind |-> "none"]
NoSoftwareWrite == [ram |-> NoValue]
NoStore == [bin |-> NoValue]

(* The power-up contents; the registers start from any value.               *)
Init ==
    /\ access = "none" /\ ack_cnt = 0 /\ wen = FALSE /\ ren = FALSE
    /\ rd_araddr \in RegisterAddress /\ wr_awaddr = rd_araddr
    /\ wr_wdata \in Values /\ response = NoResponse
    /\ sys_ack = FALSE /\ sys_rdata = wr_wdata
    /\ in_progress = 0 /\ progress_ram \in Rams
    /\ sw_counter_ram_addr \in Bins /\ sw_write = NoSoftwareWrite
    /\ \E v \in Values : /\ counter_memory = [r \in Rams |-> [b \in Bins |-> v]]
                         /\ sw_ram_rdata = [r \in Rams |-> v]
    /\ registers \in [Registers -> Values]
    /\ overlap = 0 /\ met = FALSE

----------------------------------------------------------------------------
(* The AXI slave.                                                           *)

(* bus.addr: between accesses it is the address of the last write.          *)
addr == IF access = "read" THEN rd_araddr ELSE wr_awaddr
sys_en == wen \/ ren

ack == sys_ack \/ ack_cnt = AckTimeout

Accept(request) ==
    /\ access = "none" /\ request # NoRequest
    /\ access' = request.kind
    /\ ack_cnt' = 1
    /\ ren' = (request.kind = "read") /\ wen' = FALSE
    /\ rd_araddr' = IF request.kind = "read" THEN request.addr ELSE rd_araddr
    /\ wr_awaddr' = IF request.kind = "write" THEN request.addr ELSE wr_awaddr
    /\ wr_wdata' = IF request.kind = "write" THEN request.value ELSE wr_wdata
    /\ response' = NoResponse

Answer ==
    IF access = "read" THEN [kind |-> "read", addr |-> rd_araddr, data |-> sys_rdata]
                       ELSE [kind |-> "write", addr |-> wr_awaddr, data |-> wr_wdata]

Complete ==
    /\ access # "none" /\ ack
    /\ access' = "none" /\ ack_cnt' = 0 /\ wen' = FALSE /\ ren' = FALSE
    /\ response' = Answer
    /\ UNCHANGED <<rd_araddr, wr_awaddr, wr_wdata>>

(* Mutant of Wait: the timeout protects writes only.                        *)
WaitCountsWrites ==
    /\ access # "none" /\ ~ack
    /\ wen' = (access = "write" /\ ack_cnt = 1) /\ ren' = FALSE
    /\ ack_cnt' = IF access = "write" THEN ack_cnt + 1 ELSE ack_cnt
    /\ response' = NoResponse
    /\ UNCHANGED <<access, rd_araddr, wr_awaddr, wr_wdata>>

(* The write strobe comes one edge after the address, the read strobe with  *)
(* it.                                                                      *)
Wait ==
    /\ access # "none" /\ ~ack
    /\ wen' = (access = "write" /\ ack_cnt = 1) /\ ren' = FALSE
    /\ ack_cnt' = ack_cnt + 1 /\ response' = NoResponse
    /\ UNCHANGED <<access, rd_araddr, wr_awaddr, wr_wdata>>

Quiet(request) ==
    /\ access = "none" /\ request = NoRequest
    /\ ack_cnt' = 0 /\ wen' = FALSE /\ ren' = FALSE /\ response' = NoResponse
    /\ UNCHANGED <<access, rd_araddr, wr_awaddr, wr_wdata>>

AxiSlave(request) ==
    /\ access # "none" => request = NoRequest
    /\ Accept(request) \/ Complete \/ Wait \/ Quiet(request)

----------------------------------------------------------------------------
(* The bus decoder of the counter.                                          *)

(* Writes are decoded on every strobe, whatever the countdown.              *)
RegisterWrite ==
    registers' = IF wen /\ IsRegister(addr)
                 THEN [registers EXCEPT ![addr.register] = wr_wdata] ELSE registers

SystemBusWrite ==
    /\ RegisterWrite
    /\ sw_write' = IF wen /\ ~IsRegister(addr)
                   THEN [ram |-> addr.ram, value |-> wr_wdata] ELSE NoSoftwareWrite

CountDown ==
    /\ in_progress > 1
    /\ in_progress' = in_progress - 1
    /\ sys_ack' = FALSE
    /\ UNCHANGED <<sys_rdata, progress_ram, sw_counter_ram_addr>>

(* The strobe of the access that started the countdown is long over: the    *)
(* answer is taken by whichever access has its strobe on this very edge.    *)
CountedDown ==
    /\ in_progress = 1
    /\ in_progress' = 0
    /\ sys_ack' = sys_en
    /\ sys_rdata' = sw_ram_rdata[progress_ram]
    /\ UNCHANGED <<progress_ram, sw_counter_ram_addr>>

RegisterRead ==
    /\ in_progress = 0 /\ IsRegister(addr)
    /\ sys_ack' = sys_en
    /\ sys_rdata' = registers[addr.register]
    /\ UNCHANGED <<in_progress, progress_ram, sw_counter_ram_addr>>

(* Mutant of RamRequest: the address is taken over only with the strobe.    *)
RamRequestOnStrobe ==
    /\ in_progress = 0 /\ ~IsRegister(addr)
    /\ sw_counter_ram_addr' = IF sys_en THEN addr.bin ELSE sw_counter_ram_addr
    /\ progress_ram' = addr.ram
    /\ in_progress' = IF wen THEN WriteWait ELSE ReadWait
    /\ sys_ack' = FALSE
    /\ UNCHANGED sys_rdata

(* Not conditional on the strobe: it repeats as long as the address stays.  *)
RamRequest ==
    /\ in_progress = 0 /\ ~IsRegister(addr)
    /\ sw_counter_ram_addr' = addr.bin
    /\ progress_ram' = addr.ram
    /\ in_progress' = IF wen THEN WriteWait ELSE ReadWait
    /\ sys_ack' = FALSE
    /\ UNCHANGED sys_rdata

SystemBusRead == CountDown \/ CountedDown \/ RegisterRead \/ RamRequest

----------------------------------------------------------------------------
(* The memories.  Port A belongs to the state machine, which writes one bin *)
(* of all of them at once; port B to the bus.  One write per edge: port A's.*)
CounterSram(store) ==
    /\ counter_memory' =
         [r \in Rams |->
            IF store # NoStore THEN [counter_memory[r] EXCEPT ![store.bin] = store.value]
            ELSE IF sw_write.ram = r
                 THEN [counter_memory[r] EXCEPT ![sw_counter_ram_addr] = sw_write.value]
                 ELSE counter_memory[r]]
    /\ sw_ram_rdata' = [r \in Rams |-> counter_memory[r][sw_counter_ram_addr]]

(* The first edge that has the access's address in front of the decoder.    *)
Overlap ==
    overlap' = IF access # "none" /\ ack_cnt = 1 THEN in_progress ELSE overlap

Met(store) ==
    met' = IF sw_write # NoSoftwareWrite THEN store # NoStore ELSE met /\ access # "none"

Clock(request, store) ==
    /\ AxiSlave(request)
    /\ SystemBusWrite
    /\ SystemBusRead
    /\ CounterSram(store)
    /\ Overlap /\ Met(store)

Next == \E request \in Requests, store \in Stores \cup {NoStore} : Clock(request, store)

Spec == Init /\ [][Next]_vars /\ WF_vars(Next)

----------------------------------------------------------------------------
(* Properties.                                                              *)

(* The longer of the two countdowns.                                        *)
MaxWait == IF ReadWait > WriteWait THEN ReadWait ELSE WriteWait

(* The type of every variable, and the protocol between the slave's         *)
(* registers: strobes only while an access is under way, and an access      *)
(* counted up to the timeout.                                               *)
TypeOK ==
    /\ access \in {"none", "read", "write"}
    /\ rd_araddr \in Address /\ wr_awaddr \in Address /\ wr_wdata \in Values
    /\ ack_cnt \in 0..AckTimeout /\ (access = "none" <=> ack_cnt = 0)
    /\ wen \in BOOLEAN /\ (wen => access = "write")
    /\ ren \in BOOLEAN /\ (ren => access = "read")
    /\ response \in {NoResponse} \cup [kind : {"read", "write"}, addr : Address, data : Values]
    /\ sys_ack \in BOOLEAN /\ sys_rdata \in Values
    /\ in_progress \in 0..MaxWait
    /\ progress_ram \in Rams /\ sw_counter_ram_addr \in Bins
    /\ sw_write \in {NoSoftwareWrite} \cup [ram : Rams, value : Values]
    /\ sw_ram_rdata \in [Rams -> Values]
    /\ counter_memory \in [Rams -> [Bins -> Values]]
    /\ registers \in [Registers -> Values]
    /\ overlap \in Nat /\ met \in BOOLEAN

Contents(a) == IF IsRegister(a) THEN registers[a.register] ELSE counter_memory[a.ram][a.bin]

(* Nothing but software changes it.                                         *)
Calm(a) == IsRegister(a) \/ \A s \in Stores : s.bin # a.bin

(* A read of a register, or of a bin that the state machine does not store  *)
(* in the meantime, is answered with its contents, whatever was accessed    *)
(* before and however long the countdown of an earlier memory access still  *)
(* runs, unless its strobe meets the last edge of that countdown            *)
(* (overlap = 1).                                                           *)
AnswersRight ==
    response.kind = "read" /\ overlap # 1 /\ Calm(response.addr)
        => response.data = Contents(response.addr)

(* When a write is answered, the register or the bin it names holds its     *)
(* value: a register always, also while a memory access is counted down; a  *)
(* bin that the state machine does not store if the decoder was free when   *)
(* the address appeared, or on the last edge of a countdown, and no store   *)
(* of the state machine, to whatever bin, met the write at the memory:      *)
(* counter_sram drops port B's write then.                                  *)
WritesLand ==
    /\ response.kind = "write"
    /\ IsRegister(response.addr) \/ (overlap <= 1 /\ ~met /\ Calm(response.addr))
    => Contents(response.addr) = response.data

(* Why writes land: when the strobes are raised, what the access has        *)
(* reached on each edge, and that it is not answered before the write.      *)
StrobesInv ==
    /\ ren <=> access = "read" /\ ack_cnt = 1
    /\ wen <=> access = "write" /\ ack_cnt = 2
    /\ sys_ack => (access = "read" /\ ack_cnt = 2) \/ (access = "write" /\ ack_cnt = 3)

WrittenInv ==
    /\ access = "write" /\ IsRegister(wr_awaddr) /\ ack_cnt > 2
         => registers[wr_awaddr.register] = wr_wdata
    /\ response.kind = "write" => access = "none"

RamWriteInv ==
    /\ sw_write # NoSoftwareWrite =>
         access = "write" /\ ack_cnt = 3 /\ ~IsRegister(wr_awaddr)
    /\ access = "write" /\ ack_cnt = 3 /\ ~IsRegister(wr_awaddr) =>
         sw_write = [ram |-> wr_awaddr.ram, value |-> wr_wdata]
    /\ access = "write" /\ ~IsRegister(wr_awaddr) /\ overlap <= 1 =>
         /\ ack_cnt = 2 => \/ in_progress = ReadWait /\ sw_counter_ram_addr = wr_awaddr.bin
                           \/ in_progress = 0
         /\ ack_cnt = 3 => sw_counter_ram_addr = wr_awaddr.bin
         /\ ack_cnt > 3 /\ ~met /\ Calm(wr_awaddr) => Contents(wr_awaddr) = wr_wdata

AccessInv == StrobesInv /\ WrittenInv /\ RamWriteInv

(* Why reads are answered right: an access first waits for the countdown it *)
(* has found, then its own runs with its address at port B, and the slave's *)
(* timeout leaves time for both.                                            *)
TimeoutIsLonger == AckTimeout >= MaxWait + ReadWait + 2

Answered(a) == sys_rdata = Contents(a)
Awaited == overlap > 1 /\ in_progress = overlap + 1 - ack_cnt /\ ~sys_ack
OwnCount(a) ==
    /\ in_progress \in 1..ReadWait /\ sw_counter_ram_addr = a.bin /\ progress_ram = a.ram
    /\ in_progress < ReadWait => sw_ram_rdata[a.ram] = Contents(a)
    /\ Answered(a) \/ in_progress + ack_cnt = overlap + 2 + ReadWait

ReadInv ==
    /\ overlap <= MaxWait
    /\ access = "read" /\ ack_cnt > 1 /\ overlap # 1 /\ Calm(rd_araddr) =>
         \/ Awaited
         \/ IsRegister(rd_araddr) /\ in_progress = 0 /\ Answered(rd_araddr)
         \/ /\ ~IsRegister(rd_araddr) /\ ~sys_ack
            /\ OwnCount(rd_araddr) \/ (in_progress = 0 /\ Answered(rd_araddr))

(* Every access of software is answered: the CPU never hangs on the bus,    *)
(* although the counter never acknowledges a memory access.                 *)
AccessEnds == access # "none" ~> access = "none"
================================================================================
