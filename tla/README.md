# Models and proofs of the Red Pitaya counter, oscilloscope, streaming and web server

TLA+ models, TLC runs and TLAPS proofs for this repository: the pulse counter
that the Leipzig group added (FPGA state machine, bus, library, TCP server), the
worker thread of the oscilloscope web application, the streaming manager, and the
part of the web server that loads applications and sends their data. Everything is
translated from the code; where a document says something else, the code is what is
modelled.

    tlc -workers 2 -config CounterOrderly.cfg MCCounterFpga    # a run
    tlapm CounterFpgaProofs.tla                                # the proofs of a module

## 1. The system

| part | state it keeps | operations | talks to |
|---|---|---|---|
| Counter FPGA (`fpga/prj/counter/rtl/red_pitaya_counter.sv`, `input_counter.sv`) | `counter_state`, timer, duration, command and acknowledge, bin address and limit, edge counters, trigger configuration | one step per clock edge; commands gotoIdle, reset, countImmediately, countTriggered, countGated, trigger | bin memory (port A); bus registers |
| Counter bus (`fpga/rtl/axi4_slave.sv`, decoder in `red_pitaya_counter.sv`, `counter_sram.sv`) | access in progress, acknowledge counter, strobes, memory countdown, bin memories | one AXI read or write at a time | CPU, registers, memories (port B) |
| Library (`api/src/counter.c`, `common.c`, `rp.c`) | none of its own: everything is in registers | polls for idle, single commands, read-modify-write of fields | bus |
| Counter server (`counter-server/src`) | per process: socket buffer, context, `app_exit` | fork per connection, one handler per command | library; clients over TCP; SIGTERM |
| Scope application (`apps-free/scope/src`) | main parameters, control state, worker's parameters, signals, three mutexes | `rp_set_params`, `rp_get_signals`, `rp_app_exit` in the web thread; the worker's loop and auto-set | FPGA oscilloscope; web server |
| Streaming manager (`apps-tools/streaming_manager/src`) | the application pointer, running flags and threads; the queue of buffers to write; a connection, the packs of a buffer and the receiver's FIFO | start, stop, exit; accept, write, update the header, drain; accept a client, split and send, receive and reassemble | DMA device, disk, network |
| Web server plug-in and websocket server (`Bazaar/nginx/ngx_ext_modules`) | the one loaded application, POST requests under way, timers and connections | start, stop, list; POST; open, close, message, timers | applications' shared objects; browsers |
| SCPI server, `api`, `api2` | settings and driver handles | one handler per command | FPGA |

What is hard in each of them, and therefore what the properties are about:

* **Counter FPGA.** Counts, duration and timer are set on different clock edges,
  commands may arrive on any edge, and bins are written two edges after the count
  ends. A rate is right only if counts and duration belong to the very same edges.
* **Counter bus.** A memory access is a countdown that outlives the access; its
  acknowledge and address may meet the next access.
* **Counter server.** Processes share one counter without any lock; every test and
  every set is a bus access of its own.
* **Scope application.** Two threads share four copies of the parameters and the
  control state under mutexes that are held for one access each; the worker waits
  for a trigger that may never come.
* **Command stream.** A command may come in pieces, or several in one piece; buffer and
  scan positions must agree with what has been moved and grown.
* **Streaming manager.** A writer thread, a worker thread and detached stoppers share one pointer and
  plain flags; the writer may fail, the thread that notices asks for a stop that waits for it. Packs
  are found by a marker in a byte stream that TCP cuts anywhere; datagrams are lost and overtake one another.
* **Web server.** Requests of the browser unload an application whose functions another thread may be in;
  timers are set and cancelled from three places.

`PROJECT.json` lists every component with what is left out of it, and every hazard
at its line with the properties that watch it.

## 2. Modules

| module | models | theorems |
|---|---|---|
| `CounterFpga` | the counter's state machine, edge by edge | `CounterFpgaProofs` |
| `CounterModes` | abstract specification of the counter: what a measurement is | |
| `CounterRefinement` (run by `MCCounterFpga`) | how `CounterFpga` implements it | `CounterFpgaProofs` |
| `CounterBus` | AXI slave, decoder, bin memories, edge by edge | `CounterBusProofs` |
| `CounterServer` | forked processes and library on one counter, bus access by bus access | `CounterServerProofs` |
| `CommandStream` | a process's receive buffer, byte by byte | `CommandStreamProofs` |
| `CommandLines` | its abstract specification: the stream is cut at line ends | |
| `ScopeWorker` | web and worker thread of the scope application, critical section by critical section | `ScopeWorkerProofs` |
| `FileQueue` | the queue between acquisition and file, the writer's thread | `StreamingProofs` |
| `StreamLifecycle` | start and stop of the streaming application by up to five kinds of threads | `StreamingProofs` |
| `StreamNet` | server, network and client of the streaming application | `StreamNetProofs` |
| `AppServer` | nginx's requests, the loaded application, the websocket server's thread | `AppServerProofs` |

Every module that is run has a module `MC...`, which only gives values to constants. The modules share names, not
variables: each reduces its neighbours to what it sees of them. `CounterServer`'s counter is `CounterFpga` as software
sees it, `CounterBus` gives `CounterServer` its atomic accesses, `StreamLifecycle`'s writer is the thread of `FileQueue`
(`WriterAsSeen` proves that it is).

### CounterFpga

One step is one clock edge (`Clock(w)`); `w` is the bus write of that edge, if any.
`Active` is the `case (counter_state)` with one operator per state (`GateRise`,
`Prestore`, `Store`, ...), `Commanded` the branch above it that executes a command,
`BusRegister` and its kin the register writes below. Non-blocking assignment is priming, so the
order of `<=` in the source is kept where two write the same register. `InputCounters` is
`input_counter.sv`: edges are counted unless `counters_reset`. Two history variables
measure what no register does: `window`, the edges on which the counters that are
latched now were open, and the pulses seen in it.

`Spec` lets the bus write any command, limit or configuration on any edge that is
`WriteGap` after the last. `OrderlySpec` restricts software to what
`counter_WaitAndReadAndStartCounting` does: a mode is started only from idle, with the last
command acknowledged, and the software trigger is not used.

### CounterModes and CounterRefinement

`CounterModes` has neither registers nor commands: a measurement opens (`Open`), sees edges (`Count`), ends with
the pulses of the edges its result says (`Finish`), is put into a bin (`Put`) and the bin is left (`NextBin`); software may stop it at
any time, and sets timeout and bin limit at any time. `CounterRefinement` reads `mode`, `phase`, `elapsed`, `result` and `port`
from the registers and the history variable; `ImplementsModes` is the abstract specification under this mapping. Two weaknesses
of the code show in the abstract specification: while a measurement runs the duration of the last result is overwritten before its
counts are (`Overwritten`), and a gated duration is one more than the edges counted.

### CounterBus

One step is one clock edge of `axi4_slave.sv` (one transaction at a time, strobe of a write
one edge after the address, answer on acknowledge or timeout), of the decoder
(register access at once, memory access by a countdown that starts whenever a memory
address is on the bus, strobe or not) and of `counter_sram.sv`. Between accesses
`bus.addr` is the address of the last write, so after a memory write the countdown repeats
for ever: this is in the model because it is in the code, and `AnswersRight` is about it. The memories are
written through port B unless port A writes on the same edge. Two history variables: `overlap`, how far the countdown was when the access
came, and `met`, whether a store of the state machine met this access's write at the memory.
Left out: bursts, AXI error responses, a master that is not ready, write data that comes after its address.

### CounterServer

The counter is reduced to what software sees of `CounterFpga`: the mode, whether a
window is open, and whose measurements the latched duration and counts hold. A
measurement is named by the client whose command started it and becomes `Stale`
when that client begins another command, so "fresh" means: of this very command. A step of a process is one
bus access that reads or changes something shared (`WaitIdle`, `Start`, `WaitDone`, `ReadDuration`,
`ReadCounts`, one channel at a time, `ConfRead`, `ConfWrite`, ...), in the order in which handler and library make them. Two history
variables: `alone`, the clients whose count has had the counter to itself since the look that found it idle, and `configurers`, those who
configured at the same time, last.
`Term` is the signal handler: it sets a flag that `Receive` looks at only after the next command.

### CommandStream and CommandLines

`Receive` takes any number of bytes up to the buffer's size; `Grow` and `Copy` are the two ways they are appended,
`AnswerLine` one turn of the scan for a line end (`getNextCommand`, `handleCommand`), `MoveRest` the move of what is left to the front.
A byte is a separator, one of the two characters of a line end, or any other; memory that was never written holds `junk`. `m` is the offset
of the pointer of that name, which moves on with every line. What ends the process (the comparison of the
null pointer that an empty line gives, more arguments than `MAX_ARGS`) is the action `Crash`. `CommandLines` has only the stream and the
number of bytes answered: a line is answered from line end to line end, in order.

### ScopeWorker

`pc[web]` and `pc[worker]` are the places between two critical sections. Both threads run
`rp_set_params` (`SettingParams(t)`): the web thread with the user's parameters, the worker at the
end of auto-set with its own (`UpdateMain`, then `Enter`). The main parameters are read
without their mutex from `ReadMode` on, and this is where the two get in each other's way. The worker's
actions are the segments of its loop: `ReadControl`, `UpdateFpga`, `Arm`, `StartWorking`, `Poll`,
`Check`, `Process`, `Reread`, `SingleDone`, `Publish`; auto-set is `AutoAcquire`, `AutoPoll`,
`AutoSearch`, `AutoResult`. A setting stands for all parameters; what matters of it is its trigger mode and whether it is
acquired in parts. Signals remember the setting they were scaled by and the one the FPGA had. The history variable `acquired` identifies an
acquisition: the setting the FPGA was armed for, and how many parts have been taken of that arming; a reset of the FPGA leaves none.

### FileQueue

`Bring` is `passBuffers` up to its call of `AddBufferToWrite`, header included, `Accept` and `Refuse` are that call's two ways on, `Push` the
push under the queue's lock; the limit is looked at before it. The writer's thread (`Task`) is `TestRun`, `Pop` or `Empty` (the `front()` of an empty list, which the code takes for a null pointer: in libstdc++ it reads the list's count of elements, which is 0), then `Write`,
`WriteFails` (the system did not take all of it) or `WriteError` (disk full, or the stream failed before), `UpdateWavFile` and, when told to stop, `Drain` and `Ended`. `StopWrite` and `JoinWriter`
are the code's `StopWrite`. `m_freeSize`, `m_hasWriteSize` and `m_useMemory` are the code's accounts; `file` is a sequence of buffers, and
`header` the size the WAV header tells, which wraps at `SizeLimit` (2^32 in the code).

### StreamLifecycle

An application is a number; `pc[t]` is the step of a thread in `StartServer` or `StopServer` (both begin with the same steps `Test`,
`Stop`, `Join`, `Halt`, `Reload`, `Free`), `object[t]` the application it is in, since `s_app` may be another one by now, and `phase[t]` whether
it was called directly or by the destructor. `oscWorker(a)` is the oscilloscope's thread: `Prepare`, `Loop`, `NextBuffer` (which
returns only when the oscilloscope runs), `Check`. `Begin` starts the thread that `StopNonBlocking` detached. Use after delete, a second join of a
thread and an exception in a destructor set `undefined`, after which nothing is claimed; `overlapped` says whether two starts or stops were ever under way together.

### StreamNet

`Accept`, `AcceptFails`, `Requested`, `Pass`, `SendPack`, `PeerGone`, `PeerReset` and `SendFails` are the server's two threads, in which the flags of the connection are set and
cleared; `ClientStart` and `ClientEnds` the clients, one after another; `LosePack` and the choice in `ReceivePack` the network of UDP. Over TCP
`ReceiveCells` takes any number of cells up to the socket's buffer and appends them to the FIFO, the first time also fewer than a header; `Take` (a complete pack is recorded, the rest moved) and `Wait` are the two outcomes of the
search for the marker of a pack. Where the search or the size it reads meets memory that was never written, `Wait` may set `undefined`, after which nothing is claimed of this client. A cell of the stream is its pack's number and its place in the pack; a pack is four cells of header (marker,
size, ...) and its payload.

### AppServer

nginx is single-threaded: `pc` is the step of the request it is in, and it can only be met by the server's thread where it waits or between two
requests. `rp_bazaar_start`, `rp_bazaar_stop`, `rp_bazaar_apps` are the requests; `NoServer`, `StopServer`, `Joined`, `Unload` the
unloading, `LoadFails`, `LoadModule`, `StartServer`, `FirstTimer` the loading. A POST is two actions, `PostHead` and `PostBody`, between which applications come and go. The server's thread is an
event loop: `Expire` makes the handler of a timer ready, `OnTimer`, `on_open`, `on_close` and `on_message` run handlers; while the step is `app` it is in a function
of an application. A connection first `Closes` in the library, and `on_close` comes later; data that are sent in between throw (`SendThrows`), which ends the loop, not the process. Exceptions
nobody catches end the process: a failed bind (`Listen`), a message that cannot be parsed (`on_message`), a close of a connection that is closing (`StopServer`). `ExitThread` is the thread that ends the process one second after a stop, `Respawn` nginx's master.

## 3. Runs

All twelve runs pass; every property is one that a plausible bug breaks, a "Mutant of" operator next to the definition it replaces.

| run | module, cfg | question |
|---|---|---|
| counter_orderly | MCCounterFpga, CounterOrderly | do the registers implement `CounterModes` (counts, window, duration and bin belong together), and does every measurement end, for orderly software? |
| counter_any_write | MCCounterFpga, CounterAnyWrite | whatever software writes and when, does a command act on at most two edges, does the bin address stay within its limit, is no bin skipped? |
| bus_access | MCCounterBus, BusAccess | are accesses answered, with the right contents, and does the bin or register a write names hold its value, whatever countdown still runs (with the exceptions the properties name)? |
| server_measure | MCCounterServer, ServerMeasure | two clients measure in every way, start, stop, reset and trigger: is a count that had the counter to itself since it was found idle the measurement it started, in duration and every channel? |
| server_count | MCCounterServer, ServerCount | two clients configure, one of them counts too: is the setting of one that was alone whole, what is left of two that overlapped, is every command answered, SIGTERM included? |
| command_stream | MCCommandStream, CommandStream | however the stream is cut into receives, are the same lines answered in the same order, all of them, inside the buffer? |
| scope_continuous | MCScopeWorker, ScopeContinuous | without the buttons: does every setting arrive at the FPGA, does unloading end? |
| scope_all | MCScopeWorker, ScopeAll | with single and auto-set: are signals scaled by the setting they were captured with, are the parts of a long acquisition those of one arming and in order, also from one long setting to another, do all copies of the setting agree in the end? |
| file_queue | MCFileQueue, FileQueue | is the file a beginning of what was accepted, does its header tell its size, is everything written that can be, does a stop end? |
| stream_lifecycle | MCStreamLifecycle, StreamLifecycle | is nothing used after it was deleted unless starts and stops overlap, does a stop stop everything and end, is a failed file noticed? |
| stream_net | MCStreamNet, StreamNet | however the connection cuts, loses or reorders packs, is what is recorded what was sent; what can be misread; is a client that asks answered? |
| app_server | MCAppServer, AppServer | is an application loaded while its functions run, do data keep flowing to each client whatever the other does, across stops, listings and the death of the process, does stopping end? |

**Bounds.** *Counter*: one line that is both counted and the trigger, words of 0..2, two bins. The state machine compares
words with zero and one only, so three values show every case, wrap-around included; timeouts of 0 and 2 are the one that is over as
it starts and the one that leaves a pulse (two edges) room, and a gate may stay open beyond the wrap. The
theorems hold for every width, so nothing rests on these bounds except the liveness. *Bus*:
one register, two memories, two bins, two values: enough for an access to meet the countdown of another bin of the same memory,
of another memory, or of none. The countdowns (8 and 10 edges in the code) and the timeout (128) are 3, 4 and 10: what matters
is that the timeout leaves time for a countdown found running and for the access's own (`TimeoutIsLonger`). *Server*: two clients, two channels, at most two counts per command;
interference needs one other process, and a second count is the first that starts by reading the one before. Two clients configure the one register: one can then
write back what it read before the other (the theorem is for any number).
*Command stream*: a buffer of four bytes, no arguments allowed, every stream of up to six bytes and three longer ones, so that the buffer is filled to its end, overflows,
grows twice and grows in the middle of a line. *Scope*: one setting per trigger mode and a second long one, the long ones acquired in two parts, three requests
after the application's own first `rp_set_params`, two acquisitions in each phase of auto-set.
*File queue*: buffers of one and three bytes, header of one, memory for three, ten bytes free on the disk, header sizes that wrap at nine, five buffers:
memory and disk both run out, and the size in the header wraps before the disk is full. *Lifecycle*: two starts and one stop
requested, one buffer dropped: the second start replaces the first application, and with the stops that failing writers
ask for three threads may stop at a time. *Net*: payloads of one and two cells (all packs of a run have one size, as in the code), a socket buffer of six, a FIFO of twelve, three packs to a buffer, six packs, two clients: a
receive may bring the end of a pack, and the beginning or the whole of another, or less than a header. In the code the buffer is 65536 bytes, split into packs of 32768 (TCP) or 512 (UDP). *App server*: three applications, one
without websocket functions and one whose functions may hang, two clients, of which one may end while the other is sent data, one POST, since bodies come one after the other; one message per server, because each message rearms a timer,
and a client that sends faster than the interval could starve the data for ever.

**Fairness.** *Counter and bus*: WF(Next), the clock runs. Software, edges and gates may stay away for ever. *Server*: the timer
of a running window ends it, and the kernel runs each process that has a step; clients, the trigger and
the gate need do nothing. *Command stream*: the process goes on; nothing need be sent. *Scope*: the kernel runs both threads, and an immediate trigger comes by itself (`trig_source` auto);
an edge need not come, and users need do nothing. The wait for auto-set ends after at most ten seconds, so `AutoWaitEnds` is a fair step.
*File queue*: the writer and a stop that was begun go on; nobody has to bring buffers or to stop. *Lifecycle*: each thread that has a step takes it; no request has to come and no
disk to fill. *Net*: both threads of the server and the client go on, and TCP delivers; UDP need not. *App server*: each thread that has a step takes it, functions of
applications return unless they are among the hanging ones, the master starts a new process. The only strong fairness is that of
`OnTimer`: the loop takes its handlers from a first-in, first-out queue, so the handler of an expired timer is not passed over for
ever, although it is not enabled while another handler runs.

**Deadlock** is checked for the counter, the bus and the app server. Elsewhere the system may really stop: clients have gone, the
connection is closed, the application is unloaded, the recording is stopped.

## 4. Proofs

All from the named ASSUMEs of the modules only, for every value of the constants. Each starts from `TypeCorrect` and
has one lemma or step per action.

* `CounterFpgaProofs`. `TypeCorrect`, `BinAddressBounded` for `Spec`, whatever software writes. The others are for
  `OrderlySpec`, from `OrderlyInvariant`. That a timed count covers exactly the duration it is divided by does not follow from
  the types: it needs that edge counters are open in the counting states only (`OpenWhileCounting`), that the
  edges seen so far are the duration less what the timer still has to run (`WindowTracksTimer`), that a pulse takes two edges
  (`PulsesTakeTwoEdges`), and that a start is executed in idle only and on one edge (`StartsFromIdle`). There is
  one lemma per state of the machine and one for commands. `TimedCountCorrect`, `GatedCountCorrect` (the duration of
  a gated count is the window plus one, modulo the word), `PulsesFit` and `StoreCorrect` follow.
  `BinLeftCorrect` and `CommandCorrect` again hold for `Spec`: the write port is open in the store states (`PortInv`), and the acknowledge comes one edge after the
  command (`AckInv`). `CounterImplementsModes`: under `OrderlySpec` initial states of the registers map to initial states of `CounterModes`, and every
  edge to one of its steps or a stutter. The abstract `Finish` needs `elapsed = target`, which is `WindowTracksTimer`
  on the edge on which the timer is found to be over; `Open` needs that the counters were held, and `Put` that the latched counts and duration are of one
  measurement: the invariant is `OrderlyInv`, and there is one lemma per step of `CounterModes` it maps to.
* `CounterBusProofs`. `TypeCorrect`; `WriteCorrect` (`WritesLand`): when a write is answered, its register or bin holds the value, not only the write strobe. From `AccessInv`: which strobe is
  up at which `ack_cnt` (`StrobesInv`), that a register holds its value once the strobe is over (`WrittenInv`),
  where the address of the memory is on each edge of a write, and that the bin holds the value from the edge of the write to the answer if no store met it (`RamWriteInv`; `Landed` is that edge). `ReadCorrect`, from `ReadInv`: a read first waits for the countdown it has found (`Awaited`), then
  its own runs with its address at port B (`OwnCount`). It needs `TimeoutIsLonger`, that the slave's timeout leaves time for both: 128 edges for 10 + 8 + 2 in the code, 10 for 4 + 3 + 2 in the run.
* `CounterServerProofs`, for any clients, any channels and any commands of each. `TypeCorrect`; `SingleCorrect` and `CountCorrect`: a count that has had the counter to itself since it was found idle (COUNTER:COUNT:SING? waits for that, COUNTER:COUNT? may happen upon it) is answered
  with the duration and every channel of the measurement it started, whatever was sent and left running before. The invariant `MeasureInv` says that an idle counter has its
  edge counters closed (`IdleInv`), what such a count has reached at each of its steps (`AloneInv`), and that what it has read of the channels is its own (`ReadingInv`); every command of another client ends the claim (`Disturbs`).
  `ConfigCorrect` (`ConfigIsRecent`): however many clients configure at once, the setting of one that was alone is whole, and of several each mask and each polarity is one of theirs. `ConfigInv`: once one of those that overlap has
  set the mask it stays one of theirs, in the register and in every copy still to be written back (`MaskInv`), the polarity is the last writer's (`PolarityInv`), and one that is alone loses nothing (`SoleInv`).
* `CommandStreamProofs`. For streams and buffers of any length: `BoundsCorrect` (`InBounds`), `RestCorrect` (from `m` on the buffer holds what was received and not taken),
  and `Implements`: every step of the buffer is a step of `CommandLines` or a stutter. The heart is that a line end found in the buffer is the first one of the rest
  of the stream, and the other way round, which needs `HoldsRest` and that the byte before `m` is a line's "\n" or zero.
* `ScopeWorkerProofs`. `TypeCorrect`; `SignalsCorrect`, for any settings, requests and results of auto-set, from
  `CaptureInv`. That signals are scaled by the setting they were captured with does not follow from the worker's code alone:
  auto-set leaves the registers with a setting of its own (`fpga`), and `curr_params` may be newer. What saves it is an order kept by
  both threads: parameters are handed over before the control state is changed. So while the registers differ
  and nothing new is coming, the control state is one that acquires nothing (`LoopInv`, `UnsettledInv`, `AutoSetInv`), and a worker that
  acquires has brought the registers up to date (`UpdateInv`, `AcquiresInv`). One lemma for each thread in `rp_set_params`, for the user and for the loop.
  `PartsCorrect`, from `PartsInv`: the worker goes on only with the very acquisition it has armed (`Continues`); where the trigger or the parameters of a long acquisition were lost to auto-set, new parameters come before the worker acquires again. `SettledCorrect`, from `AgreeInv`: where the copies
  disagree, auto-set is asked for or a thread is on its way to hand over the main parameters.
* `StreamingProofs`, about `StreamLifecycle` and `FileQueue`. It extends both, which have no variable in common; that is why `FileQueue`'s specification is `FileSpec`, from `FileInit` and `FileNext`.
  * *Start and stop*, for any number of applications and requests. `LifecycleInvariant` has three parts. `StepsInv`, whatever overlaps: which steps a thread can be at (only the web thread
    builds and launches), that `s_app` is the newest application or null, and that every thread in an application is in one that was built; `TypeCorrect` needs it. `ReasonInv`, whatever
    overlaps: an application without a thread has no reason to ask for a stop, and the writer is started before the thread; `ReasonCorrect` (`StopHasReason`) follows. `AloneInv`: until two
    starts or stops overlap, all is `Orderly`: at most one thread is in `StartServer` or `StopServer`, it is in the application `s_app` points to, which is there until `Free`
    (`Inside`), and what runs, acquires or writes belongs to that application (`Running`). It is preserved by 23 kinds of steps, one lemma step each, among them the oscilloscope's thread, which goes on
    during a stop until it is joined. `DefinedCorrect` (`DefinedAlone`) is its first conjunct; `StopCorrect` (`StopStops`, an action property): a stopper returns by the message, when `s_app` is null and
    so nothing runs, or by the exception of the join, which when alone means that the start had failed.
  * *The recording*. `OrderCorrect` (`FileIsPrefix`) from `OrderInv`: as long as the file has no error, the file, the buffer in the writer's hands and the queue are together exactly
    what was accepted, whatever producer, writer and stopper do in between; and the stream never becomes good again. `HeaderCorrect` from `HeaderInv`: the first buffer that is
    brought is the first accepted if it is accepted at all, because the memory is not short before there is anything in it. `SizeCorrect` (`HeaderTellsSize`) from `SizeInv`: `m_firstSectionWrite` says
    whether the file has begun, so the first buffer, which has the header (`HeaderInv`, through `OrderInv`), brings its own size, and only later ones are added. `MemoryCorrect`: `m_useMemory` is the sum of the lengths of what is
    queued, so it is never negative (it is compared with an unsigned limit); `BoundCorrect`: the newest buffer alone can pass that limit, because between the look at it and the push the writer can only lower the account.
  * *Sums*. `DataSize` and `QueueSize` are recursive functions. That such a sum exists (`SumExists`), so that it obeys its equation, and how the sums of two sequences compare (`SumShifted`; `SumAppended` and `SumOfTail` for `Append` and
    `Tail`), is proved without induction: a set of numbers for which it failed would have a least one (`LeastNumber`, from `WFMin`).
  * *The two together*. `WriterAsSeen`: `FileWriter`, the state of the recording as `isFileThreadWork` tells it, does what `StreamLifecycle` assumes of its writer: it may go from working to failed (`WriterFails`), ends only when
    a stop was asked for, and has ended when that returns (`Halted`).
* `StreamNetProofs`. For any payload, buffers, clients and cuts of the stream, from `NetInv`. `StreamCorrect`: the FIFO holds the stream from the end of the last recorded pack on, so the first marker in it
  is at its beginning (`Received`), unless something was misread. `ReadsCorrect` (`MisreadsFirstOnly`): the code compares the size before it knows that it has come, and reads what an earlier pack left in the FIFO; once a connection has brought a header this is harmless, because the header of
  the last pack is still there and has the same size (`HeaderStays`); only before that can it be misread. `BufferCorrect`: what waits in the FIFO is less than a pack (`LessThanPack`), so it never overflows. `OrderCorrect`: over UDP the
  recorded numbers increase. `DeafCorrect`: a server over TCP that neither has a client nor waits for one had one of two mishaps.
* `AppServerProofs`. `TypeCorrect`; `CalledCorrect` from `ServerInv`: a server is only there between the load of its application and the join of its thread, and serves that application.

Some proved invariants are in no run's cfg (`TimedCountMatchesDuration`, `GatedCountMatchesDuration`, `PulsesFitWindow`, `StoresLastResult`, `HoldsRest`,
`HeaderComesFirst`, `MemoryIsQueued`, `MemoryBounded`, `NeverOverflows`, `DeafHasCause`, and the `TypeOK` of the proved components): the theorem says more than the run would, and the first four follow from the refinement in
`counter_orderly`.

Model-checked only: liveness (`MeasurementEnds`, `AccessEnds`, `CommandAnswered`, the fairness of `LinesAnswered`, `ParamsReachFpga`, `QuitEndsWorker`, `AcceptedIsWritten`, `StopWriteEnds`, both `StopEnds`, `FailureStops`,
`SentIsRecorded`, `AskIsAnswered`, `DataFlows`): fairness is out of the prover's reach. Every invariant and action property that a run checks is proved.

## 5. Divergences between code and documents

What was met while modelling. Each is a behaviour of the models. The properties are stated so that they hold of the code
as it is, with the exception named, so no run expects a violation.

*Counter*

* `red_pitaya_counter.sv:279`: the software trigger changes the state but opens no counters and sets no timer; the test bench (line 192) expects 100.
* `counter_sram.sv:45`: a write of software is dropped whenever the state machine writes on the same edge, whatever the addresses; its header (line 8) says: to the same address. `WritesLand` holds of the writes that no store meets.
* `red_pitaya_counter.sv:299`: a start executed while the edge counters are open restarts the timer but not the counters. It happens
  by itself after configuration: the acknowledge is still 0, so the first command acts on two edges. This is why the orderly specification exists.
* `red_pitaya_counter.sv:359`: a gated duration is one more than the edges counted.
* `red_pitaya_counter.sv:347`: the duration of the last result is overwritten as the next measurement opens, its counts as that ends.
* `red_pitaya_counter.sv:260`: a limit lowered between prestore and store lets one bin above it be written.
* `red_pitaya_counter.sv:474`, `:544`: the exceptions in `AnswersRight` and `WritesLand`: a read whose strobe meets the last edge of a
  countdown is answered with that memory's data; a memory write that finds a countdown running lands on the bin of the access before.

*Counter server*

* `api/src/counter.c:231`: COUNTER:COUNT? starts its first count at once; it does not wait for a running one, as `command.c:117` says ("This command waits for any running counting processes to end"). `CountIsFresh` claims only the counts that found the counter idle.
* `api/src/common.c:88`, `counter-server/src/counter.c:628`: of two clients that configure at once the setting of the field between mask and polarity may be lost to an older one, and mask and polarity may be of different clients (`ConfigIsRecent` claims the rest); two that both take single
  counts may get each other's.
* `counter-server/src/counter.c:677`: COUNTER:TRIG? answers for the gated mode. `counter.c:238`: COUNTER:DELAY? formats its answer
  and then replaces it by OK.
* `counter-server.c:173`: SIGTERM while a command is handled is seen after the client's next command.
* `counter-server.c`: a line without a command compares the null pointer; more than `MAX_ARGS` arguments overwrite the stack (`Crash`); the search for a line end looks one byte before the buffer.

*Scope*

* `apps-free/scope/src/worker.c:549`, `:282`: the worker reads the control state in one critical section and writes idle in another; a quit in between is lost.
* `worker.c:299`, `:298`: auto-set's result is handed back without a look at whether it was calculated.
* `worker.c:828`: auto-set takes the state anew as its reference before each acquisition, so a quit between two
  is no change to it; seen in time, it is overwritten by the `rp_set_params` of `rp_update_main_params`. The web server then waits for ever in the join.

*Streaming manager*

* `StreamingApplication.cpp:119`: after a start that failed (the port is in use; `runNonBlock` catches the exception) the application counts as running and has no thread:
  every later stop and start throws at the join and is caught. It cannot be stopped or started until the module is reloaded (`FailedStart`).
* `main.cpp:316`: two of StartServer and StopServer at a time use `s_app` without a lock: use after delete, two joins (`overlapped`). A stop that a failed file asked for may stop the application started after it,
  and tells the browser that the disk is full.
* A worker whose read waits when another thread has stopped the oscilloscope never ends.
* `FileLogger.cpp:105` reports "Lost data during transfer by network": it counts gaps, not packs; the first pack over UDP, number 0, is always dropped.
* `AsioNet.cpp:599`: a server over TCP neither has a client nor waits for one after a send that failed otherwise than by a closed connection, or when a client is accepted between `InitServer`
  and the clearing of the flags; a client in the backlog is reset. The two exceptions in `DeafHasCause` and `AskIsAnswered`.
* `AsioNet.cpp:377`: the size of a pack is compared before it has come. If the first receive of a connection is shorter than a header, that is memory that was never written: the client may take a pack that is not there, for ever if the size is 0; with fewer bytes than an ID
  the search runs beyond the buffer. After that it is harmless with packs of one size (`MisreadsFirstOnly`).
* `file_async_writer.cpp`: the sizes in a WAV header wrap; a recording that is longer has a header that tells too little.

*Web server*

* `rp_websocket_server.cpp:291`: a stop of the server starts a thread that ends the process one second later. Starting an application over a running one, and merely listing applications
  (`rp_bazaar_app.c:242`), stop it: "Returns the list of installed applications." (`rp_bazaar_cmd.c:40`) ends the web server's worker, and an application started in that second dies with it.
  nginx's master starts another worker, which has no application loaded.
* `rp_websocket_server.cpp:241`: closing any connection ends the process unless `m_OnClosed`, which the constructor that is used (:28) leaves uninitialised.
* `rp_data_cmd.c:353`: the body of a POST that comes after its application was unloaded calls the null pointer, or sets the parameters of another application
  than the one the answer names (`PostHead`, `PostBody`; the comment at :304: "calls the application specific POST operation"); `:321`: a value that is no number, in a POST, is scanned for ever.
* `rp_websocket_server.cpp:289`: `stop()` walks the connections while the thread may change them, and throws if the thread does not listen yet; both may end the process. So does `close()` of a connection that is closing: the catch at :309 is for another type. A port that cannot be bound (:73) and a message that
  is no JSON (:252) end it, too.
* `rp_websocket_server.cpp:144`, `:176`: sending to a connection that is closing throws. `run()` catches it (:80) and ends the loop: no client gets data any more, while process and application go on until the next request (`LoopFailed`, the exception in `DataFlows`).

## 6. Not modelled

Floating point (times to cycles, volts, measured values), wording of answers, bursts and error responses of AXI, the generator and
PID parameters, image and build scripts, vendored code (SCPI parser, asio, nginx itself). Of the modelled components:

* *Counter server*: the loops over the bins of a memory; settings that are written by one access.
* *Scope*: a copy of the parameters that is torn because window, time unit and delay are written back (`main.c:766`, `:783`, `:828`) while the worker's update copies under another mutex: a setting is copied whole here (the web thread hands its parameters over again after it has written them back).
  The error of `osc_fpga_update_params` (`worker.c:327`): no setting that has been clamped causes it.
* *File queue*: TDMS (its segments are a format), the query for free space (if the file cannot be opened the limits are uninitialised: zero or the usual ones here), the client's second stopper, which may join the same thread (undefined).
* *Lifecycle*: contents of the device's buffers, errors of the device, an exception in `passBuffers`, which ends the worker silently.
* *Net*: sends over TCP that are cut short (the send blocks until all is taken); the overlapping `memcpy` of the FIFO, which is assumed to move; the discovery of servers; the hello and bye of a client over UDP are
  in the model, and may be lost.
* *Web server*: GET requests, which change nothing that is modelled, loading of FPGA images, the HTTP handler of the websocket server, configuration files, failed loads that keep the application's name; the timers' pointers are used from two threads in `start()`, which is modelled one
  access at a time.

Not modelled at all: the SCPI server (the same accept and fork as the counter server; its parser is a library), `api` and `api2` (settings kept twice, mostly numeric conversion),
the FPGA's oscilloscope, generator, PID and logic analyser (signal processing), the other free applications (variants of the scope's worker, or numeric processing), shell scripts and web pages.
The repository is large and most of it is of these kinds, or vendored; the models cover the parts that wait for one another.

## 7. Plan

Done: `CounterFpga`, `CounterBus`, `CounterServer`, `ScopeWorker`, `CounterModes` with the refinement, `CommandStream`, `FileQueue`, `StreamLifecycle`, `StreamNet`, `AppServer`,
each with proofs of all that is safety.

Left, in this order:

1. Bins read and reset through `CounterBus` while `CounterFpga` stores (`api/src/counter.c:198`).
2. The oscilloscope of the FPGA: arming, trigger delay and the write pointer; then the acquisition settings of `api` on top of it.
3. The SCPI server.
