------------------------------ MODULE FileQueue ------------------------------
(****************************************************************************)
(* The recording of a stream into a file: the thread that brings buffers    *)
(* (CStreamingManager::passBuffers; the oscilloscope's thread in the server *)
(* and the network's in the client), the writer thread, and the thread that *)
(* stops it, which in the client does not stop the first one                *)
(* (FileQueueManager and Queue in file_async_writer.cpp, the sizes in the   *)
(* header by wavWriter.cpp).                                                *)
(*                                                                          *)
(* Abstractions.  A buffer is a number, its bytes of data and whether it    *)
(* begins with the WAV header.  A write that fails may leave a part of the  *)
(* buffer in the file.  StopWrite is only ever asked not to wait for what   *)
(* is queued, and a manager records once, so the queue is empty when        *)
(* StartWrite cleans it.  Names that StreamLifecycle has, too, begin with   *)
(* File here, so that StreamingProofs can extend both.                      *)
(****************************************************************************)
EXTENDS Integers, Sequences

CONSTANTS
    Sizes,          \* bytes of data in a buffer
    HeaderSize,     \* bytes of the WAV header
    Memory,         \* half of the physical memory
    FreeSize,       \* free space on the disk less what is left free
    SizeLimit,      \* the sizes in the header wrap here
    MaxBuffers      \* bound on the number of buffers

ASSUME FileQueueAssumption ==
    /\ Sizes \subseteq Nat \ {0}
    /\ HeaderSize \in Nat /\ Memory \in Nat \ {0} /\ FreeSize \in Nat
    /\ SizeLimit \in Nat \ {0} /\ MaxBuffers \in Nat

VARIABLES
    m_fileType, m_headerInit,
    fs,                     \* the stream: good, or failed
    m_freeSize, m_aviablePhyMemory,
    producer, brought,      \* the bringing thread: its step and its buffer
    m_queue, m_useMemory,
    task, item,             \* the writer thread: its step and its buffer
    m_ThreadRun, m_threadWork, m_hasErrorWrite, m_firstSectionWrite, m_hasWriteSize,
    stopper,
    header, file,           \* the size in the file's header, its whole buffers
    count, accepted         \* buffers brought; those that were queued (history)

opened == <<m_fileType, m_freeSize, m_aviablePhyMemory>>
production == <<producer, brought, m_headerInit, count, accepted>>
queue == <<m_queue, m_useMemory>>
writing == <<task, item, m_threadWork, m_hasErrorWrite, m_firstSectionWrite,
             m_hasWriteSize, fs, header, file>>
fileVars == <<opened, production, queue, writing, m_ThreadRun, stopper>>

NoBuffer == [number |-> 0, size |-> 0, header |-> FALSE]
Length(b) == b.size + (IF b.header THEN HeaderSize ELSE 0)

(* OpenFile and StartWrite.  If the file cannot be opened, the limits are   *)
(* left as they were in memory.                                             *)
FileInit ==
    /\ m_fileType \in {"WAV", "TDMS"} /\ m_headerInit = TRUE
    /\ fs \in {"good", "failed"}
    /\ IF fs = "good"
       THEN m_freeSize = FreeSize /\ m_aviablePhyMemory = Memory
       ELSE m_freeSize \in {0, FreeSize} /\ m_aviablePhyMemory \in {0, Memory}
    /\ producer = "ready" /\ brought = NoBuffer
    /\ m_queue = <<>> /\ m_useMemory = 0
    /\ task = "test" /\ item = NoBuffer
    /\ m_ThreadRun = TRUE /\ m_threadWork = TRUE
    /\ m_hasErrorWrite = FALSE /\ m_firstSectionWrite = FALSE /\ m_hasWriteSize = 0
    /\ stopper = "waits"
    /\ header = 0 /\ file = <<>>
    /\ count = 0 /\ accepted = <<>>

----------------------------------------------------------------------------

(* passBuffers.  The header is built into the first buffer, whatever        *)
(* becomes of it.                                                           *)
Bring ==
    /\ producer = "ready" /\ count < MaxBuffers
    /\ \E size \in Sizes :
          brought' = [number |-> count + 1, size |-> size,
                      header |-> m_fileType = "WAV" /\ m_headerInit]
    /\ m_headerInit' = (m_headerInit /\ m_fileType = "TDMS")
    /\ count' = count + 1
    /\ producer' = "add"
    /\ UNCHANGED <<accepted, opened, queue, writing, m_ThreadRun, stopper>>

HasRoom == m_threadWork /\ m_useMemory < m_aviablePhyMemory

(* AddBufferToWrite looks at the limit before the queue is locked.          *)
Accept ==
    /\ producer = "add" /\ HasRoom
    /\ producer' = "push"
    /\ UNCHANGED <<brought, m_headerInit, count, accepted, opened, queue, writing, m_ThreadRun, stopper>>

Refuse ==
    /\ producer = "add" /\ ~HasRoom
    /\ producer' = "ready"
    /\ UNCHANGED <<brought, m_headerInit, count, accepted, opened, queue, writing, m_ThreadRun, stopper>>

Push ==
    /\ producer = "push"
    /\ m_queue' = Append(m_queue, brought)
    /\ m_useMemory' = m_useMemory + Length(brought)
    /\ accepted' = Append(accepted, brought)
    /\ producer' = "ready"
    /\ UNCHANGED <<brought, m_headerInit, count, opened, writing, m_ThreadRun, stopper>>

----------------------------------------------------------------------------
(* The writer: Task, and WriteToFile from "pop" on.                         *)

TestRun ==
    /\ task = "test"
    /\ m_ThreadRun' = TRUE
    /\ task' = IF m_ThreadRun THEN "pop" ELSE "drain"
    /\ UNCHANGED <<opened, production, queue, item, m_threadWork, m_hasErrorWrite,
                   m_firstSectionWrite, m_hasWriteSize, fs, header, file, stopper>>

PopQueue ==
    /\ m_queue # <<>>
    /\ m_queue' = Tail(m_queue)
    /\ m_useMemory' = m_useMemory - Length(Head(m_queue))

(* After an error what is queued is thrown away.                            *)
Pop ==
    /\ task = "pop" /\ PopQueue
    /\ item' = Head(m_queue)
    /\ task' = IF m_hasErrorWrite THEN "test" ELSE "write"
    /\ UNCHANGED <<opened, production, m_threadWork, m_hasErrorWrite, m_firstSectionWrite,
                   m_hasWriteSize, fs, header, file, m_ThreadRun, stopper>>

(* Mutant of Empty: an empty queue ends the writer.                         *)
EmptyEnds ==
    /\ task = "pop" /\ m_queue = <<>>
    /\ task' = "drain"
    /\ UNCHANGED <<opened, production, queue, item, m_threadWork, m_hasErrorWrite,
                   m_firstSectionWrite, m_hasWriteSize, fs, header, file, m_ThreadRun, stopper>>

(* popQueue takes the front of an empty list, which C++ leaves undefined.   *)
(* The build's library, libstdc++, reads there the number of the list's     *)
(* elements: 0, and so the null pointer the code looks for.                 *)
Empty ==
    /\ task = "pop" /\ m_queue = <<>>
    /\ task' = "test"
    /\ UNCHANGED <<opened, production, queue, item, m_threadWork, m_hasErrorWrite,
                   m_firstSectionWrite, m_hasWriteSize, fs, header, file, m_ThreadRun, stopper>>

CanWrite == fs = "good" /\ m_hasWriteSize < m_freeSize

(* Mutant of Write: the first section is added to the header, too.          *)
WriteAll ==
    /\ task = "write" /\ CanWrite
    /\ m_hasWriteSize' = m_hasWriteSize + Length(item)
    /\ file' = Append(file, item)
    /\ header' = IF item.header THEN item.size % SizeLimit ELSE header
    /\ m_firstSectionWrite' = (m_firstSectionWrite \/ m_fileType = "WAV")
    /\ task' = IF m_fileType = "WAV" THEN "header" ELSE "test"
    /\ UNCHANGED <<opened, production, queue, item, m_threadWork, m_hasErrorWrite, fs,
                   m_ThreadRun, stopper>>

(* The buffer goes into the file as a whole; the header in the first one    *)
(* tells the size of its own data.                                          *)
Write ==
    /\ task = "write" /\ CanWrite
    /\ m_hasWriteSize' = m_hasWriteSize + Length(item)
    /\ file' = Append(file, item)
    /\ header' = IF item.header THEN item.size % SizeLimit ELSE header
    /\ m_firstSectionWrite' = (m_firstSectionWrite \/ m_fileType = "WAV")
    /\ task' = IF m_fileType = "WAV" /\ m_firstSectionWrite THEN "header" ELSE "test"
    /\ UNCHANGED <<opened, production, queue, item, m_threadWork, m_hasErrorWrite, fs,
                   m_ThreadRun, stopper>>

(* The system cannot write all of it; the header of a failed stream is not  *)
(* changed either.                                                          *)
WriteFails ==
    /\ task = "write" /\ CanWrite
    /\ m_hasWriteSize' = m_hasWriteSize + Length(item)
    /\ fs' = "failed"
    /\ m_firstSectionWrite' = (m_firstSectionWrite \/ m_fileType = "WAV")
    /\ task' = "test"
    /\ UNCHANGED <<opened, production, queue, item, m_threadWork, m_hasErrorWrite, header, file,
                   m_ThreadRun, stopper>>

UpdateWavFile ==
    /\ task = "header"
    /\ header' = (header + Length(item)) % SizeLimit
    /\ task' = "test"
    /\ UNCHANGED <<opened, production, queue, item, m_threadWork, m_hasErrorWrite,
                   m_firstSectionWrite, m_hasWriteSize, fs, file, m_ThreadRun, stopper>>

(* Mutant of WriteError: the stream is cleared and the buffer skipped.      *)
WriteSkips ==
    /\ task = "write" /\ ~CanWrite
    /\ fs' = "good"
    /\ task' = "test"
    /\ UNCHANGED <<opened, production, queue, item, m_threadWork, m_hasErrorWrite,
                   m_firstSectionWrite, m_hasWriteSize, header, file, m_ThreadRun, stopper>>

WriteError ==
    /\ task = "write" /\ ~CanWrite
    /\ m_hasErrorWrite' = TRUE
    /\ task' = "test"
    /\ UNCHANGED <<opened, production, queue, item, m_threadWork,
                   m_firstSectionWrite, m_hasWriteSize, fs, header, file, m_ThreadRun, stopper>>

Drain ==
    /\ task = "drain" /\ PopQueue
    /\ UNCHANGED <<opened, production, writing, m_ThreadRun, stopper>>

Ended ==
    /\ task = "drain" /\ m_queue = <<>>
    /\ m_threadWork' = FALSE
    /\ task' = "ended"
    /\ UNCHANGED <<opened, production, queue, item, m_hasErrorWrite, m_firstSectionWrite,
                   m_hasWriteSize, fs, header, file, m_ThreadRun, stopper>>

----------------------------------------------------------------------------
(* StopWrite: m_ThreadRun is cleared and the writer joined.                 *)

(* Mutant of StopWrite: the flag is left as it is.                               *)
StopOnlyWaits ==
    /\ stopper = "waits"
    /\ stopper' = "join"
    /\ UNCHANGED <<opened, production, queue, writing, m_ThreadRun>>

StopWrite ==
    /\ stopper = "waits"
    /\ m_ThreadRun' = FALSE
    /\ stopper' = "join"
    /\ UNCHANGED <<opened, production, queue, writing>>

JoinWriter ==
    /\ stopper = "join" /\ task = "ended"
    /\ stopper' = "stopped"
    /\ UNCHANGED <<opened, production, queue, writing, m_ThreadRun>>

Producer == Bring \/ Accept \/ Refuse \/ Push
Writer == TestRun \/ Pop \/ Empty \/ Write \/ WriteFails \/ UpdateWavFile \/ WriteError \/ Drain \/ Ended
Stopper == StopWrite \/ JoinWriter
FileNext == Producer \/ Writer \/ Stopper

(* The writer and a stop that was begun go on; nobody has to bring buffers, *)
(* or to stop.                                                              *)
FileSpec == FileInit /\ [][FileNext]_fileVars /\ WF_fileVars(Writer) /\ WF_fileVars(JoinWriter)

----------------------------------------------------------------------------
Buffers == [number : Nat, size : Nat, header : BOOLEAN]
WriterSteps == {"test", "pop", "write", "header", "drain", "ended"}

FileTypeOK ==
    /\ m_fileType \in {"WAV", "TDMS"} /\ m_headerInit \in BOOLEAN
    /\ fs \in {"good", "failed"} /\ m_freeSize \in Nat /\ m_aviablePhyMemory \in Nat
    /\ producer \in {"ready", "add", "push"} /\ brought \in Buffers
    /\ m_queue \in Seq(Buffers) /\ m_useMemory \in Int
    /\ task \in WriterSteps /\ item \in Buffers
    /\ m_ThreadRun \in BOOLEAN /\ m_threadWork \in BOOLEAN /\ m_hasErrorWrite \in BOOLEAN
    /\ m_firstSectionWrite \in BOOLEAN /\ m_hasWriteSize \in Nat
    /\ stopper \in {"waits", "join", "stopped"}
    /\ header \in 0..SizeLimit-1 /\ file \in Seq(Buffers)
    /\ count \in 0..MaxBuffers /\ accepted \in Seq(Buffers)

(* The file is a beginning of what was accepted: no gap, nothing twice or   *)
(* out of order, and nothing after an error (popQueue, WriteToFile).        *)
FileIsPrefix ==
    /\ Len(file) <= Len(accepted)
    /\ \A i \in 1..Len(file) : file[i] = accepted[i]

(* The first buffer of a WAV file, and only it, has the header, although it *)
(* is built before it is known whether the buffer is accepted               *)
(* (BuildWAVStream, AddBufferToWrite).                                      *)
HeaderComesFirst ==
    \A i \in 1..Len(file) : file[i].header <=> m_fileType = "WAV" /\ i = 1

DataSize[n \in Nat] == IF n = 0 THEN 0 ELSE DataSize[n-1] + file[n].size

(* Whenever the writer is through with a buffer the header tells the size   *)
(* of the data, and it is never ahead of them if the program is killed, as  *)
(* long as the size fits the header (BuildHeader, updateWavFile).           *)
HeaderTellsSize ==
    m_fileType = "WAV" /\ DataSize[Len(file)] < SizeLimit =>
        header = DataSize[Len(file)] - (IF task = "header" THEN item.size ELSE 0)

QueueSize[n \in Nat] == IF n = 0 THEN 0 ELSE QueueSize[n-1] + Length(m_queue[n])

(* What is accounted is what is queued, and never negative, which the       *)
(* unsigned limit would be taken to be below (pushQueue, popQueue).         *)
MemoryIsQueued == m_useMemory = QueueSize[Len(m_queue)]

(* The limit on the memory is passed by the newest buffer only, although it *)
(* is looked at before the queue is locked (AddBufferToWrite).              *)
MemoryBounded ==
    m_queue # <<>> => m_useMemory < m_aviablePhyMemory + Length(m_queue[Len(m_queue)])

(* What was accepted comes into the file, unless there is an error or a     *)
(* stop.                                                                    *)
AcceptedIsWritten ==
    \A n \in 1..MaxBuffers :
        Len(accepted) >= n ~> (Len(file) >= n \/ fs = "failed" \/ m_hasErrorWrite \/ stopper # "waits")

(* A stop comes to its end, as long as what is brought meanwhile does: the  *)
(* writer throws it away until the queue is empty (StopWrite, Task).        *)
StopWriteEnds == stopper = "join" ~> stopper = "stopped"

=============================================================================
