---------------------------- MODULE CommandStream ----------------------------
(****************************************************************************)
(* How the process of a client of the counter server cuts the byte stream   *)
(* into command lines: handleConnection, getNextCommand and parseCommand    *)
(* (counter-server/src/counter-server.c).  The handlers the lines are given *)
(* to, and the signals, are those of CounterServer.                         *)
(*                                                                          *)
(* Abstractions.  A byte is "r" or "n" of the delimiter, a separator "s" of *)
(* the tokens, or any other "c".  The client's stream is chosen in Init and *)
(* a shorter one stands for a client that disconnects early.  Memory that   *)
(* was not written holds "junk".                                            *)
(****************************************************************************)
EXTENDS Integers, Sequences, FiniteSets

CONSTANTS
    Streams,        \* what the client may send
    MAX_BUFF_SIZE,  \* the size of a receive, and the first size of the buffer
    MAX_ARGS

Bytes == {"c", "s", "r", "n"}
Cells == Bytes \cup {"0", "junk"}

ASSUME CommandStreamAssumption ==
    /\ Streams \subseteq Seq(Bytes)
    /\ MAX_BUFF_SIZE \in Nat \ {0} /\ MAX_ARGS \in Nat

VARIABLES
    pc,
    sent,           \* the client's stream
    received,       \* how many bytes of it recv has returned
    read_size,
    message_buff, message_len, msg_end,
    m,              \* the offset of m in message_buff
    answered        \* the lines that have been answered

buffer == <<message_buff, message_len>>
vars == <<pc, sent, received, read_size, buffer, msg_end, m, answered>>

Labels == {"recv", "copy", "scan", "closed", "crashed"}

Init ==
    /\ pc = "recv"
    /\ sent \in Streams
    /\ received = 0 /\ read_size = 0
    /\ message_len = MAX_BUFF_SIZE
    /\ message_buff = [i \in 0..MAX_BUFF_SIZE-1 |-> "junk"]
    /\ msg_end = 0 /\ m = 0
    /\ answered = <<>>

(* How much of the stream has not been looked at yet, or not completely.    *)
Pending == msg_end + (IF pc = "copy" THEN read_size ELSE 0)
Taken == received - Pending

----------------------------------------------------------------------------
(* getNextCommand: where the delimiter is completed.  A "\n" at m itself is *)
(* compared with the byte before m: the "\n" of the line before, or the     *)
(* last byte of the allocator's size field, which is zero.                  *)
Completes(i) ==
    /\ message_buff[m + i] = "n"
    /\ m + i > 0 /\ message_buff[m + i - 1] = "r"

(* Mutant of NextCommand: the last delimiter in the buffer.                 *)
LastCommand(pos) ==
    /\ pos \in 1..msg_end /\ Completes(pos - 1)
    /\ \A i \in pos..msg_end-1 : ~Completes(i)

NextCommand(pos) ==
    /\ pos \in 1..msg_end /\ Completes(pos - 1)
    /\ \A i \in 0..pos-2 : ~Completes(i)

CommandLine(pos) == [i \in 1..pos-2 |-> message_buff[m + i - 1]]

(* strtok: the command and its arguments.                                   *)
Tokens(line) == {i \in 1..Len(line) : line[i] # "s" /\ (i = 1 \/ line[i-1] = "s")}

(* parseCommand compares the command with the names it knows, without a     *)
(* look whether there is one, and stores the arguments in MAX_ARGS + 1      *)
(* places, without a look at their number.                                  *)
NoCommand(line) == Tokens(line) = {}
TooManyArgs(line) == Cardinality(Tokens(line)) - 1 > MAX_ARGS + 1

----------------------------------------------------------------------------

Receive ==
    /\ pc = "recv"
    /\ \E n \in 1..MAX_BUFF_SIZE :
          /\ received + n <= Len(sent)
          /\ read_size' = n /\ received' = received + n
    /\ pc' = "copy"
    /\ UNCHANGED <<sent, buffer, msg_end, m, answered>>

Disconnect ==
    /\ pc = "recv" /\ received = Len(sent)
    /\ pc' = "closed"
    /\ UNCHANGED <<sent, received, read_size, buffer, msg_end, m, answered>>

(* Mutant of Fits: what the buffer holds already is forgotten.              *)
FitsAlone == read_size < message_len

Fits == msg_end + read_size < message_len

Grow ==
    /\ pc = "copy" /\ ~Fits
    /\ message_len' = 2 * message_len
    /\ message_buff' = [i \in 0..2*message_len-1 |->
                            IF i < message_len THEN message_buff[i] ELSE "junk"]
    /\ UNCHANGED <<pc, sent, received, read_size, msg_end, m, answered>>

Copy ==
    /\ pc = "copy" /\ Fits
    /\ message_buff' = [i \in 0..message_len-1 |->
                            IF i \in msg_end..msg_end+read_size-1
                            THEN sent[received - read_size + i - msg_end + 1]
                            ELSE message_buff[i]]
    /\ msg_end' = msg_end + read_size
    /\ m' = 0
    /\ pc' = "scan"
    /\ UNCHANGED <<sent, received, read_size, message_len, answered>>

(* Mutant of AnswerLine: one line for each receive.                         *)
AnswerOneLine ==
    /\ pc = "scan"
    /\ \E pos \in 1..msg_end :
          /\ NextCommand(pos)
          /\ ~NoCommand(CommandLine(pos))
          /\ message_buff' = [i \in 0..message_len-1 |->
                IF i < msg_end - pos THEN message_buff[m + pos + i] ELSE message_buff[i]]
          /\ answered' = Append(answered, CommandLine(pos))
          /\ m' = 0 /\ msg_end' = msg_end - pos
    /\ pc' = "recv"
    /\ UNCHANGED <<sent, received, read_size, message_len>>

(* The line is ended where its delimiter begins, parsed and answered.       *)
AnswerLine ==
    /\ pc = "scan"
    /\ \E pos \in 1..msg_end :
          /\ NextCommand(pos)
          /\ ~NoCommand(CommandLine(pos))
          /\ message_buff' = [message_buff EXCEPT ![m + pos - 2] = "0"]
          /\ answered' = Append(answered, CommandLine(pos))
          /\ m' = m + pos /\ msg_end' = msg_end - pos
    /\ UNCHANGED <<pc, sent, received, read_size, message_len>>

(* strcmp is given a null pointer, or the stack is overwritten, of which    *)
(* the end of the process is one outcome.                                   *)
Crash ==
    /\ pc = "scan"
    /\ \E pos \in 1..msg_end :
          /\ NextCommand(pos)
          /\ NoCommand(CommandLine(pos)) \/ TooManyArgs(CommandLine(pos))
    /\ pc' = "crashed"
    /\ UNCHANGED <<sent, received, read_size, buffer, msg_end, m, answered>>

(* No command is left: memmove the rest to the beginning of the buffer.     *)
MoveRest ==
    /\ pc = "scan" /\ \A pos \in 1..msg_end : ~NextCommand(pos)
    /\ message_buff' = [i \in 0..message_len-1 |->
                            IF i < msg_end THEN message_buff[m + i] ELSE message_buff[i]]
    /\ pc' = "recv"
    /\ UNCHANGED <<sent, received, read_size, message_len, msg_end, m, answered>>

Processing == Grow \/ Copy \/ AnswerLine \/ Crash \/ MoveRest
Next == Receive \/ Disconnect \/ Processing

(* The process goes on with what it has received; the client may stop.      *)
Spec == Init /\ [][Next]_vars /\ WF_vars(Processing)

----------------------------------------------------------------------------
TypeOK ==
    /\ pc \in Labels
    /\ sent \in Streams
    /\ received \in 0..Len(sent) /\ read_size \in 0..MAX_BUFF_SIZE
    /\ message_len \in Nat /\ message_len >= MAX_BUFF_SIZE
    /\ message_buff \in [0..message_len-1 -> Cells]
    /\ msg_end \in Nat /\ m \in Nat
    /\ answered \in Seq(Seq(Bytes))

(* However the stream is cut, what is written into the buffer stays inside  *)
(* it, and what is looked at too but for the byte before it that Completes  *)
(* tells of (handleConnection's while over message_len).                    *)
InBounds ==
    /\ msg_end <= message_len
    /\ pc = "scan" => m + msg_end <= message_len

(* What the buffer holds from m on is what has been received and not taken, *)
(* so that a line cut by the network, even between \r and \n, is found when *)
(* its end comes (the memcpy behind msg_end, and the memmove).  Before m is *)
(* the end of a line, which getNextCommand may look at.                     *)
HoldsRest ==
    LET from == IF pc = "scan" THEN m ELSE 0
    IN  /\ Taken >= 0
        /\ pc \in {"recv", "copy", "scan"} =>
              \A i \in 0..msg_end-1 : message_buff[from + i] = sent[Taken + 1 + i]
        /\ pc = "scan" /\ m > 0 => message_buff[m - 1] = "n"

Lines == INSTANCE CommandLines WITH
            received <- SubSeq(sent, 1, received), taken <- Taken,
            alive <- (pc # "crashed"), Fatal <- NoCommand, Dangerous <- TooManyArgs

(* Every line is answered once and in order, up to one that the parser does *)
(* not survive (handleConnection's loop over getNextCommand)...             *)
LinesInOrder == Lines!Safety

(* ...and without waiting for the client to send more.                      *)
LinesAnswered == Lines!Spec

=============================================================================
