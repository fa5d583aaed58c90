------------------------- MODULE CommandStreamProofs -------------------------
(****************************************************************************)
(* Proofs about CommandStream, for every set of streams and every size of   *)
(* the receive buffer.                                                      *)
(****************************************************************************)
EXTENDS CommandStream, TLAPS

(* The invariant is inductive as a whole: that only the client's bytes are  *)
(* answered follows from what the buffer holds.                             *)
IInv == TypeOK /\ InBounds /\ HoldsRest

Numbers ==
    /\ received \in Nat /\ received <= Len(sent) /\ Len(sent) \in Nat
    /\ read_size \in Nat /\ msg_end \in Nat /\ m \in Nat
    /\ message_len \in Nat
    /\ Taken \in Nat /\ Pending \in Nat
    /\ msg_end <= message_len
    /\ pc = "scan" => m + msg_end <= message_len

LEMMA InvNumbers == IInv => Numbers
  <1> SUFFICES ASSUME IInv PROVE Numbers OBVIOUS
  <1>1. sent \in Seq(Bytes) BY CommandStreamAssumption DEF IInv, TypeOK
  <1>2. Pending \in Nat BY CommandStreamAssumption DEF IInv, TypeOK, Pending
  <1> QED BY <1>1, <1>2, CommandStreamAssumption
          DEF IInv, TypeOK, InBounds, HoldsRest, Taken, Numbers

LEMMA TypeFacts ==
    ASSUME IInv
    PROVE  /\ pc \in Labels /\ sent \in Streams /\ sent \in Seq(Bytes)
           /\ message_buff \in [0..message_len-1 -> Cells]
           /\ answered \in Seq(Seq(Bytes))
BY CommandStreamAssumption DEF IInv, TypeOK

(* HoldsRest by the cell of the buffer.                                     *)
LEMMA RestAt ==
    ASSUME IInv, pc = "scan"
    PROVE  /\ Taken = received - msg_end
           /\ \A j \in m..m+msg_end-1 : message_buff[j] = sent[Taken + 1 + (j - m)]
  <1> Numbers BY InvNumbers
  <1> USE DEF Numbers
  <1>1. Taken = received - msg_end BY DEF Pending, Taken
  <1>2. SUFFICES ASSUME NEW j \in m..m+msg_end-1
                 PROVE  message_buff[j] = sent[Taken + 1 + (j - m)]
    BY <1>1
  <1>3. j - m \in 0..msg_end-1 /\ m + (j - m) = j OBVIOUS
  <1>4. message_buff[m + (j - m)] = sent[Taken + 1 + (j - m)] BY <1>3 DEF IInv, HoldsRest
  <1> QED BY <1>3, <1>4

(* What the parser is given is a line of the client's.                      *)
LEMMA LineIsSent ==
    ASSUME IInv, pc = "scan", NEW pos \in 1..msg_end, NextCommand(pos)
    PROVE  /\ CommandLine(pos) \in Seq(Bytes) /\ Len(CommandLine(pos)) = pos - 2
           /\ pos >= 2
           /\ sent[Taken + pos] = "n" /\ sent[Taken + pos - 1] = "r"
           /\ \A i \in 1..pos-2 : CommandLine(pos)[i] = sent[Taken + i]
  <1> Numbers BY InvNumbers
  <1> USE DEF Numbers
  <1>1. /\ message_buff[m + (pos - 1)] = "n"
        /\ m + (pos - 1) > 0 /\ message_buff[m + (pos - 1) - 1] = "r"
    BY DEF NextCommand, Completes
  <1>2. pos # 1
    <2>1. m > 0 => message_buff[m - 1] = "n" BY DEF IInv, HoldsRest
    <2>2. pos = 1 => m + (pos - 1) - 1 = m - 1 /\ m > 0 BY <1>1
    <2> QED BY <1>1, <2>1, <2>2
  <1>3. sent[Taken + pos] = "n"
    <2>1. m + (pos - 1) \in m..m+msg_end-1 /\ Taken + 1 + (m + (pos - 1) - m) = Taken + pos
      OBVIOUS
    <2>2. message_buff[m + (pos - 1)] = sent[Taken + 1 + (m + (pos - 1) - m)] BY <2>1, RestAt
    <2> QED BY <1>1, <2>1, <2>2
  <1>4. sent[Taken + pos - 1] = "r"
    <2>1. /\ m + (pos - 1) - 1 \in m..m+msg_end-1
          /\ Taken + 1 + (m + (pos - 1) - 1 - m) = Taken + pos - 1
      BY <1>2
    <2>2. message_buff[m + (pos - 1) - 1] = sent[Taken + 1 + (m + (pos - 1) - 1 - m)]
      BY <2>1, RestAt
    <2> QED BY <1>1, <2>1, <2>2
  <1>5. \A i \in 1..pos-2 : message_buff[m + i - 1] = sent[Taken + i] /\ sent[Taken + i] \in Bytes
    <2> TAKE i \in 1..pos-2
    <2>1. m + i - 1 \in m..m+msg_end-1 /\ Taken + 1 + (m + i - 1 - m) = Taken + i OBVIOUS
    <2>2. message_buff[m + i - 1] = sent[Taken + 1 + (m + i - 1 - m)] BY <2>1, RestAt
    <2>3. Taken = received - msg_end BY RestAt
    <2>4. Taken + i \in 1..Len(sent) BY <2>3
    <2>5. sent[Taken + i] \in Bytes BY <2>4, TypeFacts
    <2> QED BY <2>1, <2>2, <2>5
  <1>6. CommandLine(pos) \in Seq(Bytes) /\ Len(CommandLine(pos)) = pos - 2
    <2>1. CommandLine(pos) \in [1..pos-2 -> Bytes] BY <1>5 DEF CommandLine
    <2>2. pos - 2 \in Nat BY <1>2
    <2> HIDE DEF Numbers
    <2> QED BY <2>1, <2>2
  <1>7. \A i \in 1..pos-2 : CommandLine(pos)[i] = sent[Taken + i] BY <1>5 DEF CommandLine
  <1> QED BY <1>2, <1>3, <1>4, <1>6, <1>7

LEMMA InitInv == Init => IInv
  <1> SUFFICES ASSUME Init PROVE IInv OBVIOUS
  <1> USE CommandStreamAssumption DEF Init
  <1>1. TypeOK BY DEF TypeOK, Labels, Cells
  <1>2. InBounds BY DEF InBounds
  <1>3. HoldsRest BY DEF HoldsRest, Taken, Pending
  <1> QED BY <1>1, <1>2, <1>3 DEF IInv

LEMMA ReceiveInv == IInv /\ Receive => IInv'
  <1> SUFFICES ASSUME IInv, Receive PROVE IInv' OBVIOUS
  <1> Numbers BY InvNumbers
  <1> USE DEF Numbers
  <1> PICK n \in 1..MAX_BUFF_SIZE : /\ received + n <= Len(sent)
                                    /\ read_size' = n /\ received' = received + n
    BY DEF Receive
  <1>1. n \in Nat BY CommandStreamAssumption
  <1>2. Pending' = msg_end + n /\ Pending = msg_end BY DEF Receive, Pending
  <1>3. Taken' = Taken BY <1>1, <1>2 DEF Taken
  <1>4. TypeOK' BY <1>1 DEF Receive, IInv, TypeOK, Labels, buffer
  <1>5. InBounds' BY DEF Receive, IInv, InBounds, buffer
  <1>6. HoldsRest' BY <1>3 DEF Receive, IInv, HoldsRest, buffer
  <1> QED BY <1>4, <1>5, <1>6 DEF IInv

LEMMA DisconnectInv == IInv /\ (Disconnect \/ Crash) => IInv'
  <1> SUFFICES ASSUME IInv, Disconnect \/ Crash PROVE IInv' OBVIOUS
  <1> Numbers BY InvNumbers
  <1> USE DEF Numbers, Disconnect, Crash
  <1>1. Pending' = Pending /\ Taken' = Taken BY DEF Pending, Taken
  <1>2. TypeOK' BY DEF IInv, TypeOK, Labels, buffer
  <1>3. InBounds' BY DEF IInv, InBounds, buffer
  <1>4. HoldsRest' BY <1>1 DEF IInv, HoldsRest, buffer
  <1> QED BY <1>2, <1>3, <1>4 DEF IInv

LEMMA GrowInv == IInv /\ Grow => IInv'
  <1> SUFFICES ASSUME IInv, Grow PROVE IInv' OBVIOUS
  <1> Numbers BY InvNumbers
  <1> USE DEF Numbers, Grow
  <1>1. Pending' = Pending /\ Taken' = Taken BY DEF Pending, Taken
  <1>2. message_buff' \in [0..message_len'-1 -> Cells] BY TypeFacts DEF Cells
  <1>3. TypeOK' BY <1>2, CommandStreamAssumption DEF IInv, TypeOK
  <1>4. InBounds' BY DEF IInv, InBounds
  <1>5. \A i \in 0..msg_end-1 : message_buff'[i] = message_buff[i] OBVIOUS
  <1>6. HoldsRest' BY <1>1, <1>5 DEF IInv, HoldsRest
  <1> QED BY <1>3, <1>4, <1>6 DEF IInv

LEMMA CopyInv == IInv /\ Copy => IInv'
  <1> SUFFICES ASSUME IInv, Copy PROVE IInv' OBVIOUS
  <1> Numbers BY InvNumbers
  <1> USE DEF Numbers, Copy, Fits
  <1>1. Taken = received - msg_end - read_size /\ Taken' = Taken BY DEF Pending, Taken
  <1>2. \A i \in 0..message_len-1 : i \in msg_end..msg_end+read_size-1 =>
            sent[received - read_size + i - msg_end + 1] \in Bytes
    <2> SUFFICES ASSUME NEW i \in msg_end..msg_end+read_size-1
                 PROVE  sent[received - read_size + i - msg_end + 1] \in Bytes
      OBVIOUS
    <2>1. received - msg_end - read_size \in Nat BY <1>1
    <2>2. i \in Int /\ i >= msg_end /\ i < msg_end + read_size OBVIOUS
    <2>3. received - read_size + i - msg_end + 1 \in 1..Len(sent)
      <3> HIDE DEF Copy, Fits
      <3> QED BY <2>1, <2>2
    <2> QED BY <2>3, TypeFacts
  <1>3. message_buff' \in [0..message_len-1 -> Cells] BY <1>2, TypeFacts DEF Cells
  <1>4. TypeOK'
    <2>1. msg_end' \in Nat /\ m' \in Nat /\ pc' \in Labels BY DEF Labels
    <2> QED BY <1>3, <2>1 DEF IInv, TypeOK
  <1>5. InBounds' BY DEF InBounds
  <1>6. \A i \in 0..msg_end'-1 : message_buff'[i] = sent[Taken + 1 + i]
    <2> TAKE i \in 0..msg_end'-1
    <2>1. CASE i < msg_end
      <3>1. message_buff[0 + i] = sent[Taken + 1 + i] BY <2>1 DEF IInv, HoldsRest
      <3> QED BY <2>1, <3>1
    <2>2. CASE i >= msg_end
      <3>1. message_buff'[i] = sent[received - read_size + i - msg_end + 1]
        <4>1. msg_end' = msg_end + read_size /\ msg_end + read_size <= message_len OBVIOUS
        <4>2. i \in 0..message_len-1 /\ i \in msg_end..msg_end+read_size-1
          <5> HIDE DEF Copy, Fits
          <5> QED BY <2>2, <4>1
        <4> QED BY <4>2
      <3>2. received - read_size + i - msg_end + 1 = Taken + 1 + i
        <4> HIDE DEF Copy, Fits
        <4> QED BY <1>1
      <3> QED BY <3>1, <3>2
    <2> QED BY <2>1, <2>2
  <1>7. HoldsRest'
    <2>1. m' = 0 /\ pc' = "scan" /\ sent' = sent OBVIOUS
    <2>2. \A i \in 0..msg_end'-1 : 0 + i = i OBVIOUS
    <2> HIDE DEF Copy
    <2> QED BY <1>1, <1>6, <2>1, <2>2 DEF HoldsRest
  <1> QED BY <1>4, <1>5, <1>7 DEF IInv

LEMMA AnswerLineInv == IInv /\ AnswerLine => IInv'
  <1> SUFFICES ASSUME IInv, AnswerLine PROVE IInv' OBVIOUS
  <1> Numbers BY InvNumbers
  <1> USE DEF Numbers
  <1> PICK pos \in 1..msg_end :
          /\ NextCommand(pos)
          /\ message_buff' = [message_buff EXCEPT ![m + pos - 2] = "0"]
          /\ answered' = Append(answered, CommandLine(pos))
          /\ m' = m + pos /\ msg_end' = msg_end - pos
    BY DEF AnswerLine
  <1>0. pc = "scan" /\ UNCHANGED <<pc, sent, received, read_size, message_len>> BY DEF AnswerLine
  <1>1. /\ Taken = received - msg_end /\ pos >= 2 /\ CommandLine(pos) \in Seq(Bytes)
    BY <1>0, LineIsSent, RestAt
  <1>2. Taken' = Taken + pos BY <1>0, <1>1 DEF Pending, Taken
  <1>3. message_buff' \in [0..message_len-1 -> Cells] BY TypeFacts DEF Cells
  <1>4. answered' \in Seq(Seq(Bytes)) BY <1>1, TypeFacts
  <1>5. TypeOK' BY <1>0, <1>3, <1>4 DEF IInv, TypeOK
  <1>6. InBounds' BY <1>0 DEF InBounds
  <1>7. \A i \in 0..msg_end'-1 : message_buff'[m' + i] = sent[Taken' + 1 + i]
    <2> TAKE i \in 0..msg_end'-1
    <2>0. i \in Nat /\ i < msg_end - pos OBVIOUS
    <2>1. m + pos + i \in Nat /\ pos + i < msg_end BY <2>0
    <2>2. /\ m' + i \in m..m+msg_end-1 /\ m' + i \in 0..message_len-1
          /\ Taken + 1 + (m' + i - m) = Taken' + 1 + i /\ m' + i # m + pos - 2
      BY <1>0, <1>2, <2>0
    <2>3. message_buff[m' + i] = sent[Taken + 1 + (m' + i - m)] BY <1>0, <2>2, RestAt
    <2>4. message_buff'[m' + i] = message_buff[m' + i] BY <2>2
    <2> QED BY <2>2, <2>3, <2>4
  <1>8. m' > 0 /\ message_buff'[m' - 1] = "n"
    <2>1. message_buff[m + (pos - 1)] = "n" BY DEF NextCommand, Completes
    <2>2. /\ m' - 1 = m + (pos - 1) /\ m' - 1 \in 0..message_len-1
          /\ m' - 1 # m + pos - 2 /\ m' > 0
      BY <1>0
    <2>3. message_buff'[m' - 1] = message_buff[m' - 1] BY <2>2
    <2> QED BY <2>1, <2>2, <2>3
  <1>9. HoldsRest' BY <1>0, <1>2, <1>7, <1>8 DEF HoldsRest
  <1> QED BY <1>5, <1>6, <1>9 DEF IInv

LEMMA MoveRestInv == IInv /\ MoveRest => IInv'
  <1> SUFFICES ASSUME IInv, MoveRest PROVE IInv' OBVIOUS
  <1> Numbers BY InvNumbers
  <1> USE DEF Numbers, MoveRest
  <1>1. Taken' = Taken BY DEF Pending, Taken
  <1>2. message_buff' \in [0..message_len-1 -> Cells] BY TypeFacts
  <1>3. TypeOK' BY <1>2 DEF IInv, TypeOK, Labels
  <1>4. InBounds' BY DEF InBounds
  <1>5. \A i \in 0..msg_end-1 : message_buff'[i] = sent[Taken + 1 + i]
    BY DEF IInv, HoldsRest
  <1>6. HoldsRest'
    <2>1. pc' = "recv" /\ sent' = sent /\ msg_end' = msg_end OBVIOUS
    <2>2. \A i \in 0..msg_end-1 : 0 + i = i OBVIOUS
    <2> HIDE DEF MoveRest
    <2> QED BY <1>1, <1>5, <2>1, <2>2 DEF HoldsRest
  <1> QED BY <1>3, <1>4, <1>6 DEF IInv

LEMMA StepInv == IInv /\ [Next]_vars => IInv'
  <1>1. IInv /\ UNCHANGED vars => IInv'
    BY DEF IInv, TypeOK, InBounds, HoldsRest, Taken, Pending, vars, buffer
  <1> QED BY <1>1, ReceiveInv, DisconnectInv, GrowInv, CopyInv, AnswerLineInv, MoveRestInv
          DEF Next, Processing

THEOREM Invariance == Spec => []IInv
BY InitInv, StepInv, PTL DEF Spec

(* The process's state has its types, whatever the client sends; only the   *)
(* client's bytes are answered (handleConnection).                          *)
THEOREM TypeCorrect == Spec => []TypeOK
BY Invariance, PTL DEF IInv

(* Nothing is written behind the buffer, or looked for there: the buffer is *)
(* doubled until the receive fits (handleConnection).                       *)
THEOREM BoundsCorrect == Spec => []InBounds
BY Invariance, PTL DEF IInv

(* From m on the buffer holds what has been received and not answered.      *)
THEOREM RestCorrect == Spec => []HoldsRest
BY Invariance, PTL DEF IInv

----------------------------------------------------------------------------
(* The process implements CommandLines.                                     *)

Got == SubSeq(sent, 1, received)

LEMMA GotFacts ==
    ASSUME IInv
    PROVE  /\ Got \in Seq(Bytes) /\ Len(Got) = received
           /\ \A i \in 1..received : Got[i] = sent[i]
BY InvNumbers, TypeFacts DEF Got, Numbers

(* The line parsed is the first one that is complete in the stream.         *)
LEMMA FirstLine ==
    ASSUME IInv, pc = "scan", NEW pos \in 1..msg_end, NextCommand(pos)
    PROVE  Lines!IsFirst(Taken + pos) /\ Lines!LineTo(Taken + pos) = CommandLine(pos)
  <1> Numbers BY InvNumbers
  <1> USE DEF Numbers
  <1>1. /\ CommandLine(pos) \in Seq(Bytes) /\ Len(CommandLine(pos)) = pos - 2
        /\ pos >= 2
        /\ sent[Taken + pos] = "n" /\ sent[Taken + pos - 1] = "r"
        /\ \A i \in 1..pos-2 : CommandLine(pos)[i] = sent[Taken + i]
        /\ Taken = received - msg_end
    BY LineIsSent, RestAt
  <1>2. Len(Got) = received /\ \A i \in 1..received : Got[i] = sent[i] BY GotFacts
  <1>3. Taken + pos \in Taken + 2 .. Len(Got) BY <1>1, <1>2
  <1>4. Taken + pos \in Lines!LineEnds
    <2>1. Taken + pos \in 1..received /\ Taken + pos - 1 \in 1..received BY <1>1, <1>3
    <2>2. Got[Taken + pos - 1] = "r" /\ Got[Taken + pos] = "n" BY <1>1, <1>2, <2>1
    <2> QED BY <1>3, <2>2 DEF Got, Lines!LineEnds
  <1>5. ASSUME NEW f \in Lines!LineEnds, f < Taken + pos PROVE FALSE
    <2>1. f \in Taken + 2 .. received /\ Got[f - 1] = "r" /\ Got[f] = "n"
      BY <1>2, <1>5 DEF Got, Lines!LineEnds
    <2>2. f - Taken - 1 \in 0..pos-2 BY <1>5, <2>1
    <2>3. /\ m + (f - Taken - 1) \in m..m+msg_end-1
          /\ Taken + 1 + (m + (f - Taken - 1) - m) = f
      BY <2>1, <2>2
    <2>4. message_buff[m + (f - Taken - 1)] = "n"
      <3>1. f \in 1..received BY <2>1
      <3> QED BY <1>2, <2>1, <2>3, <3>1, RestAt
    <2>5. /\ m + (f - Taken - 1) - 1 \in m..m+msg_end-1
          /\ Taken + 1 + (m + (f - Taken - 1) - 1 - m) = f - 1
          /\ m + (f - Taken - 1) > 0
      BY <2>1, <2>2
    <2>6. message_buff[m + (f - Taken - 1) - 1] = "r"
      <3>1. f - 1 \in 1..received BY <2>1
      <3> QED BY <1>2, <2>1, <2>5, <3>1, RestAt
    <2>7. Completes(f - Taken - 1) BY <2>4, <2>5, <2>6 DEF Completes
    <2> QED BY <2>2, <2>7 DEF NextCommand
  <1>6. Lines!IsFirst(Taken + pos)
    <2>1. \A f \in Lines!LineEnds : f \in Int BY <1>2 DEF Lines!LineEnds
    <2> QED BY <1>4, <1>5, <2>1 DEF Lines!IsFirst
  <1>7. Lines!LineTo(Taken + pos) = CommandLine(pos)
    <2> DEFINE line == SubSeq(Got, Taken + 1, (Taken + pos) - 2)
    <2>1. /\ line \in Seq(Bytes) /\ Len(line) = pos - 2
          /\ \A i \in 1..pos-2 : line[i] = Got[Taken + i]
      BY <1>1, GotFacts
    <2>2. \A i \in 1..pos-2 : line[i] = CommandLine(pos)[i]
      <3> TAKE i \in 1..pos-2
      <3>1. Taken + i \in 1..received BY <1>1
      <3> HIDE DEF line
      <3> QED BY <1>1, <1>2, <2>1, <3>1
    <2>3. line = CommandLine(pos)
      <3> HIDE DEF line
      <3> QED BY <1>1, <2>1, <2>2
    <2>4. Lines!LineTo(Taken + pos) = line BY DEF Lines!LineTo, Got
    <2> HIDE DEF line
    <2> QED BY <2>3, <2>4
  <1> QED BY <1>6, <1>7

LEMMA ReceiveRefines == IInv /\ Receive => Lines!Receive
  <1> SUFFICES ASSUME IInv, Receive PROVE Lines!Receive OBVIOUS
  <1> Numbers BY InvNumbers
  <1> PICK n \in 1..MAX_BUFF_SIZE : /\ received + n <= Len(sent)
                                    /\ read_size' = n /\ received' = received + n
    BY DEF Receive
  <1> USE DEF Numbers
  <1>1. n \in Nat BY CommandStreamAssumption
  <1>2. Taken' = Taken BY <1>1 DEF Receive, Pending, Taken
  <1>3. sent' = sent /\ answered' = answered /\ pc # "crashed" /\ pc' # "crashed" BY DEF Receive
  <1>4. /\ Got' \in Seq(Bytes) /\ Len(Got') = received + n
        /\ \A i \in 1..received + n : Got'[i] = sent[i]
    BY <1>1, <1>3, TypeFacts DEF Got
  <1>5. Got = SubSeq(Got', 1, Len(Got))
    <2> DEFINE front == SubSeq(Got', 1, received)
    <2>1. /\ front \in Seq(Bytes) /\ Len(front) = received
          /\ \A i \in 1..received : front[i] = Got'[i]
      BY <1>1, <1>4
    <2> HIDE DEF front
    <2>2. \A i \in 1..received : front[i] = Got[i] BY <1>1, <1>4, <2>1, GotFacts
    <2>3. front = Got BY <2>1, <2>2, GotFacts
    <2> QED BY <2>3, GotFacts DEF front
  <1> QED BY <1>1, <1>2, <1>3, <1>4, <1>5, GotFacts DEF Lines!Receive, Got

LEMMA AnswerRefines == IInv /\ AnswerLine => Lines!Answer
  <1> SUFFICES ASSUME IInv, AnswerLine PROVE Lines!Answer OBVIOUS
  <1> PICK pos \in 1..msg_end :
          /\ NextCommand(pos) /\ ~NoCommand(CommandLine(pos))
          /\ answered' = Append(answered, CommandLine(pos))
          /\ msg_end' = msg_end - pos
    BY DEF AnswerLine
  <1>1. pc = "scan" /\ UNCHANGED <<pc, sent, received>> BY DEF AnswerLine
  <1>2. Lines!IsFirst(Taken + pos) /\ Lines!LineTo(Taken + pos) = CommandLine(pos)
    BY <1>1, FirstLine
  <1>3. Taken' = Taken + pos
    BY <1>1, InvNumbers DEF Numbers, Pending, Taken
  <1>4. Taken + pos \in Lines!LineEnds BY <1>2 DEF Lines!IsFirst
  <1> QED BY <1>1, <1>2, <1>3, <1>4 DEF Lines!Answer

LEMMA CrashRefines == IInv /\ Crash => Lines!Die
  <1> SUFFICES ASSUME IInv, Crash PROVE Lines!Die OBVIOUS
  <1> PICK pos \in 1..msg_end :
          NextCommand(pos) /\ (NoCommand(CommandLine(pos)) \/ TooManyArgs(CommandLine(pos)))
    BY DEF Crash
  <1>1. /\ pc = "scan" /\ pc' = "crashed"
        /\ UNCHANGED <<sent, received, read_size, msg_end, answered>>
    BY DEF Crash
  <1>2. Lines!IsFirst(Taken + pos) /\ Lines!LineTo(Taken + pos) = CommandLine(pos)
    BY <1>1, FirstLine
  <1>3. Taken' = Taken BY <1>1 DEF Pending, Taken
  <1>4. Taken + pos \in Lines!LineEnds BY <1>2 DEF Lines!IsFirst
  <1> QED BY <1>1, <1>2, <1>3, <1>4 DEF Lines!Die

LEMMA StepRefines == IInv /\ [Next]_vars => [Lines!Next]_(Lines!vars)
  <1> SUFFICES ASSUME IInv, [Next]_vars PROVE [Lines!Next]_(Lines!vars) OBVIOUS
  <1>1. CASE Receive BY <1>1, ReceiveRefines DEF Lines!Next
  <1>2. CASE AnswerLine BY <1>2, AnswerRefines DEF Lines!Next
  <1>3. CASE Crash BY <1>3, CrashRefines DEF Lines!Next
  <1>4. CASE Disconnect BY <1>4 DEF Disconnect, Lines!vars, Pending, Taken
  <1>5. CASE Grow BY <1>5 DEF Grow, Lines!vars, Pending, Taken
  <1>6. CASE Copy BY <1>6, InvNumbers DEF Numbers, Copy, Lines!vars, Pending, Taken
  <1>7. CASE MoveRest BY <1>7 DEF MoveRest, Lines!vars, Pending, Taken
  <1>8. CASE UNCHANGED vars BY <1>8 DEF vars, Lines!vars, Pending, Taken
  <1> QED BY <1>1, <1>2, <1>3, <1>4, <1>5, <1>6, <1>7, <1>8 DEF Next, Processing

LEMMA InitRefines == Init => Lines!Init
  <1> SUFFICES ASSUME Init PROVE Lines!Init OBVIOUS
  <1>1. Taken = 0 BY DEF Init, Pending, Taken
  <1>2. SubSeq(sent, 1, received) = <<>> BY CommandStreamAssumption DEF Init
  <1> QED BY <1>1, <1>2 DEF Init, Lines!Init

(* Lines are answered once each and in the order sent, and what is answered *)
(* is what was sent: the process implements CommandLines without its        *)
(* fairness (handleConnection, getNextCommand, parseCommand).               *)
THEOREM Implements == Spec => LinesInOrder
  <1>1. Lines!Init /\ [][Lines!Next]_(Lines!vars) <=> LinesInOrder
    BY DEF LinesInOrder, Lines!Safety
  <1> QED BY <1>1, Invariance, InitRefines, StepRefines, PTL DEF Spec

=============================================================================
