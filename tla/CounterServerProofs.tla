-------------------------- MODULE CounterServerProofs --------------------------
(****************************************************************************)
(* What a client can rely on, however many others are connected and whatever*)
(* they send: proofs about CounterServer.                                   *)
(****************************************************************************)
EXTENDS CounterServer, TLAPS

LEMMA InitTypeOK == Init => TypeOK
<1> SUFFICES ASSUME Init PROVE TypeOK
  OBVIOUS
<1>1. /\ NoAnswer \in Answers /\ NoOne \in Tags /\ <<>> \in Readings /\ Len(<<>>) < Channels
      /\ 0 \in 0..MaxCounts /\ "recv" \in Label /\ "idle" \in Mode
  BY CounterServerAssumption DEF Answers, Tags, Label, Mode, Readings
<1> QED BY <1>1 DEF Init, TypeOK, AllFields

LEMMA AgedType ==
    ASSUME NEW c \in Clients
    PROVE  /\ \A t \in Tags : Aged(c, t) \in Tags
           /\ \A ts \in SUBSET Tags : AgedSet(c, ts) \in SUBSET Tags
BY DEF Aged, AgedSet, Tags

LEMMA CounterType ==
    ASSUME TypeOK, WindowOpens \/ WindowCloses
    PROVE  /\ mode' \in Mode /\ timing' \in BOOLEAN /\ open' \subseteq Tags /\ running' \in Tags
           /\ duration_of' \in Tags /\ counts_of' \subseteq Tags
           /\ (mode' = "idle" => ~timing') /\ (mode' = "immediate" => timing')
BY DEF TypeOK, WindowOpens, WindowCloses, Mode, Tags

(* The parts of the type of the counter, and of what is shared beside it.   *)
CounterTyped ==
    /\ mode \in Mode /\ timing \in BOOLEAN
    /\ (mode = "idle" => ~timing) /\ (mode = "immediate" => timing)
    /\ open \subseteq Tags /\ counts_of \subseteq Tags /\ running \in Tags /\ duration_of \in Tags

SharedTyped == config \in [Field -> Tags] /\ alone \subseteq Clients /\ configurers \subseteq Tags

LocalTyped ==
    /\ pc \in [Clients -> Label] /\ request \in [Clients -> Requests \cup {"none"}]
    /\ left \in [Clients -> 0..MaxCounts]
    /\ \A c \in Clients : pc[c] \notin {"recv", "exited", "restart"} => left[c] > 0
    /\ duration \in [Clients -> Tags] /\ counts \in [Clients -> Readings]
    /\ \A c \in Clients : Len(counts[c]) < Channels
    /\ shadow \in [Clients -> [Field -> Tags]]
    /\ answer \in [Clients -> Answers] /\ app_exit \in [Clients -> BOOLEAN]

LEMMA Parts == TypeOK' <=> LocalTyped' /\ CounterTyped' /\ SharedTyped'
BY DEF TypeOK, LocalTyped, CounterTyped, SharedTyped

LEMMA SharedKept == TypeOK /\ UNCHANGED <<config, history>> => SharedTyped'
BY DEF TypeOK, SharedTyped, history

LEMMA CounterKept == TypeOK /\ UNCHANGED counter => CounterTyped'
BY DEF TypeOK, CounterTyped, counter

(* A step that only moves its process keeps the types of the locals.        *)
LEMMA Moved ==
    ASSUME TypeOK, NEW c \in Clients, NEW l \in Label,
           pc' = [pc EXCEPT ![c] = l],
           pc[c] \notin {"recv", "exited", "restart"} \/ l \in {"recv", "exited"},
           UNCHANGED <<request, left, duration, counts, shadow, answer>>,
           app_exit' \in [Clients -> BOOLEAN]
    PROVE  LocalTyped'
BY DEF TypeOK, LocalTyped

LEMMA CountingType ==
    ASSUME TypeOK, NEW c \in Clients, CountImmediately(c)
    PROVE  CounterTyped'
BY DEF TypeOK, CounterTyped, CountImmediately, Mode, Tags

(* The commands of counter_SendCommand.                                     *)
LEMMA SendType ==
    ASSUME TypeOK, NEW c \in Clients, Send(c)
    PROVE  CounterTyped'
<1>1. CounterTyped /\ c \in Tags /\ NoOne \in Tags
  BY DEF TypeOK, CounterTyped, Tags
<1>2. CASE Arm(c, "triggered") \/ Arm(c, "gated")
  BY <1>1, <1>2 DEF Arm, Mode, CounterTyped
<1>3. CASE GotoIdle \/ ResetCommand
  BY <1>1, <1>3 DEF GotoIdle, ResetCommand, Mode, CounterTyped
<1>4. CASE TriggerCommand
  <2>1. CASE UNCHANGED counter
    BY <1>1, <2>1, CounterKept
  <2>2. CASE mode = "triggered" /\ timing' = TRUE
               /\ UNCHANGED <<mode, open, running, duration_of, counts_of>>
    <3>1. mode' = "triggered" /\ timing' = TRUE /\ mode' # "idle"
      BY <2>2
    <3> QED BY <1>1, <2>2, <3>1 DEF Mode, CounterTyped
  <2> QED BY <1>4, <2>1, <2>2 DEF TriggerCommand
<1> QED BY <1>2, <1>3, <1>4 DEF Send

LEMMA ReadCountsType ==
    ASSUME TypeOK, NEW c \in Clients, ReadCounts(c)
    PROVE  LocalTyped'
<1> USE DEF Label, Goto
<1>1. /\ left[c] \in 0..MaxCounts /\ left[c] > 0 /\ Channels \in Nat \ {0} /\ MaxCounts \in Nat
      /\ request[c] \in Requests \cup {"none"} /\ duration[c] \in Tags
      /\ counts[c] \in Readings /\ counts_of \in SUBSET Tags /\ NoOne \in Tags
      /\ Len(counts[c]) < Channels /\ Len(counts[c]) \in Nat
  <2>1. pc[c] = "readCounts" /\ Channels \in Nat \ {0} /\ MaxCounts \in Nat \ {0}
    BY CounterServerAssumption DEF ReadCounts
  <2>2. /\ left[c] \in 0..MaxCounts /\ left[c] > 0 /\ request[c] \in Requests \cup {"none"}
        /\ duration[c] \in Tags /\ counts[c] \in Readings /\ Len(counts[c]) < Channels
        /\ counts_of \in SUBSET Tags
    BY <2>1 DEF TypeOK
  <2>3. Len(counts[c]) \in Nat
    BY <2>2 DEF Readings
  <2> QED BY <2>1, <2>2, <2>3 DEF Tags
<1>2. left[c] - 1 \in 0..MaxCounts /\ (left[c] > 1 => left[c] - 1 > 0)
  BY <1>1
<1>3. Append(counts[c], counts_of) \in Readings /\ Len(Append(counts[c], counts_of)) = Len(counts[c]) + 1
  BY <1>1 DEF Readings
<1>4. <<>> \in Readings /\ Len(<<>>) < Channels
  BY <1>1 DEF Readings
<1>5. UNCHANGED <<request, shadow, app_exit>>
  BY DEF ReadCounts
<1>6. ASSUME NEW read \in Readings, Counted(c, read) PROVE LocalTyped'
  <2>1. [to |-> request[c], duration |-> duration[c], counts |-> read, alone |-> c \in alone] \in Answers
    BY <1>1 DEF Answers
  <2>2. answer' \in [Clients -> Answers] /\ left' \in [Clients -> 0..MaxCounts]
        /\ duration' \in [Clients -> Tags]
    BY <1>1, <1>2, <1>6, <2>1 DEF Counted, TypeOK
  <2>3. /\ counts' \in [Clients -> Readings]
        /\ \A d \in Clients : Len(counts'[d]) < Channels
    BY <1>4, <1>6 DEF Counted, TypeOK
  <2>4. /\ pc' \in [Clients -> Label]
        /\ \A d \in Clients : pc'[d] \notin {"recv", "exited", "restart"} => left'[d] > 0
    BY <1>1, <1>2, <1>6 DEF Counted, TypeOK
  <2> QED BY <1>5, <2>2, <2>3, <2>4 DEF LocalTyped, TypeOK
<1>7. CASE /\ Len(counts[c]) + 1 < Channels
           /\ counts' = [counts EXCEPT ![c] = Append(@, counts_of)]
           /\ UNCHANGED <<pc, left, answer, duration>>
  <2>1. /\ counts' \in [Clients -> Readings]
        /\ \A d \in Clients : Len(counts'[d]) < Channels
    BY <1>3, <1>7 DEF TypeOK
  <2> QED BY <1>5, <1>7, <2>1 DEF LocalTyped, TypeOK
<1> QED BY <1>3, <1>4, <1>6, <1>7 DEF ReadCounts

LEMMA ConfType ==
    ASSUME TypeOK, NEW c \in Clients, ConfRead(c) \/ ConfWrite(c)
    PROVE  LocalTyped' /\ SharedTyped'
<1> USE DEF Label, Goto
<1>0. /\ c \in Tags /\ NoOne \in Tags /\ Stale \in Tags /\ \A t \in Tags : AllFields(t) \in [Field -> Tags]
      /\ TypeOK
  BY DEF Tags, AllFields
<1>1. CASE ConfRead(c)
  <2>1. PICK i \in 1..3 :
          /\ pc[c] = <<"confRead1", "confRead2", "confRead3">>[i]
          /\ \/ configurers' = configurers \cup {c} /\ UNCHANGED config
             \/ configurers' = {c} /\ config' = AllFields(Stale)
          /\ shadow' = [shadow EXCEPT ![c] = config']
          /\ pc' = [pc EXCEPT ![c] = <<"confWrite1", "confWrite2", "confWrite3">>[i]]
          /\ UNCHANGED <<request, left, duration, counts, answer, app_exit, alone>>
    BY <1>1 DEF ConfRead
  <2>2. /\ pc[c] \in {"confRead1", "confRead2", "confRead3"}
        /\ <<"confWrite1", "confWrite2", "confWrite3">>[i] \in {"confWrite1", "confWrite2", "confWrite3"}
    BY <2>1
  <2>3. config' \in [Field -> Tags] /\ configurers' \subseteq Tags
    BY <1>0, <2>1 DEF TypeOK
  <2>4. shadow' \in [Clients -> [Field -> Tags]]
    BY <2>1, <2>3 DEF TypeOK
  <2> QED BY <2>1, <2>2, <2>3, <2>4 DEF TypeOK, LocalTyped, SharedTyped
<1>2. CASE ConfWrite(c)
  <2>1. PICK i \in 1..3 :
          /\ pc[c] = <<"confWrite1", "confWrite2", "confWrite3">>[i]
          /\ config' = [shadow[c] EXCEPT ![Fields[i]] = c]
          /\ pc' = [pc EXCEPT ![c] = <<"confRead2", "confRead3", "recv">>[i]]
          /\ shadow' = [shadow EXCEPT ![c] = AllFields(NoOne)]
          /\ UNCHANGED <<request, left, duration, counts, answer, app_exit, history>>
    BY <1>2 DEF ConfWrite
  <2>2. /\ pc[c] \in {"confWrite1", "confWrite2", "confWrite3"}
        /\ <<"confRead2", "confRead3", "recv">>[i] \in {"confRead2", "confRead3", "recv"}
    BY <2>1
  <2>3. config' \in [Field -> Tags] /\ shadow' \in [Clients -> [Field -> Tags]]
    BY <1>0, <2>1 DEF TypeOK
  <2> QED BY <2>1, <2>2, <2>3 DEF TypeOK, LocalTyped, SharedTyped, history
<1> QED BY <1>1, <1>2

(* Every step of a handler keeps the types of its process and the counter.  *)
LEMMA HandleType ==
    ASSUME TypeOK, NEW c \in Clients, Handle(c)
    PROVE  TypeOK'
<1> USE DEF Label, Goto
<1>0. app_exit \in [Clients -> BOOLEAN] /\ alone \subseteq Clients /\ TypeOK
  BY DEF TypeOK
<1>1. CASE WaitIdle(c)
  <2>1. PICK l \in {"readDuration", "start"} : pc' = [pc EXCEPT ![c] = l]
    BY <1>1 DEF WaitIdle
  <2>2. pc[c] = "waitIdle" /\ UNCHANGED <<request, left, duration, counts, shadow, answer, app_exit>>
    BY <1>1 DEF WaitIdle
  <2>3. LocalTyped'
    BY <1>0, <2>1, <2>2, Moved
  <2>4. SharedTyped' /\ CounterTyped'
    BY <1>0, <1>1, CounterKept DEF WaitIdle, Waited, TypeOK, SharedTyped
  <2> QED BY <2>3, <2>4, Parts
<1>2. CASE Start(c) \/ Restart(c)
  <2>1. PICK l \in {"waitDone", "recv"} : pc' = [pc EXCEPT ![c] = l]
    BY <1>2 DEF Start, Restart
  <2>2. /\ pc[c] = "start" \/ l = "recv"
        /\ UNCHANGED <<request, left, duration, counts, shadow, answer, app_exit, config, configurers>>
    <3>1. pc \in [Clients -> Label]
      BY DEF TypeOK
    <3> QED BY <1>2, <2>1, <3>1 DEF Start, Restart
  <2>3. LocalTyped'
    BY <1>0, <2>1, <2>2, Moved
  <2>4. CounterTyped'
    BY <1>2, CountingType DEF Start, Restart
  <2>5. SharedTyped'
    BY <1>0, <1>2, <2>2 DEF Start, Restart, Disturbs, TypeOK, SharedTyped
  <2> QED BY <2>3, <2>4, <2>5, Parts
<1>3. CASE WaitDone(c) \/ GetState(c) \/ ReadDuration(c)
  <2>1. CounterTyped' /\ SharedTyped'
    BY <1>3, CounterKept, SharedKept DEF WaitDone, GetState, ReadDuration
  <2>2. CASE WaitDone(c)
    <3>1. PICK l \in {"readDuration", "recv"} : pc' = [pc EXCEPT ![c] = l]
      BY <2>2 DEF WaitDone
    <3>2. pc[c] = "waitDone" /\ UNCHANGED <<request, left, duration, counts, shadow, answer, app_exit>>
      BY <2>2 DEF WaitDone
    <3> QED BY <1>0, <2>1, <3>1, <3>2, Moved, Parts
  <2>3. CASE GetState(c)
    <3>1. ModeAnswer \in BOOLEAN /\ mode \in Mode
      BY DEF ModeAnswer, TypeOK
    <3>2. [to |-> "TRIG?", enabled |-> ModeAnswer, mode |-> mode] \in Answers
      BY <3>1 DEF Answers
    <3>3. answer' \in [Clients -> Answers]
      BY <2>3, <3>2 DEF GetState, TypeOK
    <3>4. LocalTyped'
      BY <2>3, <3>3 DEF GetState, TypeOK, LocalTyped
    <3> QED BY <2>1, <3>4, Parts
  <2>4. CASE ReadDuration(c)
    <3>1. LocalTyped'
      BY <2>4 DEF ReadDuration, TypeOK, LocalTyped
    <3> QED BY <2>1, <3>1, Parts
  <2> QED BY <1>3, <2>2, <2>3, <2>4
<1>4. CASE ReadCounts(c)
  <2>1. CounterTyped' /\ SharedTyped'
    BY <1>4, CounterKept, SharedKept DEF ReadCounts
  <2> QED BY <1>4, <2>1, ReadCountsType, Parts
<1>5. CASE Send(c)
  <2>1. PICK l \in {"waitDone", "recv"} : pc' = [pc EXCEPT ![c] = l]
    BY <1>5 DEF Send
  <2>2. /\ pc[c] = "send" /\ alone' \subseteq Clients
        /\ UNCHANGED <<request, left, duration, counts, shadow, answer, app_exit, config, configurers>>
    BY <1>0, <1>5 DEF Send, Disturbs
  <2>3. LocalTyped'
    BY <1>0, <2>1, <2>2, Moved
  <2>4. SharedTyped'
    BY <2>2 DEF TypeOK, SharedTyped
  <2> QED BY <1>5, <2>3, <2>4, SendType, Parts
<1>6. CASE ConfRead(c) \/ ConfWrite(c)
  <2>1. UNCHANGED counter
    BY <1>6 DEF ConfRead, ConfWrite
  <2> QED BY <1>6, <2>1, ConfType, CounterKept, Parts
<1> QED BY <1>1, <1>2, <1>3, <1>4, <1>5, <1>6 DEF Handle

LEMMA ReceiveType ==
    ASSUME TypeOK, NEW c \in Clients, Receive(c)
    PROVE  TypeOK'
<1> USE DEF Label, Goto
<1>0. SharedTyped' /\ app_exit \in [Clients -> BOOLEAN]
  <2>1. alone' = alone \/ alone' = alone \ {c}
    BY DEF Receive
  <2> QED BY <2>1 DEF Receive, TypeOK, SharedTyped
<1>1. CASE app_exit[c]
  <2>1. pc' = [pc EXCEPT ![c] = "exited"] /\ UNCHANGED <<request, left, duration, counts, shadow, answer, app_exit, counter>>
    BY <1>1 DEF Receive
  <2> QED BY <1>0, <2>1, Moved, CounterKept, Parts
<1>2. CASE ~app_exit[c]
  <2>1. PICK r \in Commands[c], n \in 0..MaxCounts :
          /\ r # "COUNT?" => n = 1
          /\ pc' = [pc EXCEPT ![c] = IF n = 0 THEN "recv" ELSE FirstStep(r)]
          /\ request' = [request EXCEPT ![c] = r]
          /\ left' = [left EXCEPT ![c] = n]
          /\ answer' = [answer EXCEPT ![c] = NoAnswer]
          /\ running' = Aged(c, running) /\ open' = AgedSet(c, open)
          /\ duration_of' = Aged(c, duration_of) /\ counts_of' = AgedSet(c, counts_of)
          /\ UNCHANGED <<mode, timing>>
    BY <1>2 DEF Receive
  <2>2. r \in Requests /\ NoAnswer \in Answers
    BY CounterServerAssumption DEF Answers
  <2>3. FirstStep(r) \in Label
    BY DEF FirstStep
  <2>4. n = 0 \/ n > 0
    BY CounterServerAssumption
  <2>5. UNCHANGED <<duration, counts, shadow, app_exit>>
    BY DEF Receive
  <2>6. CounterTyped'
    BY <2>1, AgedType DEF TypeOK, CounterTyped
  <2>7. LocalTyped'
    BY <2>1, <2>2, <2>3, <2>4, <2>5 DEF TypeOK, LocalTyped
  <2> QED BY <1>0, <2>6, <2>7, Parts
<1> QED BY <1>1, <1>2

LEMMA NextTypeOK == TypeOK /\ [Next]_vars => TypeOK'
<1> SUFFICES ASSUME TypeOK, [Next]_vars PROVE TypeOK'
  OBVIOUS
<1> USE DEF Label
<1>1. CASE UNCHANGED vars
  BY <1>1 DEF TypeOK, vars, local, counter, history
<1>2. CASE CounterStep
  BY <1>2, CounterType DEF TypeOK, CounterStep, local, history
<1>3. ASSUME NEW c \in Clients, Process(c) PROVE TypeOK'
  <2>1. CASE Receive(c)
    BY <2>1, ReceiveType
  <2>2. CASE Disconnect(c) \/ Term(c)
    <3>1. PICK l \in Label :
            /\ pc' = [pc EXCEPT ![c] = l]
            /\ l = "exited" \/ l = pc[c]
      BY <2>2 DEF Disconnect, Term, Goto, TypeOK
    <3>2. /\ app_exit' \in [Clients -> BOOLEAN]
          /\ UNCHANGED <<request, left, duration, counts, shadow, answer, counter, config, history>>
      BY <2>2 DEF Disconnect, Term, TypeOK
    <3>3. LocalTyped'
      BY <3>1, <3>2 DEF TypeOK, LocalTyped
    <3> QED BY <3>2, <3>3, CounterKept, SharedKept, Parts
  <2>3. CASE Handle(c)
    BY <2>3, HandleType
  <2> QED BY <1>3, <2>1, <2>2, <2>3 DEF Process
<1> QED BY <1>1, <1>2, <1>3 DEF Next

(* Every process is at a step of its handler with its locals in their       *)
(* types, and COUNTER:COUNT? never goes below its number of counts.         *)
THEOREM TypeCorrect == Spec => []TypeOK
<1> QED BY InitTypeOK, NextTypeOK, PTL DEF Spec

----------------------------------------------------------------------------
(* The answers of counts that had the counter to themselves.                *)

(* What the invariant says of one client.                                   *)
AloneOf(c) ==
    /\ request[c] \in {"COUNT?", "COUNT:SING?"}
    /\ pc[c] \in {"recv", "exited", "start", "waitDone", "readDuration", "readCounts"}
    /\ pc[c] # "waitDone" => mode = "idle"
    /\ pc[c] = "waitDone" =>
         /\ duration_of = c
         /\ \/ mode = "immediate" /\ open = {c}
            \/ mode = "idle" /\ counts_of = {c}
    /\ pc[c] \in {"readDuration", "readCounts"} => duration_of = c /\ counts_of = {c}
    /\ pc[c] = "readCounts" => duration[c] = c

ReadingOf(c) ==
    /\ pc[c] # "readCounts" => counts[c] = <<>>
    /\ c \in alone => \A i \in 1..Len(counts[c]) : counts[c][i] = {c}

FreshOf(c) == answer[c].to \in {"COUNT?", "COUNT:SING?"} /\ answer[c].alone => Fresh(c)

LEMMA MeasureParts ==
    /\ MeasureInv => /\ IdleInv /\ (\A c \in alone : AloneOf(c))
                     /\ \A c \in Clients : ReadingOf(c) /\ FreshOf(c)
    /\ IdleInv' /\ (\A c \in alone' : AloneOf(c)') /\ (\A c \in Clients : ReadingOf(c)' /\ FreshOf(c)')
         => MeasureInv'
BY DEF MeasureInv, AloneInv, ReadingInv, FreshInv, AloneOf, ReadingOf, FreshOf

(* What is known of c survives a step that leaves alone what it is about.   *)
LEMMA AloneKept ==
    ASSUME NEW c \in Clients, AloneOf(c),
           pc'[c] = pc[c], request'[c] = request[c], duration'[c] = duration[c],
           UNCHANGED <<mode, open, duration_of, counts_of>>
    PROVE  AloneOf(c)'
BY DEF AloneOf

LEMMA ReadingKept ==
    ASSUME NEW c \in Clients, ReadingOf(c),
           pc'[c] = pc[c] \/ (pc'[c] # "readCounts" /\ pc[c] # "readCounts") \/ counts[c] = <<>>,
           counts'[c] = counts[c], c \in alone' => c \in alone \/ counts[c] = <<>>
    PROVE  ReadingOf(c)'
BY DEF ReadingOf

LEMMA FreshKept ==
    ASSUME NEW c \in Clients, FreshOf(c), answer'[c] = answer[c]
    PROVE  FreshOf(c)'
BY DEF FreshOf, Fresh

LEMMA CounterKeepsMeasure ==
    ASSUME TypeOK, MeasureInv, CounterStep
    PROVE  MeasureInv'
<1>1. /\ IdleInv /\ (\A c \in alone : AloneOf(c) /\ c \in Clients)
      /\ \A c \in Clients : ReadingOf(c) /\ FreshOf(c)
  BY MeasureParts DEF TypeOK
<1>2. UNCHANGED <<pc, request, duration, counts, answer, alone>>
  BY DEF CounterStep, local, history
<1>3. \A c \in Clients : ReadingOf(c)' /\ FreshOf(c)'
  BY <1>1, <1>2, ReadingKept, FreshKept
<1>4. CASE WindowOpens
  <2>1. IdleInv' /\ alone = {}
    BY <1>1, <1>4 DEF WindowOpens, IdleInv, AloneOf
  <2> QED BY <1>2, <1>3, <2>1, MeasureParts
<1>5. CASE WindowCloses
  <2>1. /\ open' = {} /\ timing' = FALSE /\ counts_of' = open /\ duration_of' = duration_of
        /\ mode # "idle" /\ (mode = "immediate" => mode' = "idle")
    BY <1>1, <1>5 DEF WindowCloses, IdleInv
  <2>2. IdleInv'
    BY <2>1 DEF IdleInv
  <2>3. ASSUME NEW c \in alone PROVE AloneOf(c)'
    BY <1>1, <1>2, <2>1 DEF AloneOf
  <2> QED BY <1>2, <1>3, <2>2, <2>3, MeasureParts
<1> QED BY <1>4, <1>5 DEF CounterStep

(* A command that a client begins makes only its own measurements stale.    *)
LEMMA ReceiveKeepsMeasure ==
    ASSUME TypeOK, MeasureInv, NEW c \in Clients, Receive(c)
    PROVE  MeasureInv'
<1> USE DEF Goto
<1>1. /\ IdleInv /\ (\A d \in alone : AloneOf(d) /\ d \in Clients)
      /\ \A d \in Clients : ReadingOf(d) /\ FreshOf(d)
      /\ pc \in [Clients -> Label] /\ request \in [Clients -> Requests \cup {"none"}]
      /\ answer \in [Clients -> Answers]
      /\ pc[c] = "recv" /\ UNCHANGED <<counts, duration>>
  BY MeasureParts DEF TypeOK, Receive
<1>2. counts[c] = <<>>
  BY <1>1 DEF ReadingOf
<1>3. CASE app_exit[c]
  <2>1. /\ pc' = [pc EXCEPT ![c] = "exited"]
        /\ UNCHANGED <<request, answer, mode, timing, open, duration_of, counts_of, alone>>
    BY <1>3 DEF Receive, counter
  <2>2. \A d \in Clients : ReadingOf(d)' /\ FreshOf(d)'
    BY <1>1, <1>2, <2>1, ReadingKept, FreshKept
  <2>3. ASSUME NEW d \in alone PROVE AloneOf(d)'
    BY <1>1, <2>1 DEF AloneOf
  <2>4. IdleInv'
    BY <1>1, <2>1 DEF IdleInv
  <2> QED BY <2>1, <2>2, <2>3, <2>4, MeasureParts
<1>4. CASE ~app_exit[c]
  <2>1. PICK r \in Commands[c], n \in 0..MaxCounts :
          /\ pc' = [pc EXCEPT ![c] = IF n = 0 THEN "recv" ELSE FirstStep(r)]
          /\ request' = [request EXCEPT ![c] = r]
          /\ answer' = [answer EXCEPT ![c] = NoAnswer]
          /\ open' = AgedSet(c, open)
          /\ duration_of' = Aged(c, duration_of) /\ counts_of' = AgedSet(c, counts_of)
          /\ alone' = alone \ {c} /\ UNCHANGED <<mode, timing>>
    BY <1>4 DEF Receive
  <2>2. IdleInv'
    BY <1>1, <2>1 DEF IdleInv, AgedSet
  <2>3. ASSUME NEW d \in Clients PROVE ReadingOf(d)' /\ FreshOf(d)'
    <3>1. ReadingOf(d)'
      BY <1>1, <1>2, <2>1, ReadingKept
    <3>2. CASE d = c
      <4>1. answer'[d].to = "nothing"
        BY <1>1, <2>1, <3>2 DEF NoAnswer
      <4> QED BY <3>1, <4>1 DEF FreshOf
    <3>3. CASE d # c
      <4>1. answer'[d] = answer[d]
        BY <1>1, <2>1, <3>3
      <4> QED BY <1>1, <3>1, <4>1, FreshKept
    <3> QED BY <3>1, <3>2, <3>3
  <2>4. ASSUME NEW d \in alone' PROVE AloneOf(d)'
    <3>1. d # c /\ d \in Clients /\ AloneOf(d)
      BY <1>1, <2>1
    <3>2. pc'[d] = pc[d] /\ request'[d] = request[d] /\ duration'[d] = duration[d]
      BY <1>1, <2>1, <3>1
    <3>3. /\ open = {d} => open' = {d}
          /\ counts_of = {d} => counts_of' = {d}
          /\ duration_of = d => duration_of' = d
      BY <2>1, <3>1 DEF Aged, AgedSet
    <3> QED BY <2>1, <3>1, <3>2, <3>3 DEF AloneOf
  <2> QED BY <2>2, <2>3, <2>4, MeasureParts
<1> QED BY <1>3, <1>4

(* Nobody is alone once another process sends a command to the counter.     *)
LEMMA DisturbsAll ==
    ASSUME NEW c \in Clients, \A d \in alone : AloneOf(d),
           pc[c] \in {"restart", "send"}, Disturbs(c)
    PROVE  alone' = {}
BY DEF AloneOf, Disturbs

(* The steps of a handler up to the end of the measurement.                 *)
LEMMA StartKeepsMeasure ==
    ASSUME TypeOK, MeasureInv, NEW c \in Clients, WaitIdle(c) \/ Start(c) \/ Restart(c) \/ Send(c) \/ WaitDone(c)
    PROVE  MeasureInv'
<1> USE DEF Goto
<1>1. /\ IdleInv /\ (\A d \in alone : AloneOf(d) /\ d \in Clients)
      /\ \A d \in Clients : ReadingOf(d) /\ FreshOf(d)
      /\ pc \in [Clients -> Label]
      /\ UNCHANGED <<request, duration, counts, answer>>
  BY MeasureParts DEF TypeOK, WaitIdle, Start, Restart, Send, WaitDone
<1>2. /\ pc[c] # "readCounts" /\ pc'[c] # "readCounts"
      /\ \A d \in Clients : d # c => pc'[d] = pc[d]
  BY <1>1 DEF WaitIdle, Start, Restart, Send, WaitDone
<1>3. counts[c] = <<>>
  BY <1>1, <1>2 DEF ReadingOf
<1>4. \A d \in alone' : d \in alone \/ d = c
  BY DEF WaitIdle, Waited, Start, Restart, Send, Disturbs, WaitDone, history
<1>5. \A d \in Clients : ReadingOf(d)' /\ FreshOf(d)'
  BY <1>1, <1>2, <1>3, <1>4, ReadingKept, FreshKept
<1>6. CASE WaitIdle(c)
  <2>1. /\ pc[c] = "waitIdle" /\ mode = "idle" /\ c \notin alone
        /\ pc'[c] = IF request[c] = "WRSC?" THEN "readDuration" ELSE "start"
        /\ alone' = IF request[c] = "COUNT:SING?" THEN alone \cup {c} ELSE alone
        /\ UNCHANGED <<mode, timing, open, duration_of, counts_of>>
    BY <1>1, <1>6 DEF WaitIdle, Waited, counter, AloneOf
  <2>2. ASSUME NEW d \in alone' PROVE AloneOf(d)'
    <3>1. CASE d = c
      BY <1>1, <2>1, <3>1 DEF AloneOf
    <3>2. CASE d # c
      BY <1>1, <1>2, <1>4, <2>1, <3>2, AloneKept
    <3> QED BY <3>1, <3>2
  <2>3. IdleInv'
    BY <1>1, <2>1 DEF IdleInv
  <2> QED BY <1>5, <2>2, <2>3, MeasureParts
<1>7. CASE Start(c)
  <2>1. /\ pc[c] = "start" /\ pc'[c] = "waitDone" /\ mode' = "immediate"
        /\ open' = open \cup {c} /\ duration_of' = c
        /\ alone' = IF IF request[c] = "COUNT?" THEN mode = "idle" ELSE c \in alone THEN {c} ELSE {}
    BY <1>1, <1>7 DEF Start, CountImmediately
  <2>2. IdleInv'
    BY <2>1 DEF IdleInv
  <2>3. ASSUME NEW d \in alone' PROVE AloneOf(d)'
    <3>1. d = c
      BY <2>1
    <3>2. request[c] \in {"COUNT?", "COUNT:SING?"} /\ mode = "idle"
      BY <1>1, <2>1, <3>1 DEF AloneOf
    <3>3. open' = {c}
      BY <1>1, <2>1, <3>2 DEF IdleInv
    <3> QED BY <1>1, <2>1, <3>1, <3>2, <3>3 DEF AloneOf
  <2> QED BY <1>5, <2>2, <2>3, MeasureParts
<1>8. CASE Restart(c)
  <2>1. alone' = {}
    BY <1>1, <1>8, DisturbsAll DEF Restart
  <2>2. IdleInv'
    BY <1>8 DEF Restart, CountImmediately, IdleInv
  <2> QED BY <1>5, <2>1, <2>2, MeasureParts
<1>9. CASE Send(c)
  <2>1. alone' = {}
    BY <1>1, <1>9, DisturbsAll DEF Send
  <2>2. IdleInv'
    <3>1. CASE Arm(c, "triggered") \/ Arm(c, "gated") \/ GotoIdle \/ ResetCommand
      BY <3>1 DEF Arm, GotoIdle, ResetCommand, IdleInv
    <3>2. CASE TriggerCommand
      BY <1>1, <3>2 DEF TriggerCommand, counter, IdleInv
    <3> QED BY <1>9, <3>1, <3>2 DEF Send
  <2> QED BY <1>5, <2>1, <2>2, MeasureParts
<1>10. CASE WaitDone(c)
  <2>1. /\ pc[c] = "waitDone" /\ mode = "idle" /\ pc'[c] = (IF request[c] = "RESET" THEN "recv" ELSE "readDuration")
        /\ alone' = alone /\ UNCHANGED <<mode, timing, open, duration_of, counts_of>>
    BY <1>1, <1>10 DEF WaitDone, counter, history
  <2>2. ASSUME NEW d \in alone' PROVE AloneOf(d)'
    <3>1. CASE d = c
      BY <1>1, <2>1, <3>1 DEF AloneOf
    <3>2. CASE d # c
      BY <1>1, <1>2, <2>1, <3>2, AloneKept
    <3> QED BY <3>1, <3>2
  <2>3. IdleInv'
    BY <1>1, <2>1 DEF IdleInv
  <2> QED BY <1>5, <2>2, <2>3, MeasureParts
<1> QED BY <1>6, <1>7, <1>8, <1>9, <1>10

(* The answer of a count that had the counter to itself: one reading after  *)
(* another finds the counts of its measurement.                             *)
LEMMA ReadKeepsMeasure ==
    ASSUME TypeOK, MeasureInv, NEW c \in Clients, ReadDuration(c) \/ ReadCounts(c)
    PROVE  MeasureInv'
<1> USE DEF Goto
<1>1. /\ IdleInv /\ (\A d \in alone : AloneOf(d) /\ d \in Clients)
      /\ \A d \in Clients : ReadingOf(d) /\ FreshOf(d)
      /\ pc \in [Clients -> Label] /\ duration \in [Clients -> Tags]
      /\ counts \in [Clients -> Readings] /\ answer \in [Clients -> Answers]
      /\ UNCHANGED <<request, mode, timing, open, duration_of, counts_of, alone>>
  BY MeasureParts DEF TypeOK, ReadDuration, ReadCounts, counter, history
<1>2. IdleInv'
  BY <1>1 DEF IdleInv
<1>3. CASE ReadDuration(c)
  <2>1. /\ pc[c] = "readDuration" /\ pc' = [pc EXCEPT ![c] = "readCounts"]
        /\ duration' = [duration EXCEPT ![c] = duration_of] /\ UNCHANGED <<counts, answer>>
    BY <1>3 DEF ReadDuration
  <2>2. counts[c] = <<>>
    BY <1>1, <2>1 DEF ReadingOf
  <2>3. \A d \in Clients : ReadingOf(d)' /\ FreshOf(d)'
    BY <1>1, <2>1, <2>2, ReadingKept, FreshKept
  <2>4. ASSUME NEW d \in alone PROVE AloneOf(d)'
    <3>1. CASE d = c
      BY <1>1, <2>1, <3>1 DEF AloneOf
    <3>2. CASE d # c
      BY <1>1, <2>1, <3>2, AloneKept
    <3> QED BY <3>1, <3>2
  <2> QED BY <1>1, <1>2, <2>3, <2>4, MeasureParts
<1>4. CASE ReadCounts(c)
  <2>0. /\ pc[c] = "readCounts" /\ counts[c] \in Seq(SUBSET Tags) /\ Len(counts[c]) \in Nat
        /\ c # NoOne /\ Channels \in Nat
    BY <1>1, <1>4, CounterServerAssumption DEF ReadCounts, Readings
  <2>1. ASSUME NEW d \in Clients, d # c
        PROVE  /\ ReadingOf(d)' /\ FreshOf(d)'
               /\ d \in alone => AloneOf(d)'
    <3>1. pc'[d] = pc[d] /\ duration'[d] = duration[d] /\ counts'[d] = counts[d] /\ answer'[d] = answer[d]
      BY <1>1, <1>4, <2>1 DEF ReadCounts, Counted
    <3> QED BY <1>1, <3>1, ReadingKept, FreshKept, AloneKept
  <2>2. ASSUME NEW read \in Readings, Counted(c, read),
               c \in alone => read = [i \in 1..Channels |-> {c}]
        PROVE  ReadingOf(c)' /\ FreshOf(c)' /\ (c \in alone => AloneOf(c)')
    <3>1. /\ answer'[c] = [to |-> request[c], duration |-> duration[c], counts |-> read, alone |-> c \in alone]
          /\ counts'[c] = <<>>
          /\ pc'[c] = IF request[c] = "WRSC?" THEN "restart" ELSE IF left[c] > 1 THEN "start" ELSE "recv"
      BY <1>1, <2>2 DEF Counted
    <3>2. ReadingOf(c)'
      BY <3>1 DEF ReadingOf
    <3>3. c \in alone => duration[c] = c
      BY <1>1, <2>0 DEF AloneOf
    <3>4. FreshOf(c)'
      <4>1. answer'[c].alone = (c \in alone) /\ answer'[c].duration = duration[c] /\ answer'[c].counts = read
        BY <3>1
      <4> QED BY <2>2, <3>3, <4>1 DEF FreshOf, Fresh
    <3>5. c \in alone => AloneOf(c)'
      BY <1>1, <2>0, <3>1 DEF AloneOf
    <3> QED BY <3>2, <3>4, <3>5
  <2>3. CASE duration[c] = NoOne /\ Counted(c, <<>>)
    <3>1. c \notin alone /\ <<>> \in Readings
      BY <1>1, <2>0, <2>3 DEF AloneOf, Readings
    <3>2. ReadingOf(c)' /\ FreshOf(c)'
      BY <2>2, <2>3, <3>1
    <3> QED BY <1>1, <1>2, <2>1, <3>1, <3>2, MeasureParts
  <2>4. Append(counts[c], counts_of) \in Readings /\ counts_of \in SUBSET Tags
    BY <2>0 DEF Readings, TypeOK
  <2>5. c \in alone => \A i \in 1..(Len(counts[c]) + 1) : Append(counts[c], counts_of)[i] = {c}
    <3>1. c \in alone => counts_of = {c} /\ \A i \in 1..Len(counts[c]) : counts[c][i] = {c}
      BY <1>1, <2>0 DEF AloneOf, ReadingOf
    <3> QED BY <2>0, <2>4, <3>1
  <2>6. CASE Len(counts[c]) + 1 = Channels /\ Counted(c, Append(counts[c], counts_of))
    <3>1. c \in alone => Append(counts[c], counts_of) = [i \in 1..Channels |-> {c}]
      <4>1. Append(counts[c], counts_of) \in Seq(SUBSET Tags) /\ Len(Append(counts[c], counts_of)) = Channels
        BY <2>0, <2>4, <2>6 DEF Readings
      <4>2. Append(counts[c], counts_of) = [i \in 1..Channels |-> Append(counts[c], counts_of)[i]]
        BY <4>1
      <4> QED BY <2>5, <2>6, <4>2
    <3>2. ReadingOf(c)' /\ FreshOf(c)' /\ (c \in alone => AloneOf(c)')
      BY <2>2, <2>4, <2>6, <3>1
    <3> QED BY <1>1, <1>2, <2>1, <3>2, MeasureParts
  <2>7. CASE /\ counts' = [counts EXCEPT ![c] = Append(@, counts_of)]
             /\ UNCHANGED <<pc, left, answer, duration>>
    <3>1. counts'[c] = Append(counts[c], counts_of) /\ Len(counts'[c]) = Len(counts[c]) + 1
      BY <1>1, <2>0, <2>4, <2>7
    <3>2. ReadingOf(c)'
      BY <1>1, <2>0, <2>5, <2>7, <3>1 DEF ReadingOf
    <3>3. FreshOf(c)' /\ (c \in alone => AloneOf(c)')
      BY <1>1, <2>7, FreshKept, AloneKept
    <3> QED BY <1>1, <1>2, <2>1, <3>2, <3>3, MeasureParts
  <2> QED BY <1>4, <2>3, <2>6, <2>7 DEF ReadCounts
<1> QED BY <1>3, <1>4

LEMMA NextMeasureInv == TypeOK /\ MeasureInv /\ [Next]_vars => MeasureInv'
<1> SUFFICES ASSUME TypeOK, MeasureInv, [Next]_vars PROVE MeasureInv'
  OBVIOUS
<1> USE DEF Goto
<1>0. /\ IdleInv /\ (\A d \in alone : AloneOf(d) /\ d \in Clients)
      /\ (\A d \in Clients : ReadingOf(d) /\ FreshOf(d))
      /\ pc \in [Clients -> Label] /\ answer \in [Clients -> Answers]
  BY MeasureParts DEF TypeOK
(* Steps that leave the counter, alone and what has been read as they are,  *)
(* of a process that is not alone or ends.                                  *)
<1>1. ASSUME UNCHANGED <<request, duration, counts, mode, timing, open, duration_of, counts_of, alone>>,
             \A d \in Clients : \/ pc'[d] = pc[d]
                                \/ /\ pc[d] # "readCounts" /\ pc'[d] # "readCounts"
                                   /\ (pc[d] = "recv" /\ pc'[d] = "exited") \/ d \notin alone,
             \A d \in Clients : answer'[d] = answer[d] \/ answer'[d].to = "TRIG?"
      PROVE  MeasureInv'
  <2>1. IdleInv'
    BY <1>0, <1>1 DEF IdleInv
  <2>2. ASSUME NEW d \in Clients PROVE ReadingOf(d)' /\ FreshOf(d)'
    BY <1>0, <1>1, ReadingKept, FreshKept DEF FreshOf
  <2>3. ASSUME NEW d \in alone PROVE AloneOf(d)'
    BY <1>0, <1>1, AloneKept DEF AloneOf
  <2> QED BY <1>1, <2>1, <2>2, <2>3, MeasureParts
<1>2. CASE UNCHANGED vars
  BY <1>1, <1>2 DEF vars, local, counter, history
<1>3. CASE CounterStep
  BY <1>3, CounterKeepsMeasure
<1>4. ASSUME NEW c \in Clients, Process(c) PROVE MeasureInv'
  <2>1. CASE Receive(c)
    BY <2>1, ReceiveKeepsMeasure
  <2>2. CASE Disconnect(c) \/ Term(c)
    <3>1. /\ UNCHANGED <<request, duration, counts, answer, mode, timing, open, duration_of, counts_of, alone>>
          /\ \A d \in Clients : pc'[d] = pc[d] \/ (pc[d] = "recv" /\ pc'[d] = "exited")
      BY <1>0, <2>2 DEF Disconnect, Term, counter, history
    <3> QED BY <1>1, <3>1
  <2>3. CASE WaitIdle(c) \/ Start(c) \/ Restart(c) \/ Send(c) \/ WaitDone(c)
    BY <2>3, StartKeepsMeasure
  <2>4. CASE ReadDuration(c) \/ ReadCounts(c)
    BY <2>4, ReadKeepsMeasure
  <2>5. CASE GetState(c)
    <3>1. /\ UNCHANGED <<request, duration, counts, mode, timing, open, duration_of, counts_of, alone>>
          /\ pc[c] = "getState" /\ pc' = [pc EXCEPT ![c] = "recv"]
          /\ answer' = [answer EXCEPT ![c] = [to |-> "TRIG?", enabled |-> ModeAnswer, mode |-> mode]]
      BY <2>5 DEF GetState, counter, history
    <3>2. c \notin alone
      BY <1>0, <3>1 DEF AloneOf
    <3> QED BY <1>0, <1>1, <3>1, <3>2
  <2>6. CASE ConfRead(c) \/ ConfWrite(c)
    <3>1. PICK k \in {"confRead1", "confRead2", "confRead3", "confWrite1", "confWrite2", "confWrite3"},
               l \in {"confRead2", "confRead3", "recv", "confWrite1", "confWrite2", "confWrite3"} :
            /\ pc[c] = k /\ pc' = [pc EXCEPT ![c] = l]
            /\ UNCHANGED <<request, duration, counts, answer, mode, timing, open, duration_of, counts_of, alone>>
      <4>1. CASE ConfRead(c)
        <5>1. PICK i \in 1..3 :
                /\ pc[c] = <<"confRead1", "confRead2", "confRead3">>[i]
                /\ pc' = [pc EXCEPT ![c] = <<"confWrite1", "confWrite2", "confWrite3">>[i]]
                /\ UNCHANGED <<request, duration, counts, answer, counter, alone>>
          BY <4>1 DEF ConfRead
        <5>2. /\ <<"confRead1", "confRead2", "confRead3">>[i] \in {"confRead1", "confRead2", "confRead3"}
              /\ <<"confWrite1", "confWrite2", "confWrite3">>[i] \in {"confWrite1", "confWrite2", "confWrite3"}
          OBVIOUS
        <5> QED BY <5>1, <5>2 DEF counter
      <4>2. CASE ConfWrite(c)
        <5>1. PICK i \in 1..3 :
                /\ pc[c] = <<"confWrite1", "confWrite2", "confWrite3">>[i]
                /\ pc' = [pc EXCEPT ![c] = <<"confRead2", "confRead3", "recv">>[i]]
                /\ UNCHANGED <<request, duration, counts, answer, counter, history>>
          BY <4>2 DEF ConfWrite
        <5>2. /\ <<"confWrite1", "confWrite2", "confWrite3">>[i] \in {"confWrite1", "confWrite2", "confWrite3"}
              /\ <<"confRead2", "confRead3", "recv">>[i] \in {"confRead2", "confRead3", "recv"}
          OBVIOUS
        <5> QED BY <5>1, <5>2 DEF counter, history
      <4> QED BY <2>6, <4>1, <4>2
    <3>2. c \notin alone
      BY <1>0, <3>1 DEF AloneOf
    <3> QED BY <1>0, <1>1, <3>1, <3>2
  <2> QED BY <1>4, <2>1, <2>2, <2>3, <2>4, <2>5, <2>6 DEF Process, Handle
<1> QED BY <1>2, <1>3, <1>4 DEF Next

LEMMA MeasureInvariant == Spec => []MeasureInv
<1>1. Init => MeasureInv
  BY DEF Init, MeasureInv, IdleInv, AloneInv, ReadingInv, FreshInv, NoAnswer
<1> QED BY <1>1, NextMeasureInv, TypeCorrect, PTL DEF Spec

(* COUNTER:COUNT:SING? is answered with the duration and the counts of the  *)
(* measurement it started, for any number of channels and of clients and    *)
(* whatever they sent before it, unless one of them sends a command between *)
(* the look that finds the counter idle and the last read.                  *)
THEOREM SingleCorrect == Spec => []SingleIsFresh
<1>1. MeasureInv => SingleIsFresh
  BY DEF MeasureInv, FreshInv, SingleIsFresh
<1> QED BY <1>1, MeasureInvariant, PTL

(* So is each count of COUNTER:COUNT? that happened to start while the      *)
(* counter was idle, which that command does not wait for.                  *)
THEOREM CountCorrect == Spec => []CountIsFresh
<1>1. MeasureInv => CountIsFresh
  BY DEF MeasureInv, FreshInv, CountIsFresh
<1> QED BY <1>1, MeasureInvariant, PTL

----------------------------------------------------------------------------
(* The trigger configuration, of any number of clients that set it.         *)

(* A step that changes neither the configuration nor who is setting it.     *)
LEMMA ConfigKept ==
    ASSUME ConfigInv, UNCHANGED <<shadow, config, configurers>>,
           \A c \in Clients : pc'[c] = pc[c] \/ (pc[c] \notin ConfSteps /\ pc'[c] \notin ConfSteps)
    PROVE  ConfigInv'
BY DEF ConfigInv, MaskInv, PolarityInv, SoleInv, Configuring, ConfSteps

(* The first read of one that is alone begins anew; any other read copies   *)
(* what is there.                                                           *)
LEMMA ConfReadKeeps ==
    ASSUME TypeOK, ConfigInv, NEW c \in Clients, ConfRead(c)
    PROVE  ConfigInv'
<1> USE DEF Goto
<1>0. /\ pc \in [Clients -> Label] /\ config \in [Field -> Tags] /\ shadow \in [Clients -> [Field -> Tags]]
      /\ "trigger_mask" \in Field /\ "trigger_invert" \in Field /\ "trigger_polarity" \in Field
      /\ Stale # c
  BY CounterServerAssumption DEF TypeOK, Field
<1>1. /\ shadow' = [shadow EXCEPT ![c] = config']
      /\ \/ pc[c] = "confRead1" /\ pc' = [pc EXCEPT ![c] = "confWrite1"]
         \/ pc[c] = "confRead2" /\ pc' = [pc EXCEPT ![c] = "confWrite2"]
         \/ pc[c] = "confRead3" /\ pc' = [pc EXCEPT ![c] = "confWrite3"]
      /\ IF \E d \in Clients : Configuring(d)
         THEN configurers' = configurers \cup {c} /\ UNCHANGED config
         ELSE configurers' = {c} /\ config' = AllFields(Stale)
  <2>1. PICK i \in 1..3 :
          /\ pc[c] = <<"confRead1", "confRead2", "confRead3">>[i]
          /\ shadow' = [shadow EXCEPT ![c] = config']
          /\ pc' = [pc EXCEPT ![c] = <<"confWrite1", "confWrite2", "confWrite3">>[i]]
          /\ IF \E d \in Clients : Configuring(d)
             THEN configurers' = configurers \cup {c} /\ UNCHANGED config
             ELSE configurers' = {c} /\ config' = AllFields(Stale)
    BY DEF ConfRead
  <2>2. CASE i = 1
    BY <2>1, <2>2
  <2>3. CASE i = 2
    BY <2>1, <2>3
  <2>4. CASE i = 3
    BY <2>1, <2>4
  <2> QED BY <2>1, <2>2, <2>3, <2>4
<1>2. /\ Configuring(c)' /\ shadow'[c] = config'
      /\ \A d \in Clients : d # c => pc'[d] = pc[d] /\ shadow'[d] = shadow[d]
  BY <1>0, <1>1 DEF Configuring, ConfSteps
<1>3. CASE \E d \in Clients : Configuring(d)
  <2>1. /\ configurers' = configurers \cup {c} /\ config' = config
        /\ pc[c] = "confRead1" \/ Configuring(c)
    BY <1>1, <1>3 DEF Configuring, ConfSteps
  <2>2. MaskInv'
    <3>1. \E d \in Clients : Configuring(d)'
      BY <1>2
    <3>2. config["trigger_mask"] \notin configurers' =>
            \A d \in Clients : Configuring(d)' => pc'[d] = "confWrite1"
      <4>1. ASSUME config["trigger_mask"] \notin configurers', NEW d \in Clients, Configuring(d)'
            PROVE  pc'[d] = "confWrite1"
        <5>1. config["trigger_mask"] \notin configurers
          BY <2>1, <4>1
        <5>2. CASE d = c
          BY <1>0, <1>1, <5>1, <5>2 DEF ConfigInv, MaskInv, Configuring, ConfSteps
        <5>3. CASE d # c
          BY <1>2, <4>1, <5>1, <5>3 DEF ConfigInv, MaskInv, Configuring
        <5> QED BY <5>2, <5>3
      <4> QED BY <4>1
    <3>3. \A d \in Clients : pc'[d] \in {"confWrite2", "confWrite3"} => shadow'[d]["trigger_mask"] \in configurers'
      <4>1. ASSUME NEW d \in Clients, d # c, pc'[d] \in {"confWrite2", "confWrite3"}
            PROVE  shadow'[d]["trigger_mask"] \in configurers'
        BY <1>2, <2>1, <4>1 DEF ConfigInv, MaskInv
      <4>2. ASSUME pc'[c] \in {"confWrite2", "confWrite3"} PROVE config["trigger_mask"] \in configurers
        BY <1>0, <1>1, <4>2 DEF ConfigInv, MaskInv, Configuring, ConfSteps
      <4> QED BY <1>2, <2>1, <4>1, <4>2
    <3> QED BY <2>1, <3>1, <3>2, <3>3 DEF MaskInv
  <2>3. PolarityInv'
    <3>1. ASSUME NEW d \in Clients, Configuring(d)' PROVE d \in configurers'
      BY <1>2, <2>1, <3>1 DEF ConfigInv, PolarityInv, Configuring
    <3> QED BY <1>2, <3>1 DEF PolarityInv
  <2>4. SoleInv'
    <3>1. SUFFICES ASSUME NEW e \in configurers', configurers' = {e}
                   PROVE  /\ (\A d \in Clients : ~Configuring(d)') => config'["trigger_invert"] = e
                          /\ e \in Clients /\ pc'[e] = "confRead3" => config'["trigger_invert"] = e
                          /\ e \in Clients /\ pc'[e] = "confWrite3" => shadow'[e]["trigger_invert"] = e
      BY DEF SoleInv
    <3>2. e = c /\ configurers = {c}
      <4>1. PICK d \in Clients : Configuring(d)
        BY <1>3
      <4>2. d \in configurers
        BY <4>1 DEF ConfigInv, PolarityInv
      <4> QED BY <2>1, <3>1, <4>2
    <3>3. pc'[c] # "confRead3" /\ (pc'[c] = "confWrite3" => pc[c] = "confRead3")
      BY <1>0, <1>1
    <3>4. pc[c] = "confRead3" => config["trigger_invert"] = c
      BY <3>2 DEF ConfigInv, SoleInv
    <3> QED BY <1>2, <2>1, <3>2, <3>3, <3>4
  <2> QED BY <2>2, <2>3, <2>4 DEF ConfigInv
<1>4. CASE ~\E d \in Clients : Configuring(d)
  <2>1. /\ configurers' = {c} /\ config' = AllFields(Stale)
        /\ pc[c] = "confRead1" /\ pc'[c] = "confWrite1"
        /\ \A d \in Clients : Configuring(d)' => d = c
    BY <1>0, <1>1, <1>2, <1>4 DEF Configuring, ConfSteps
  <2>2. MaskInv'
    BY <1>2, <2>1 DEF MaskInv, Configuring, ConfSteps
  <2>3. PolarityInv'
    BY <1>2, <2>1 DEF PolarityInv
  <2>4. SoleInv'
    BY <1>2, <2>1 DEF SoleInv
  <2> QED BY <2>2, <2>3, <2>4 DEF ConfigInv
<1> QED BY <1>3, <1>4

(* A write puts back what was read, with the field of the writer.           *)
LEMMA ConfWriteKeeps ==
    ASSUME TypeOK, ConfigInv, NEW c \in Clients, ConfWrite(c)
    PROVE  ConfigInv'
<1> USE DEF Goto
<1>0. /\ pc \in [Clients -> Label] /\ config \in [Field -> Tags] /\ shadow \in [Clients -> [Field -> Tags]]
      /\ "trigger_mask" \in Field /\ "trigger_invert" \in Field /\ "trigger_polarity" \in Field
  BY DEF TypeOK, Field
<1>1. /\ configurers' = configurers /\ shadow' = [shadow EXCEPT ![c] = AllFields(NoOne)]
      /\ \/ /\ pc[c] = "confWrite1" /\ pc' = [pc EXCEPT ![c] = "confRead2"]
            /\ config' = [shadow[c] EXCEPT !["trigger_mask"] = c]
         \/ /\ pc[c] = "confWrite2" /\ pc' = [pc EXCEPT ![c] = "confRead3"]
            /\ config' = [shadow[c] EXCEPT !["trigger_invert"] = c]
         \/ /\ pc[c] = "confWrite3" /\ pc' = [pc EXCEPT ![c] = "recv"]
            /\ config' = [shadow[c] EXCEPT !["trigger_polarity"] = c]
  <2>1. PICK i \in 1..3 :
          /\ pc[c] = <<"confWrite1", "confWrite2", "confWrite3">>[i]
          /\ config' = [shadow[c] EXCEPT ![Fields[i]] = c]
          /\ pc' = [pc EXCEPT ![c] = <<"confRead2", "confRead3", "recv">>[i]]
          /\ shadow' = [shadow EXCEPT ![c] = AllFields(NoOne)] /\ configurers' = configurers
    BY DEF ConfWrite, history
  <2>2. CASE i = 1
    BY <2>1, <2>2 DEF Fields
  <2>3. CASE i = 2
    BY <2>1, <2>3 DEF Fields
  <2>4. CASE i = 3
    BY <2>1, <2>4 DEF Fields
  <2> QED BY <2>1, <2>2, <2>3, <2>4
<1>2. /\ Configuring(c) /\ c \in configurers
      /\ \A d \in Clients : d # c => pc'[d] = pc[d] /\ shadow'[d] = shadow[d]
  BY <1>0, <1>1 DEF Configuring, ConfSteps, ConfigInv, PolarityInv
<1>3. pc'[c] \in {"confRead2", "confRead3", "recv"}
  BY <1>0, <1>1
<1>4. config'["trigger_mask"] \in configurers
  <2>1. pc[c] \in {"confWrite2", "confWrite3"} => shadow[c]["trigger_mask"] \in configurers
    BY DEF ConfigInv, MaskInv
  <2> QED BY <1>0, <1>1, <1>2, <2>1
<1>5. MaskInv'
  <2>1. ASSUME NEW d \in Clients, pc'[d] \in {"confWrite2", "confWrite3"}
        PROVE  shadow'[d]["trigger_mask"] \in configurers'
    BY <1>1, <1>2, <1>3, <2>1 DEF ConfigInv, MaskInv
  <2> QED BY <1>1, <1>4, <2>1 DEF MaskInv
<1>6. PolarityInv'
  <2>1. ASSUME NEW d \in Clients, Configuring(d)' PROVE d \in configurers'
    BY <1>1, <1>2, <2>1 DEF ConfigInv, PolarityInv, Configuring
  <2>2. ASSUME \A d \in Clients : ~Configuring(d)' PROVE config'["trigger_polarity"] \in configurers'
    <3>1. pc[c] = "confWrite3"
      BY <1>0, <1>1, <2>2 DEF Configuring, ConfSteps
    <3> QED BY <1>0, <1>1, <1>2, <3>1
  <2> QED BY <2>1, <2>2 DEF PolarityInv
<1>7. SoleInv'
  <2>1. SUFFICES ASSUME NEW e \in configurers, configurers = {e}
                 PROVE  /\ (\A d \in Clients : ~Configuring(d)') => config'["trigger_invert"] = e
                        /\ e \in Clients /\ pc'[e] = "confRead3" => config'["trigger_invert"] = e
                        /\ e \in Clients /\ pc'[e] = "confWrite3" => shadow'[e]["trigger_invert"] = e
    BY <1>1 DEF SoleInv
  <2>2. e = c
    BY <1>2, <2>1
  <2>3. pc[c] = "confWrite3" => shadow[c]["trigger_invert"] = c
    BY <2>1, <2>2 DEF ConfigInv, SoleInv
  <2>4. pc'[c] # "confWrite3" /\ (pc'[c] = "confRead3" => pc[c] = "confWrite2")
    BY <1>0, <1>1
  <2>5. (\A d \in Clients : ~Configuring(d)') => pc[c] = "confWrite3"
    BY <1>0, <1>1 DEF Configuring, ConfSteps
  <2>6. pc[c] = "confWrite2" => config'["trigger_invert"] = c
    BY <1>0, <1>1
  <2>7. pc[c] = "confWrite3" => config'["trigger_invert"] = c
    BY <1>0, <1>1, <2>3
  <2> QED BY <2>2, <2>4, <2>5, <2>6, <2>7
<1> QED BY <1>5, <1>6, <1>7 DEF ConfigInv

LEMMA NextConfigInv == TypeOK /\ ConfigInv /\ [Next]_vars => ConfigInv'
<1> SUFFICES ASSUME TypeOK, ConfigInv, [Next]_vars PROVE ConfigInv'
  OBVIOUS
<1> USE DEF Goto
<1>0. pc \in [Clients -> Label] /\ ConfigInv
  BY DEF TypeOK
<1>1. CASE UNCHANGED vars \/ CounterStep
  BY <1>0, <1>1, ConfigKept DEF vars, local, history, CounterStep
<1>2. ASSUME NEW c \in Clients, Process(c) PROVE ConfigInv'
  <2>1. CASE ConfRead(c)
    BY <2>1, ConfReadKeeps
  <2>2. CASE ConfWrite(c)
    BY <2>2, ConfWriteKeeps
  <2>3. CASE Receive(c) \/ Disconnect(c) \/ Term(c)
    <3>1. \A r \in Requests : FirstStep(r) \notin ConfSteps
      BY DEF FirstStep, ConfSteps
    <3>2. Commands[c] \subseteq Requests
      BY CounterServerAssumption
    <3>3. /\ UNCHANGED <<shadow, config, configurers>>
          /\ \A d \in Clients : pc'[d] = pc[d] \/ (pc[d] = "recv" /\ pc'[d] \notin ConfSteps)
      BY <1>0, <2>3, <3>1, <3>2 DEF Receive, Disconnect, Term, ConfSteps, history
    <3> QED BY <1>0, <3>3, ConfigKept DEF ConfSteps
  <2>4. CASE WaitIdle(c) \/ Start(c) \/ WaitDone(c) \/ ReadDuration(c) \/ Restart(c) \/ Send(c) \/ GetState(c)
    <3>1. /\ UNCHANGED <<shadow, config, configurers>>
          /\ pc[c] \notin ConfSteps /\ pc'[c] \notin ConfSteps
          /\ \A d \in Clients : d # c => pc'[d] = pc[d]
      BY <1>0, <2>4 DEF WaitIdle, Start, WaitDone, ReadDuration, Restart, Send, GetState, ConfSteps, history
    <3> QED BY <1>0, <3>1, ConfigKept
  <2>5. CASE ReadCounts(c)
    <3>1. /\ UNCHANGED <<shadow, config, configurers>>
          /\ pc[c] \notin ConfSteps /\ pc'[c] \notin ConfSteps
          /\ \A d \in Clients : d # c => pc'[d] = pc[d]
      BY <1>0, <2>5 DEF ReadCounts, Counted, ConfSteps, history
    <3> QED BY <1>0, <3>1, ConfigKept
  <2> QED BY <1>2, <2>1, <2>2, <2>3, <2>4, <2>5 DEF Process, Handle
<1> QED BY <1>1, <1>2 DEF Next

(* When no COUNTER:TRIG:CONF is under way the trigger configuration is the  *)
(* whole of that of a client that configured alone, and of any number that  *)
(* overlapped the mask and the polarity are each one of theirs: the reads   *)
(* and writes of rp_CounterSetTriggerConfig can bring back only an older    *)
(* value of the field between.                                              *)
THEOREM ConfigCorrect == Spec => []ConfigIsRecent
<1>1. Init => ConfigInv
  BY CounterServerAssumption DEF Init, ConfigInv, MaskInv, PolarityInv, SoleInv, Configuring, ConfSteps, AllFields, Field
<1>2. ConfigInv => ConfigIsRecent
  BY DEF ConfigInv, MaskInv, PolarityInv, SoleInv, ConfigIsRecent
<1> QED BY <1>1, <1>2, NextConfigInv, TypeCorrect, PTL DEF Spec

================================================================================
