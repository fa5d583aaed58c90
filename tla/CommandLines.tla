---------------------------- MODULE CommandLines ----------------------------
(****************************************************************************)
(* What a client of the counter server may rely on: its lines are answered  *)
(* once each and in order, wherever the network cuts the stream.  Lines end *)
(* with \r\n.  There are lines the process does not survive.                *)
(****************************************************************************)
EXTENDS Integers, Sequences

CONSTANTS
    Bytes,
    Fatal(_),       \* the lines that end the process
    Dangerous(_)    \* the lines that may end it

VARIABLES
    received,       \* the bytes that have come so far
    taken,          \* how many of them were lines that have been answered
    answered,       \* these lines
    alive

vars == <<received, taken, answered, alive>>

LineEnds == {e \in taken + 2 .. Len(received) : received[e-1] = "r" /\ received[e] = "n"}
IsFirst(e) == e \in LineEnds /\ \A f \in LineEnds : e <= f
LineTo(e) == SubSeq(received, taken + 1, e - 2)

Init == received = <<>> /\ taken = 0 /\ answered = <<>> /\ alive = TRUE

Receive ==
    /\ alive
    /\ received' \in Seq(Bytes)
    /\ Len(received) <= Len(received')
    /\ received = SubSeq(received', 1, Len(received))
    /\ UNCHANGED <<taken, answered, alive>>

Answer ==
    /\ alive
    /\ \E e \in LineEnds :
          /\ IsFirst(e) /\ ~Fatal(LineTo(e))
          /\ taken' = e
          /\ answered' = Append(answered, LineTo(e))
    /\ UNCHANGED <<received, alive>>

Die ==
    /\ alive
    /\ \E e \in LineEnds : IsFirst(e) /\ (Fatal(LineTo(e)) \/ Dangerous(LineTo(e)))
    /\ alive' = FALSE
    /\ UNCHANGED <<received, taken, answered>>

Next == Receive \/ Answer \/ Die

Safety == Init /\ [][Next]_vars

(* A line that is there is not left unanswered.                             *)
Spec == Safety /\ WF_vars(Answer \/ Die)

=============================================================================
