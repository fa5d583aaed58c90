---------------------------- MODULE MCCounterServer ----------------------------
(* Clients for CounterServer, and what each of them sends.                  *)
EXTENDS CounterServer, TLC

CONSTANTS a, b

MCClients == {a, b}

(* Both measure in every way, change modes and ask.                         *)
AllMeasure == [c \in MCClients |-> Requests \ {"TRIG:CONF", "GATED 0"}]
ClientSymmetry == Permutations(MCClients)

(* Both configure, while one takes counts and the other asks.               *)
OneCounts == [c \in MCClients |-> IF c = a THEN {"TRIG:CONF", "COUNT?", "COUNT:SING?", "RESET"}
                                           ELSE {"TRIG:CONF", "TRIG?"}]
================================================================================
