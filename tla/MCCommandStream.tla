--------------------------- MODULE MCCommandStream ---------------------------
(* Every stream up to a length for CommandStream, and some longer ones.     *)
EXTENDS CommandStream, SequencesExt

CONSTANT MaxLen

LongStreams == {
    <<"c", "s", "c", "s", "c", "r", "n", "c", "r", "n">>,
    <<"c", "r", "r", "n", "c", "n", "c", "r", "n", "r", "n">>,
    <<"c", "c", "c", "c", "c", "c", "c", "c", "c", "r", "n", "c", "r", "n", "c">>}
MCStreams == SeqOf(Bytes, MaxLen) \cup LongStreams
=============================================================================
