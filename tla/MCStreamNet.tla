----------------------------- MODULE MCStreamNet -----------------------------
(* Packs of less than a receive, and of one, for StreamNet.                 *)
EXTENDS StreamNet

MCPayloads == {1, 2}
=============================================================================
