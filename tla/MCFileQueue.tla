----------------------------- MODULE MCFileQueue -----------------------------
(* Few small buffers for FileQueue, and limits they reach.                  *)
EXTENDS FileQueue

MCSizes == {1, 3}
=============================================================================
