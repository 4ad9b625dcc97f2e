--------------------------- MODULE MCBufferRelease ---------------------------
(* BufferRelease for TLC *)
EXTENDS BufferRelease
=============================================================================
