----------------------------- MODULE MCBufferUse -----------------------------
(* A buffer of up to four cells and two values.                             *)
EXTENDS BufferUse
=============================================================================
