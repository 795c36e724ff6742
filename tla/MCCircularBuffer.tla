-------------------------- MODULE MCCircularBuffer --------------------------
(* Model checking of the circular buffer on its own.                       *)
EXTENDS CircularBufferSpec
=============================================================================
