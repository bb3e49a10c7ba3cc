-------------------------- MODULE MCCircularBuffer --------------------------
(* circular_buffer with a ring of three slots: every position of the two
   pointers, wrapped and not, with every content over two items. *)
EXTENDS CircularBufferSpec
CONSTANTS a, b
MCItem == {a, b}
=============================================================================
