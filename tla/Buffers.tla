------------------------------- MODULE Buffers -------------------------------
(***************************************************************************)
(* A ring buffer as its users see it: a sequence, oldest element first.    *)
(* RingBuffer_proofs shows that common/ring_buffer.c implements it.        *)
(***************************************************************************)
EXTENDS Naturals, Sequences

(* Mutant: a full buffer grows. *)
BufferPut_Grows(q, e, size) == Append(q, e)

(* ring_buffer_put: the oldest element makes room when the buffer is full. *)
BufferPut(q, e, size) == Append(IF Len(q) = size THEN Tail(q) ELSE q, e)
=============================================================================
