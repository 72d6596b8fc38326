--------------------------- MODULE DropOldestFifo ---------------------------
(***************************************************************************)
(* What common/ring_buffer.c promises its users: a bounded FIFO in which   *)
(* putting into a full buffer silently drops the oldest element.           *)
(***************************************************************************)
EXTENDS Buffers

CONSTANTS
    Elements,       \* what is stored
    BufferSize,     \* struct ring_buffer.buffer_size
    NoElement       \* the value of out before anything was read

VARIABLES
    queue,          \* the stored elements, oldest first
    out             \* the element the last get or peek handed to its caller

fifoVars == <<queue, out>>

Init == queue = <<>> /\ out = NoElement

Put(e) ==
    /\ queue' = BufferPut(queue, e, BufferSize)
    /\ UNCHANGED out

(* Every caller of ring_buffer_get asks ring_buffer_empty first. *)
Get ==
    /\ queue # <<>>
    /\ out' = Head(queue)
    /\ queue' = Tail(queue)

PeekTail ==
    /\ queue # <<>>
    /\ out' = Head(queue)
    /\ UNCHANGED queue

PeekHead(offset) ==
    /\ offset < Len(queue)
    /\ out' = queue[Len(queue) - offset]
    /\ UNCHANGED queue

Next ==
    \/ \E e \in Elements : Put(e)
    \/ Get
    \/ PeekTail
    \/ \E offset \in 0 .. BufferSize - 1 : PeekHead(offset)

Spec == Init /\ [][Next]_fifoVars
=============================================================================
