----------------------------- MODULE RingBuffer -----------------------------
(***************************************************************************)
(* common/ring_buffer.c: a circular buffer kept as a head index, a tail    *)
(* index and a full flag (head = tail both when empty and when full).  The *)
(* actions are the calls of its users (drivers/uart.c,                     *)
(* drivers/ir_remote_ta1.c, app/input_history.c), each of which runs with  *)
(* interrupts disabled or from one context only, so a call is one step.    *)
(***************************************************************************)
EXTENDS Integers, Sequences

CONSTANTS
    Elements,       \* what is stored (elem_size bytes each)
    BufferSize,     \* buffer_size, a uint8_t
    ZeroElement,    \* what RING_BUFFER() zero-fills the storage with
    NoElement       \* the value of out before anything was read

ASSUME BufferSizeAssumption == BufferSize \in 1 .. 255
ASSUME ElementsAssumption == ZeroElement \in Elements /\ NoElement \notin Elements

VARIABLES
    rb,             \* the struct ring_buffer
    out             \* the element the last get or peek handed to its caller

vars == <<rb, out>>

Indices == 0 .. BufferSize - 1

TypeOK ==
    /\ rb \in [buffer : [Indices -> Elements], head_idx : Indices,
               tail_idx : Indices, full : BOOLEAN]
    /\ out \in Elements \cup {NoElement}

-----------------------------------------------------------------------------
(* Mutant: the index is never wrapped. *)
Advance_NoWrap(idx) == idx + 1

(* "Avoid expensive modulo operation" *)
Advance(idx) == IF idx + 1 = BufferSize THEN 0 ELSE idx + 1

IsEmpty(r) == ~r.full /\ r.head_idx = r.tail_idx
IsFull(r)  == r.full

(* ring_buffer_get: the new buffer; the element handed out is Oldest(r). *)
AfterGet(r) == [r EXCEPT !.tail_idx = Advance(@), !.full = FALSE]
Oldest(r)   == r.buffer[r.tail_idx]

(* Mutant: a put overwrites the oldest element without moving the tail. *)
MakeRoom_KeepsTail(r) == r

(* ring_buffer_put *)
MakeRoom(r) == IF r.full THEN AfterGet(r) ELSE r

AfterPut(r, e) ==
    LET room == MakeRoom(r)
        head == Advance(room.head_idx)
    IN  [room EXCEPT !.buffer[room.head_idx] = e,
                     !.head_idx = head,
                     !.full = IF head = room.tail_idx THEN TRUE ELSE @]

(* ring_buffer_peek_head *)
NewestIdx(r, offset) ==
    LET idx == r.head_idx - 1 - offset
    IN  IF idx < 0 THEN BufferSize + idx ELSE idx

(* Mutant: the full flag is forgotten. *)
CountCode_IgnoresFull(r) ==
    IF r.tail_idx <= r.head_idx THEN r.head_idx - r.tail_idx
    ELSE (BufferSize - r.tail_idx) + r.head_idx + 1

(* ring_buffer_count, with the "+ 1" of its last branch. *)
CountCode(r) ==
    IF r.full THEN BufferSize
    ELSE IF r.tail_idx <= r.head_idx THEN r.head_idx - r.tail_idx
         ELSE (BufferSize - r.tail_idx) + r.head_idx + 1

-----------------------------------------------------------------------------
Init ==
    /\ rb = [buffer |-> [i \in Indices |-> ZeroElement],
             head_idx |-> 0, tail_idx |-> 0, full |-> FALSE]
    /\ out = NoElement

Put(e) ==
    /\ rb' = AfterPut(rb, e)
    /\ UNCHANGED out

(* No bounds check inside: every caller asks ring_buffer_empty first. *)
Get ==
    /\ ~IsEmpty(rb)
    /\ out' = Oldest(rb)
    /\ rb' = AfterGet(rb)

PeekTail ==
    /\ ~IsEmpty(rb)
    /\ out' = Oldest(rb)
    /\ UNCHANGED rb

(* The elements stored between tail and head. *)
Occupied(r) ==
    IF r.full THEN BufferSize
    ELSE IF r.tail_idx <= r.head_idx THEN r.head_idx - r.tail_idx
         ELSE r.head_idx - r.tail_idx + BufferSize

PeekHead(offset) ==
    /\ offset < Occupied(rb)
    /\ out' = rb.buffer[NewestIdx(rb, offset)]
    /\ UNCHANGED rb

Next ==
    \/ \E e \in Elements : Put(e)
    \/ Get
    \/ PeekTail
    \/ \E offset \in Indices : PeekHead(offset)

Spec == Init /\ [][Next]_vars

-----------------------------------------------------------------------------
(* The refinement mapping: the occupied slots read from the tail onwards.  *)
SlotOf(r, i) ==
    IF r.tail_idx + (i - 1) < BufferSize
    THEN r.tail_idx + (i - 1)
    ELSE r.tail_idx + (i - 1) - BufferSize

Contents(r) == [i \in 1 .. Occupied(r) |-> r.buffer[SlotOf(r, i)]]

Fifo == INSTANCE DropOldestFifo WITH queue <- Contents(rb)

(* The head/tail/full encoding loses and reorders nothing: every call      *)
(* behaves as on a queue that drops its oldest element when it is full     *)
(* (ring_buffer.c:4-56).                                                   *)
ImplementsFifo == Fifo!Spec

(* The full flag tells a full buffer from an empty one: it is set only     *)
(* when the indices meet (ring_buffer.c:16-19, 33-35).                     *)
FullMeansIndicesMeet == rb.full => rb.head_idx = rb.tail_idx

(* What the program asks ring_buffer_count (input_history.c:20): it is     *)
(* zero exactly when the buffer is empty, although it is one too high once *)
(* the head has wrapped below the tail (ring_buffer.c:56-65).              *)
CountTellsEmpty == CountCode(rb) = 0 <=> IsEmpty(rb)
=============================================================================
