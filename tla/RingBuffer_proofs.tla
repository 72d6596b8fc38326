-------------------------- MODULE RingBuffer_proofs --------------------------
(***************************************************************************)
(* Proofs about common/ring_buffer.c for every buffer size and element     *)
(* set: the indices stay in range, the full flag is honest, and the        *)
(* head/tail/full encoding implements a queue that drops its oldest        *)
(* element.                                                                *)
(***************************************************************************)
EXTENDS RingBuffer, SequenceTheorems, TLAPS

(* The inductive invariant: types, and the flag tied to the indices. *)
Inv == TypeOK /\ FullMeansIndicesMeet

Buffers == [buffer : [Indices -> Elements], head_idx : Indices,
            tail_idx : Indices, full : BOOLEAN]

(* A buffer in an encoding the code can produce. *)
WellFormed(r) == r \in Buffers /\ (r.full => r.head_idx = r.tail_idx)

-----------------------------------------------------------------------------
(* Advancing an index keeps it inside the storage. *)
LEMMA AdvanceType ==
    ASSUME NEW i \in Indices
    PROVE  Advance(i) \in Indices
  BY BufferSizeAssumption, SMT DEF Advance, Indices

(* Removing the oldest element of a non-empty buffer keeps the encoding. *)
LEMMA AfterGetWellFormed ==
    ASSUME NEW r, WellFormed(r), ~IsEmpty(r)
    PROVE  /\ WellFormed(AfterGet(r))
           /\ AfterGet(r).buffer = r.buffer
           /\ AfterGet(r).head_idx = r.head_idx
           /\ AfterGet(r).tail_idx = Advance(r.tail_idx)
           /\ AfterGet(r).full = FALSE
  BY AdvanceType DEF WellFormed, Buffers, AfterGet, IsEmpty

(* What room there is after MakeRoom. *)
LEMMA MakeRoomWellFormed ==
    ASSUME NEW r, WellFormed(r)
    PROVE  /\ WellFormed(MakeRoom(r))
           /\ MakeRoom(r).full = FALSE
           /\ MakeRoom(r).buffer = r.buffer
           /\ MakeRoom(r).head_idx = r.head_idx
           /\ MakeRoom(r).tail_idx = IF r.full THEN Advance(r.tail_idx) ELSE r.tail_idx
  <1>1. CASE r.full
    BY <1>1, AfterGetWellFormed DEF MakeRoom, IsEmpty
  <1>2. CASE ~r.full
    BY <1>2 DEF MakeRoom, WellFormed, Buffers
  <1> QED BY <1>1, <1>2

(* The fields of the buffer after a put. *)
LEMMA AfterPutWellFormed ==
    ASSUME NEW r, WellFormed(r), NEW e \in Elements
    PROVE  /\ WellFormed(AfterPut(r, e))
           /\ AfterPut(r, e).buffer = [r.buffer EXCEPT ![r.head_idx] = e]
           /\ AfterPut(r, e).head_idx = Advance(r.head_idx)
           /\ AfterPut(r, e).tail_idx = MakeRoom(r).tail_idx
           /\ AfterPut(r, e).full <=> Advance(r.head_idx) = MakeRoom(r).tail_idx
  <1> DEFINE room == MakeRoom(r)
  <1>1. /\ room \in Buffers
        /\ room.full = FALSE
        /\ room.buffer = r.buffer
        /\ room.head_idx = r.head_idx
    BY MakeRoomWellFormed DEF WellFormed
  <1>2. Advance(room.head_idx) \in Indices
    BY <1>1, AdvanceType DEF Buffers
  <1>3. AfterPut(r, e) = [room EXCEPT !.buffer[room.head_idx] = e,
                                      !.head_idx = Advance(room.head_idx),
                                      !.full = IF Advance(room.head_idx) = room.tail_idx THEN TRUE ELSE @]
    BY DEF AfterPut
  <1> HIDE DEF room
  <1>a. AfterPut(r, e) = [buffer |-> [room.buffer EXCEPT ![room.head_idx] = e],
                          head_idx |-> Advance(room.head_idx),
                          tail_idx |-> room.tail_idx,
                          full |-> IF Advance(room.head_idx) = room.tail_idx
                                   THEN TRUE ELSE FALSE]
    BY <1>1, <1>3 DEF Buffers
  <1>b. [room.buffer EXCEPT ![room.head_idx] = e] \in [Indices -> Elements]
    BY <1>1 DEF Buffers
  <1>4. /\ AfterPut(r, e) \in Buffers
        /\ AfterPut(r, e).buffer = [room.buffer EXCEPT ![room.head_idx] = e]
        /\ AfterPut(r, e).head_idx = Advance(room.head_idx)
        /\ AfterPut(r, e).tail_idx = room.tail_idx
        /\ AfterPut(r, e).full <=> Advance(room.head_idx) = room.tail_idx
    BY <1>1, <1>2, <1>a, <1>b DEF Buffers
  <1> QED BY <1>1, <1>4 DEF WellFormed, room

-----------------------------------------------------------------------------
(* The indices and the flag keep their types, and the flag is only ever    *)
(* set while the indices meet, under every sequence of calls.              *)
THEOREM InvCorrect == Spec => []Inv
  <1>1. Init => Inv
    BY BufferSizeAssumption, ElementsAssumption
    DEF Init, Inv, TypeOK, FullMeansIndicesMeet, Indices
  <1>2. Inv /\ [Next]_vars => Inv'
    <2> SUFFICES ASSUME Inv, [Next]_vars
                 PROVE  Inv'
      OBVIOUS
    <2>0. WellFormed(rb) /\ out \in Elements \cup {NoElement}
      BY DEF Inv, TypeOK, FullMeansIndicesMeet, WellFormed, Buffers
    <2>1. ASSUME NEW e \in Elements, Put(e)
          PROVE  Inv'
      BY <2>0, <2>1, AfterPutWellFormed
      DEF Put, Inv, TypeOK, FullMeansIndicesMeet, WellFormed, Buffers
    <2>2. CASE Get
      <3>1. WellFormed(rb')
        BY <2>0, <2>2, AfterGetWellFormed DEF Get
      <3>2. out' \in Elements
        BY <2>0, <2>2 DEF Get, Oldest, WellFormed, Buffers
      <3> QED BY <3>1, <3>2 DEF Inv, TypeOK, FullMeansIndicesMeet, WellFormed, Buffers
    <2>3. CASE PeekTail
      BY <2>0, <2>3
      DEF PeekTail, Oldest, Inv, TypeOK, FullMeansIndicesMeet, WellFormed, Buffers
    <2>4. ASSUME NEW offset \in Indices, PeekHead(offset)
          PROVE  Inv'
      <3>1. NewestIdx(rb, offset) \in Indices
        BY <2>0, <2>4, BufferSizeAssumption DEF NewestIdx, WellFormed, Buffers, Indices
      <3> QED BY <2>0, <2>4, <3>1
              DEF PeekHead, Inv, TypeOK, FullMeansIndicesMeet, WellFormed, Buffers
    <2>5. CASE UNCHANGED vars
      BY <2>5 DEF vars, Inv, TypeOK, FullMeansIndicesMeet
    <2> QED BY <2>1, <2>2, <2>3, <2>4, <2>5 DEF Next
  <1> QED BY <1>1, <1>2, PTL DEF Spec

(* The full flag tells full from empty (ring_buffer.c:16-19, 33-35). *)
THEOREM FullFlagCorrect == Spec => []FullMeansIndicesMeet
  <1>1. Inv => FullMeansIndicesMeet
    BY DEF Inv
  <1> QED BY <1>1, InvCorrect, PTL

(* ring_buffer_count is zero exactly for the empty buffer, for every size, *)
(* which is all the program asks of it (ring_buffer.c:56-65).              *)
THEOREM CountCorrect == Spec => []CountTellsEmpty
  <1>1. Inv => CountTellsEmpty
    BY BufferSizeAssumption
    DEF Inv, TypeOK, FullMeansIndicesMeet, CountTellsEmpty, CountCode, IsEmpty, Indices
  <1> QED BY <1>1, InvCorrect, PTL

-----------------------------------------------------------------------------
(* How many slots are occupied, and where the i-th element lies. *)
LEMMA OccupiedType ==
    ASSUME NEW r, WellFormed(r)
    PROVE  /\ Occupied(r) \in 0 .. BufferSize
           /\ Occupied(r) = BufferSize <=> r.full
           /\ Occupied(r) = 0 <=> IsEmpty(r)
           /\ \A i \in 1 .. Occupied(r) : SlotOf(r, i) \in Indices
  <1>1. /\ r.head_idx \in 0 .. BufferSize - 1 /\ r.tail_idx \in 0 .. BufferSize - 1
        /\ r.full \in BOOLEAN /\ (r.full => r.head_idx = r.tail_idx)
        /\ BufferSize \in Nat \ {0}
    BY BufferSizeAssumption DEF WellFormed, Buffers, Indices
  <1>2. /\ Occupied(r) \in 0 .. BufferSize
        /\ Occupied(r) = BufferSize <=> r.full
        /\ Occupied(r) = 0 <=> IsEmpty(r)
    BY ONLY <1>1 DEF Occupied, IsEmpty
  <1>3. \A i \in 1 .. Occupied(r) : SlotOf(r, i) \in 0 .. BufferSize - 1
    <2> TAKE i \in 1 .. Occupied(r)
    <2>1. i \in 1 .. BufferSize
      BY <1>1, <1>2
    <2> QED BY ONLY <1>1, <2>1 DEF SlotOf
  <1> QED BY <1>2, <1>3 DEF Indices

(* The contents form a sequence of that length. *)
LEMMA ContentsSeq ==
    ASSUME NEW r, WellFormed(r)
    PROVE  /\ Contents(r) \in Seq(Elements)
           /\ Len(Contents(r)) = Occupied(r)
           /\ \A i \in 1 .. Occupied(r) : Contents(r)[i] = r.buffer[SlotOf(r, i)]
  <1>1. Occupied(r) \in Nat
    BY OccupiedType, BufferSizeAssumption
  <1>2. \A i \in 1 .. Occupied(r) : r.buffer[SlotOf(r, i)] \in Elements
    BY OccupiedType DEF WellFormed, Buffers
  <1> QED BY <1>1, <1>2 DEF Contents

(* Taking the oldest element: the rest moves up by one. *)
LEMMA GetIsTail ==
    ASSUME NEW r, WellFormed(r), ~IsEmpty(r)
    PROVE  /\ Contents(r) # <<>>
           /\ Head(Contents(r)) = Oldest(r)
           /\ Contents(AfterGet(r)) = Tail(Contents(r))
  <1> DEFINE g == AfterGet(r)
  <1>1. /\ WellFormed(g)
        /\ g.buffer = r.buffer
        /\ g.head_idx = r.head_idx
        /\ g.tail_idx = Advance(r.tail_idx)
        /\ g.full = FALSE
    BY AfterGetWellFormed
  <1>2. Occupied(r) \in 1 .. BufferSize
    BY OccupiedType, BufferSizeAssumption
  <1>3. Occupied(g) = Occupied(r) - 1
    <2>1. /\ r.head_idx \in 0 .. BufferSize - 1 /\ r.tail_idx \in 0 .. BufferSize - 1
          /\ r.full => r.head_idx = r.tail_idx
          /\ r.head_idx = r.tail_idx => r.full
          /\ BufferSize \in Nat
      BY BufferSizeAssumption DEF WellFormed, Buffers, Indices, IsEmpty
    <2>2. CASE r.tail_idx + 1 = BufferSize
      <3>1. Occupied(g) = r.head_idx
        BY <1>1, <2>1, <2>2 DEF Occupied, Advance
      <3> QED BY <2>1, <2>2, <3>1 DEF Occupied
    <2>3. CASE r.tail_idx + 1 # BufferSize
      <3>1. Occupied(g) = IF r.tail_idx + 1 <= r.head_idx THEN r.head_idx - (r.tail_idx + 1)
                          ELSE r.head_idx - (r.tail_idx + 1) + BufferSize
        BY <1>1, <2>1, <2>3 DEF Occupied, Advance
      <3> QED BY <2>1, <3>1 DEF Occupied
    <2> QED BY <2>2, <2>3
  <1>4. \A i \in 1 .. Occupied(r) - 1 : SlotOf(g, i) = SlotOf(r, i + 1)
    <2> TAKE i \in 1 .. Occupied(r) - 1
    <2>1. r.tail_idx \in 0 .. BufferSize - 1 /\ BufferSize \in Nat
      BY BufferSizeAssumption DEF WellFormed, Buffers, Indices
    <2>2. i \in 1 .. BufferSize - 1
      BY <1>2, <2>1
    <2>3. g.tail_idx = IF r.tail_idx + 1 = BufferSize THEN 0 ELSE r.tail_idx + 1
      BY <1>1 DEF Advance
    <2> QED BY ONLY <2>1, <2>2, <2>3 DEF SlotOf
  <1>5. SlotOf(r, 1) = r.tail_idx
    BY BufferSizeAssumption DEF SlotOf, WellFormed, Buffers, Indices
  <1>6. /\ Contents(r) \in Seq(Elements)
        /\ Len(Contents(r)) = Occupied(r)
        /\ Contents(g) \in Seq(Elements)
        /\ Len(Contents(g)) = Occupied(g)
    BY <1>1, ContentsSeq
  <1>7. Contents(r) # <<>>
    BY <1>2, <1>6
  <1>8. Head(Contents(r)) = Oldest(r)
    <2>1. Head(Contents(r)) = Contents(r)[1]
      BY <1>6, <1>7
    <2> QED BY <2>1, <1>2, <1>5, ContentsSeq DEF Oldest
  <1>9. Contents(g) = Tail(Contents(r))
    <2>1. /\ Tail(Contents(r)) \in Seq(Elements)
          /\ Len(Tail(Contents(r))) = Occupied(r) - 1
          /\ \A i \in 1 .. Occupied(r) - 1 : Tail(Contents(r))[i] = Contents(r)[i + 1]
      BY <1>2, <1>6, <1>7, HeadTailProperties
    <2>2. \A i \in 1 .. Occupied(r) - 1 : Contents(g)[i] = Contents(r)[i + 1]
      <3> SUFFICES ASSUME NEW i \in 1 .. Occupied(r) - 1
                   PROVE  Contents(g)[i] = Contents(r)[i + 1]
        OBVIOUS
      <3>1. i \in 1 .. Occupied(g) /\ i + 1 \in 1 .. Occupied(r)
        BY <1>2, <1>3
      <3> QED BY <3>1, <1>1, <1>4, ContentsSeq
    <2> QED BY <2>1, <2>2, <1>3, <1>6, SeqEqual
  <1> QED BY <1>7, <1>8, <1>9

(* Putting into a buffer with room appends. *)
LEMMA PutIsAppend ==
    ASSUME NEW r, WellFormed(r), ~r.full, NEW e \in Elements
    PROVE  Contents(AfterPut(r, e)) = Append(Contents(r), e)
  <1> DEFINE p == AfterPut(r, e)
  <1>1. /\ WellFormed(p)
        /\ p.buffer = [r.buffer EXCEPT ![r.head_idx] = e]
        /\ p.head_idx = Advance(r.head_idx)
        /\ p.tail_idx = r.tail_idx
        /\ p.full <=> Advance(r.head_idx) = r.tail_idx
    <2>1. MakeRoom(r).tail_idx = r.tail_idx
      BY MakeRoomWellFormed
    <2> QED BY <2>1, AfterPutWellFormed
  <1> HIDE DEF p
  <1>2. Occupied(r) \in 0 .. BufferSize - 1
    BY OccupiedType, BufferSizeAssumption
  <1>3. Occupied(p) = Occupied(r) + 1
    <2>1. r.head_idx \in Indices /\ r.tail_idx \in Indices
      BY DEF WellFormed, Buffers
    <2>2. CASE Advance(r.head_idx) = r.tail_idx
      <3>1. Occupied(p) = BufferSize
        BY <1>1, <2>2 DEF Occupied
      <3>2. Occupied(r) + 1 = BufferSize
        BY <2>1, <2>2, BufferSizeAssumption DEF Occupied, Advance, Indices
      <3> QED BY <3>1, <3>2
    <2>3. CASE Advance(r.head_idx) # r.tail_idx
      <3>1. Occupied(p) = IF r.tail_idx <= Advance(r.head_idx)
                          THEN Advance(r.head_idx) - r.tail_idx
                          ELSE Advance(r.head_idx) - r.tail_idx + BufferSize
        BY <1>1, <2>3 DEF Occupied
      <3>2. Occupied(r) = IF r.tail_idx <= r.head_idx
                          THEN r.head_idx - r.tail_idx
                          ELSE r.head_idx - r.tail_idx + BufferSize
        BY DEF Occupied
      <3> QED BY <2>1, <2>3, <3>1, <3>2, BufferSizeAssumption DEF Advance, Indices
    <2> QED BY <2>2, <2>3
  <1>4. \A i \in Nat : SlotOf(p, i) = SlotOf(r, i)
    BY <1>1 DEF SlotOf
  <1>5. SlotOf(r, Occupied(r) + 1) = r.head_idx
    BY <1>2, BufferSizeAssumption, SMT
    DEF WellFormed, Buffers, Indices, SlotOf, Occupied
  <1>6. \A i \in 1 .. Occupied(r) : SlotOf(r, i) # r.head_idx
    BY <1>2, BufferSizeAssumption, SMT
    DEF WellFormed, Buffers, Indices, SlotOf, Occupied
  <1>7. /\ Contents(r) \in Seq(Elements)
        /\ Len(Contents(r)) = Occupied(r)
        /\ Contents(p) \in Seq(Elements)
        /\ Len(Contents(p)) = Occupied(r) + 1
    BY <1>1, <1>3, ContentsSeq
  <1>8. /\ Append(Contents(r), e) \in Seq(Elements)
        /\ Len(Append(Contents(r), e)) = Occupied(r) + 1
        /\ \A i \in 1 .. Occupied(r) : Append(Contents(r), e)[i] = Contents(r)[i]
        /\ Append(Contents(r), e)[Occupied(r) + 1] = e
    BY <1>7, AppendProperties
  <1>9. \A i \in 1 .. Occupied(r) + 1 : Contents(p)[i] = Append(Contents(r), e)[i]
    <2> SUFFICES ASSUME NEW i \in 1 .. Occupied(r) + 1
                 PROVE  Contents(p)[i] = Append(Contents(r), e)[i]
      OBVIOUS
    <2>1. Contents(p)[i] = p.buffer[SlotOf(r, i)]
      <3>1. i \in 1 .. Occupied(p) /\ i \in Nat
        BY <1>2, <1>3, BufferSizeAssumption
      <3>2. Contents(p)[i] = p.buffer[SlotOf(p, i)]
        BY <3>1, <1>1, ContentsSeq
      <3> QED BY <3>1, <3>2, <1>4
    <2>2. r.buffer \in [Indices -> Elements] /\ r.head_idx \in Indices
      BY DEF WellFormed, Buffers
    <2>3. CASE i = Occupied(r) + 1
      BY <2>1, <2>2, <2>3, <1>1, <1>5, <1>8
    <2>4. CASE i \in 1 .. Occupied(r)
      <3>1. SlotOf(r, i) # r.head_idx /\ SlotOf(r, i) \in Indices
        BY <2>4, <1>6, OccupiedType
      <3> QED BY <2>1, <2>2, <2>4, <3>1, <1>1, <1>8, ContentsSeq
    <2>5. i = Occupied(r) + 1 \/ i \in 1 .. Occupied(r)
      BY <1>2, BufferSizeAssumption
    <2> QED BY <2>3, <2>4, <2>5
  <1> QED BY <1>7, <1>8, <1>9, SeqEqual DEF p

(* A put on any buffer is BufferPut on its contents. *)
LEMMA PutIsBufferPut ==
    ASSUME NEW r, WellFormed(r), NEW e \in Elements
    PROVE  Contents(AfterPut(r, e)) = Fifo!BufferPut(Contents(r), e, BufferSize)
  <1>1. Len(Contents(r)) = BufferSize <=> r.full
    BY ContentsSeq, OccupiedType DEF WellFormed, Buffers
  <1>2. CASE ~r.full
    BY <1>1, <1>2, PutIsAppend DEF Fifo!BufferPut
  <1>3. CASE r.full
    <2> DEFINE g == AfterGet(r)
    <2>1. WellFormed(g) /\ ~g.full /\ Contents(g) = Tail(Contents(r))
      BY <1>3, AfterGetWellFormed, GetIsTail DEF IsEmpty
    <2>2. AfterPut(r, e) = AfterPut(g, e)
      BY <1>3, <2>1 DEF AfterPut, MakeRoom
    <2> QED BY <1>1, <1>3, <2>1, <2>2, PutIsAppend DEF Fifo!BufferPut
  <1> QED BY <1>2, <1>3

(* Peeking offset slots behind the head reads the offset-th newest. *)
LEMMA PeekHeadIsNewest ==
    ASSUME NEW r, WellFormed(r), NEW offset \in Indices, offset < Occupied(r)
    PROVE  /\ offset < Len(Contents(r))
           /\ r.buffer[NewestIdx(r, offset)] = Contents(r)[Len(Contents(r)) - offset]
  <1>1. Occupied(r) \in 1 .. BufferSize /\ Occupied(r) - offset \in 1 .. Occupied(r)
    BY OccupiedType, BufferSizeAssumption DEF Indices
  <1>2. SlotOf(r, Occupied(r) - offset) = NewestIdx(r, offset)
    <2>1. r.head_idx \in Indices /\ r.tail_idx \in Indices
          /\ (r.full => r.head_idx = r.tail_idx)
      BY DEF WellFormed, Buffers
    <2>2. CASE r.full
      BY <1>1, <2>1, <2>2, BufferSizeAssumption DEF Indices, SlotOf, Occupied, NewestIdx
    <2>3. CASE ~r.full
      BY <1>1, <2>1, <2>3, BufferSizeAssumption DEF Indices, SlotOf, Occupied, NewestIdx
    <2> QED BY <2>2, <2>3
  <1> QED BY <1>1, <1>2, ContentsSeq

(* Every sequence of calls behaves as on a queue that drops its oldest     *)
(* element when full (ring_buffer.c:4-56), for every buffer size.          *)
THEOREM Refinement == Spec => ImplementsFifo
  <1>1. Init => Fifo!Init
    <2> SUFFICES ASSUME Init
                 PROVE  Fifo!Init
      OBVIOUS
    <2>1. Occupied(rb) = 0 /\ out = NoElement
      BY DEF Init, Occupied
    <2> QED BY <2>1 DEF Fifo!Init, Contents
  <1>2. Inv /\ [Next]_vars => [Fifo!Next]_(Fifo!fifoVars)
    <2> SUFFICES ASSUME Inv, [Next]_vars
                 PROVE  [Fifo!Next]_(Fifo!fifoVars)
      OBVIOUS
    <2>0. WellFormed(rb)
      BY DEF Inv, TypeOK, FullMeansIndicesMeet, WellFormed, Buffers
    <2>1. ASSUME NEW e \in Elements, Put(e)
          PROVE  Fifo!Put(e)
      BY <2>0, <2>1, PutIsBufferPut DEF Put, Fifo!Put
    <2>2. ASSUME Get
          PROVE  Fifo!Get
      BY <2>0, <2>2, GetIsTail DEF Get, Fifo!Get
    <2>3. ASSUME PeekTail
          PROVE  Fifo!PeekTail
      BY <2>0, <2>3, GetIsTail DEF PeekTail, Fifo!PeekTail
    <2>4. ASSUME NEW offset \in Indices, PeekHead(offset)
          PROVE  Fifo!PeekHead(offset)
      BY <2>0, <2>4, PeekHeadIsNewest DEF PeekHead, Fifo!PeekHead
    <2>5. CASE UNCHANGED vars
      BY <2>5 DEF vars, Fifo!fifoVars, Contents, Occupied, SlotOf
    <2> QED BY <2>1, <2>2, <2>3, <2>4, <2>5 DEF Next, Fifo!Next, Indices
  <1> QED BY <1>1, <1>2, InvCorrect, PTL DEF Spec, ImplementsFifo, Fifo!Spec
=============================================================================
