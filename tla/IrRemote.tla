------------------------------ MODULE IrRemote ------------------------------
(***************************************************************************)
(* drivers/ir_remote_ta1.c: the capture interrupt measures the time        *)
(* between two falling edges of the infrared receiver and ir_parse decodes *)
(* NEC frames from these durations.  A frame is a leader and four bytes,   *)
(* least significant bit first: address, its inverse, command, its         *)
(* inverse.  The main loop fetches the commands from a ring buffer.        *)
(***************************************************************************)
EXTENDS TimerA1, Buffers, Integers, FiniteSets

CONSTANTS
    ByteBits,       \* bits of a byte, 8 in the code
    Gaps,           \* the true times between two edges, in ticks
    IrBufferSize    \* IR_CMD_BUFFER_ELEM_CNT, 10 in the code

ASSUME ByteAssumption == ByteBits \in Nat \ {0}
ASSUME GapsAssumption == Gaps \subseteq Nat
ASSUME BufferAssumption == IrBufferSize \in Nat \ {0}

VARIABLES
    rx,             \* bit_count, byte_bit_count, current_byte
    ir_message,     \* the bytes of the message
    ir_cmd_buffer,  \* the ring buffer of commands, oldest first
    gap,            \* the true time before the last edge
    bits,           \* history: the bits since the message began
    glitched        \* history: the bytes in which an edge was no bit

irVars == <<rx, ir_message, ir_cmd_buffer, gap, bits, glitched>>

(* A byte is its bits, the least significant one first. *)
Bytes == [1 .. ByteBits -> {0, 1}]
MessageBits == 4 * ByteBits
ByteNames == <<"addr", "addr_inverted", "cmd", "cmd_inverted">>
Messages == [{ByteNames[i] : i \in 1 .. 4} -> Bytes]

IrTypeOK ==
    /\ rx \in [bit_count : 0 .. MessageBits - 1, byte_bit_count : 0 .. ByteBits - 1,
               current_byte : Bytes]
    /\ ir_message \in Messages
    /\ ir_cmd_buffer \in Seq(Bytes) /\ Len(ir_cmd_buffer) <= IrBufferSize
    /\ gap \in Gaps \cup {0}
    /\ bits \in Seq({0, 1}) /\ Len(bits) < MessageBits
    /\ glitched \subseteq 1 .. 4

-----------------------------------------------------------------------------
(* 25 percent below the nominal 9 ms, 1.68 ms and 0.56 ms, at 2 ticks/us.  *)
LEADER_MIN == 13500
BIT_1_MIN == 2520
BIT_0_MIN == 840

IsLeader(dur) == dur > LEADER_MIN
IsOne(dur) == dur > BIT_1_MIN /\ ~IsLeader(dur)
IsZero(dur) == dur > BIT_0_MIN /\ ~IsOne(dur) /\ ~IsLeader(dur)
IsBit(dur) == IsOne(dur) \/ IsZero(dur)

ZeroByte == [i \in 1 .. ByteBits |-> 0]
EmptyRx == [bit_count |-> 0, byte_bit_count |-> 0, current_byte |-> ZeroByte]
EmptyMessage == [n \in {ByteNames[i] : i \in 1 .. 4} |-> ZeroByte]

IrInit ==
    /\ rx = EmptyRx
    /\ ir_message = EmptyMessage
    /\ ir_cmd_buffer = <<>>
    /\ gap = 0
    /\ bits = <<>>
    /\ glitched = {}

BitOf(dur) == IF IsOne(dur) THEN 1 ELSE 0

(* Mutant: the most significant bit first. *)
Shifted_MsbFirst(byte, dur) ==
    [i \in 1 .. ByteBits |-> IF i = 1 THEN BitOf(dur) ELSE byte[i - 1]]

(* "NEC sends LSB first within each byte": the byte is shifted right on    *)
(* every edge, and a bit enters at the top; an edge that is no bit leaves  *)
(* a zero there.                                                           *)
Shifted(byte, dur) ==
    [i \in 1 .. ByteBits |-> IF i = ByteBits THEN BitOf(dur) ELSE byte[i + 1]]

(* Mutant: an edge that is no bit still counts. *)
Counted_All(n, dur) == n + 1

Counted(n, dur) == IF IsBit(dur) THEN n + 1 ELSE n

(* Mutant: the inverse of the command is not looked at. *)
ChecksumOk_Always(msg) == TRUE

ChecksumOk(msg) == \A i \in 1 .. ByteBits : msg.cmd[i] # msg.cmd_inverted[i]

(* ir_parse: "start of new message" *)
ParseLeader ==
    /\ rx' = EmptyRx
    /\ ir_message' = EmptyMessage
    /\ bits' = <<>>
    /\ glitched' = {}
    /\ UNCHANGED ir_cmd_buffer

HistoryOf(dur) ==
    /\ bits' = IF IsBit(dur) THEN Append(bits, BitOf(dur)) ELSE bits
    /\ glitched' = IF IsBit(dur) THEN glitched
                   ELSE glitched \cup {rx.bit_count \div ByteBits + 1}

(* ir_parse: an edge inside a byte. *)
ParseBit(dur) ==
    /\ Counted(rx.byte_bit_count, dur) # ByteBits
    /\ rx' = [bit_count      |-> Counted(rx.bit_count, dur),
              byte_bit_count |-> Counted(rx.byte_bit_count, dur),
              current_byte   |-> Shifted(rx.current_byte, dur)]
    /\ HistoryOf(dur)
    /\ UNCHANGED <<ir_message, ir_cmd_buffer>>

(* ir_parse: the edge that completes a byte.                               *)
Completed(dur) == Counted(rx.bit_count, dur) \div ByteBits

StoreByte(dur) ==
    ir_message' = [ir_message EXCEPT ![ByteNames[Completed(dur)]] =
                                        Shifted(rx.current_byte, dur)]

ParseByte(dur) ==
    /\ Counted(rx.byte_bit_count, dur) = ByteBits
    /\ Completed(dur) < 4
    /\ StoreByte(dur)
    /\ rx' = [EmptyRx EXCEPT !.bit_count = Counted(rx.bit_count, dur)]
    /\ HistoryOf(dur)
    /\ UNCHANGED ir_cmd_buffer

(* Mutant: the bit counter keeps running after a message. *)
ParseMessage_KeepsCount(dur) ==
    /\ Counted(rx.byte_bit_count, dur) = ByteBits
    /\ Completed(dur) = 4
    /\ StoreByte(dur)
    /\ ir_cmd_buffer' = IF ChecksumOk(ir_message')
                        THEN BufferPut(ir_cmd_buffer, ir_message'.cmd, IrBufferSize)
                        ELSE ir_cmd_buffer
    /\ rx' = [EmptyRx EXCEPT !.bit_count = MessageBits]
    /\ bits' = <<>>
    /\ glitched' = {}

(* ir_parse: the edge that completes a message.  "Validate NEC checksum"   *)
ParseMessage(dur) ==
    /\ Counted(rx.byte_bit_count, dur) = ByteBits
    /\ Completed(dur) = 4
    /\ StoreByte(dur)
    /\ ir_cmd_buffer' = IF ChecksumOk(ir_message')
                        THEN BufferPut(ir_cmd_buffer, ir_message'.cmd, IrBufferSize)
                        ELSE ir_cmd_buffer
    /\ rx' = EmptyRx
    /\ bits' = <<>>
    /\ glitched' = {}

(* isr_timer1_a1: the difference of two captures of a counter that wraps:  *)
(* a pause of more than one turn is measured modulo the turn.              *)
(* The code drops an edge when bit_count has reached 32; IrTypeOK shows    *)
(* that it never does, so Edge has no branch for it.                       *)
Duration(g) == g % TimerRange

Edge(g) ==
    /\ gap' = g
    /\ \/ IsLeader(Duration(g)) /\ ParseLeader
       \/ /\ ~IsLeader(Duration(g))
          /\ rx.bit_count < MessageBits
          /\ ParseBit(Duration(g)) \/ ParseByte(Duration(g)) \/ ParseMessage(Duration(g))

(* ir_remote_get_cmd_ta1, with the interrupts disabled. *)
GetCmd ==
    /\ ir_cmd_buffer # <<>>
    /\ ir_cmd_buffer' = Tail(ir_cmd_buffer)
    /\ UNCHANGED <<rx, ir_message, gap, bits, glitched>>

IrNext == GetCmd \/ \E g \in Gaps : Edge(g)

IrSpec == IrInit /\ [][IrNext]_irVars

-----------------------------------------------------------------------------
(* The n-th byte of a sequence of bits. *)
ByteOf(bs, n) == [i \in 1 .. ByteBits |-> bs[(n - 1) * ByteBits + i]]

(* The step receives the last bit of a message; these are all its bits.    *)
LastBitComes == Len(bits) = MessageBits - 1 /\ IsBit(Duration(gap')) /\ bits' = <<>>
AllBits == Append(bits, BitOf(Duration(gap')))
Complementary == \A i \in 1 .. ByteBits : ByteOf(AllBits, 3)[i] # ByteOf(AllBits, 4)[i]

(* Edges that are no bits shift the byte all the same and corrupt it, but  *)
(* however many there are, they never turn the frame of a remote into      *)
(* another command that passes the checksum (ir_remote_ta1.c:77-91,        *)
(* 109-111).                                                               *)
GlitchesForgeNothing ==
    [][/\ ir_cmd_buffer' # ir_cmd_buffer /\ ~GetCmd => LastBitComes
       /\ LastBitComes /\ Complementary => ir_cmd_buffer' \in
            {ir_cmd_buffer, BufferPut(ir_cmd_buffer, ByteOf(AllBits, 3), IrBufferSize)}]_irVars

(* Whatever was received before its leader, long pauses that measure like  *)
(* a bit included, a frame whose command bytes are clean is decoded        *)
(* (ir_remote_ta1.c:70-76, 94-119, 232).                                   *)
CleanFrameIsStored ==
    [][LastBitComes /\ Complementary /\ glitched \cap {3, 4} = {}
        => ir_cmd_buffer' = BufferPut(ir_cmd_buffer, ByteOf(AllBits, 3), IrBufferSize)]_irVars

(* The two counters of ir_parse and the bits received never drift apart,   *)
(* so that a byte is never put in the place of another                     *)
(* (ir_remote_ta1.c:83-119).                                               *)
CountersAgree ==
    /\ rx.bit_count = Len(bits)
    /\ rx.byte_bit_count = rx.bit_count % ByteBits
=============================================================================
