-------------------------------- MODULE Uart --------------------------------
(***************************************************************************)
(* drivers/uart.c: _putchar stores a character in tx_buffer, the transmit  *)
(* interrupt takes it out once the hardware has moved it to its shift      *)
(* register.  The oldest stored character is the one in UCA0TXBUF.  Every  *)
(* access to the hardware or the buffer is a step of its own; the          *)
(* interrupt handler runs to its end before _putchar goes on, the hardware *)
(* never waits.                                                            *)
(***************************************************************************)
EXTENDS Buffers

CONSTANTS
    Chars,          \* what is printed; "LF" is the line feed
    BufferSize      \* UART_BUFFER_SIZE, 16 in the code

ASSUME BufferSizeAssumption == BufferSize \in 1 .. 255
ASSUME CharsAssumption == Chars \subseteq STRING \ {"none", "garbage"}

VARIABLES
    pc,             \* where _putchar is
    cur, rest,      \* its character, and those it still has to store
    tx_ongoing,     \* its local of that name
    isr,            \* where isr_uart_tx is
    tx_buffer,      \* the ring buffer
    ie,             \* UCA0TXIE: the transmit interrupt is enabled
    ifg,            \* UCA0TXIFG: UCA0TXBUF may be written
    txbuf,          \* UCA0TXBUF
    shifting,       \* the shift register is busy
    wire            \* the character that went into the shift register last

vars == <<pc, cur, rest, tx_ongoing, isr, tx_buffer, ie, ifg, txbuf, shifting, wire>>
mainVars == <<pc, cur, rest, tx_ongoing>>
hardware == <<txbuf, shifting, wire>>

NoChar == "none"
Garbage == "garbage"            \* what an empty buffer hands out
Stored == Chars \cup {"CR"}

TypeOK ==
    /\ pc \in {"idle", "poll", "disable", "check", "put", "start", "enable"}
    /\ cur \in Stored \cup {NoChar}
    /\ rest \in {<<>>, <<"LF">>}
    /\ tx_ongoing \in BOOLEAN
    /\ isr \in {"none", "clear", "start"}
    /\ tx_buffer \in Seq(Stored) /\ Len(tx_buffer) <= BufferSize
    /\ ie \in BOOLEAN
    /\ ifg \in BOOLEAN
    /\ txbuf \in Stored \cup {NoChar}
    /\ shifting \in BOOLEAN
    /\ wire \in Stored \cup {NoChar}

-----------------------------------------------------------------------------
(* uart_init has run. *)
Init ==
    /\ pc = "idle" /\ cur = NoChar /\ rest = <<>> /\ tx_ongoing = FALSE
    /\ isr = "none"
    /\ tx_buffer = <<>>
    /\ ie = TRUE
    /\ ifg = FALSE
    /\ txbuf = NoChar
    /\ shifting = FALSE
    /\ wire = NoChar

(* Writing UCA0TXBUF resets the flag. *)
WriteTxbuf(c) ==
    /\ txbuf' = c
    /\ ifg' = FALSE
    /\ UNCHANGED <<shifting, wire>>

-----------------------------------------------------------------------------
(* _putchar *)
Main == isr = "none"

Goto(from, to) == Main /\ pc = from /\ pc' = to

(* Mutant: a line feed is stored as it is. *)
Putchar_NoCr(c) ==
    /\ Goto("idle", "poll")
    /\ cur' = c
    /\ rest' = <<>>
    /\ UNCHANGED <<tx_ongoing, isr, tx_buffer, ie, ifg, hardware>>

(* "Some terminals expect carriage return" *)
Putchar(c) ==
    /\ Goto("idle", "poll")
    /\ cur' = IF c = "LF" THEN "CR" ELSE c
    /\ rest' = IF c = "LF" THEN <<"LF">> ELSE <<>>
    /\ UNCHANGED <<tx_ongoing, isr, tx_buffer, ie, ifg, hardware>>

IsFull == Len(tx_buffer) = BufferSize

(* "Poll if full" *)
PollAgain == Main /\ pc = "poll" /\ IsFull /\ UNCHANGED vars

PollDone ==
    /\ Goto("poll", "disable")
    /\ ~IsFull
    /\ UNCHANGED <<cur, rest, tx_ongoing, isr, tx_buffer, ie, ifg, hardware>>

(* Mutant: the interrupt stays enabled. *)
DisableInterrupt_Not ==
    /\ Goto("disable", "check")
    /\ UNCHANGED <<cur, rest, tx_ongoing, isr, tx_buffer, ie, ifg, hardware>>

DisableInterrupt ==
    /\ Goto("disable", "check")
    /\ ie' = FALSE
    /\ UNCHANGED <<cur, rest, tx_ongoing, isr, tx_buffer, ifg, hardware>>

CheckOngoing ==
    /\ Goto("check", "put")
    /\ tx_ongoing' = (tx_buffer # <<>>)
    /\ UNCHANGED <<cur, rest, isr, tx_buffer, ie, ifg, hardware>>

(* Mutant: every character starts a transmission. *)
Put_AlwaysStarts ==
    /\ Goto("put", "start")
    /\ tx_buffer' = BufferPut(tx_buffer, cur, BufferSize)
    /\ UNCHANGED <<cur, rest, tx_ongoing, isr, ie, ifg, hardware>>

Put ==
    /\ Goto("put", IF tx_ongoing THEN "enable" ELSE "start")
    /\ tx_buffer' = BufferPut(tx_buffer, cur, BufferSize)
    /\ UNCHANGED <<cur, rest, tx_ongoing, isr, ie, ifg, hardware>>

(* uart_tx_start *)
Start ==
    /\ Goto("start", "enable")
    /\ WriteTxbuf(Head(tx_buffer))
    /\ UNCHANGED <<cur, rest, tx_ongoing, isr, tx_buffer, ie>>

(* The end of _putchar, or of its recursive call. *)
EnableInterrupt ==
    /\ Goto("enable", IF rest = <<>> THEN "idle" ELSE "poll")
    /\ cur' = IF rest = <<>> THEN NoChar ELSE Head(rest)
    /\ rest' = <<>>
    /\ ie' = TRUE
    /\ UNCHANGED <<tx_ongoing, isr, tx_buffer, ifg, hardware>>

-----------------------------------------------------------------------------
(* isr_uart_tx *)

(* ring_buffer_get does not ask whether there is anything to get.          *)
AfterGet(q) == IF q = <<>> THEN [i \in 1 .. BufferSize - 1 |-> Garbage] ELSE Tail(q)

IsrGet ==
    /\ isr = "none" /\ ie /\ ifg
    /\ tx_buffer' = AfterGet(tx_buffer)
    /\ isr' = "clear"
    /\ UNCHANGED <<mainVars, ie, ifg, hardware>>

(* Mutant: the flag is not cleared, so an idle transmitter interrupts again. *)
IsrClear_Not ==
    /\ isr = "clear"
    /\ isr' = IF tx_buffer = <<>> THEN "none" ELSE "start"
    /\ UNCHANGED <<mainVars, tx_buffer, ie, ifg, hardware>>

IsrClear ==
    /\ isr = "clear"
    /\ ifg' = FALSE
    /\ isr' = IF tx_buffer = <<>> THEN "none" ELSE "start"
    /\ UNCHANGED <<mainVars, tx_buffer, ie, hardware>>

IsrStart ==
    /\ isr = "start"
    /\ isr' = "none"
    /\ WriteTxbuf(Head(tx_buffer))
    /\ UNCHANGED <<mainVars, tx_buffer, ie>>

-----------------------------------------------------------------------------
(* The transmitter: UCA0TXBUF moves to a free shift register, which raises *)
(* the flag; the shift register empties bit by bit.                        *)
LoadShift ==
    /\ txbuf # NoChar /\ ~shifting
    /\ shifting' = TRUE
    /\ wire' = txbuf
    /\ txbuf' = NoChar
    /\ ifg' = TRUE
    /\ UNCHANGED <<mainVars, isr, tx_buffer, ie>>

ShiftOut ==
    /\ shifting
    /\ shifting' = FALSE
    /\ UNCHANGED <<mainVars, isr, tx_buffer, ie, ifg, txbuf, wire>>

-----------------------------------------------------------------------------
Running ==
    \/ PollDone \/ DisableInterrupt \/ CheckOngoing \/ Put \/ Start
    \/ EnableInterrupt

Isr == IsrGet \/ IsrClear \/ IsrStart

Transmitter == LoadShift \/ ShiftOut

Next == (\E c \in Chars : Putchar(c)) \/ PollAgain \/ Running \/ Isr \/ Transmitter

(* The processor and the transmitter never stop. *)
Spec ==
    /\ Init /\ [][Next]_vars
    /\ WF_vars(Running) /\ WF_vars(Isr) /\ WF_vars(Transmitter)

-----------------------------------------------------------------------------
(* The oldest stored character has left UCA0TXBUF, but the interrupt that  *)
(* takes it out of the buffer has not run yet.                             *)
HeadIsOnWire ==
    tx_buffer # <<>> /\ txbuf = NoChar /\ pc # "start" /\ isr = "none"

Pending == IF HeadIsOnWire THEN Tail(tx_buffer) ELSE tx_buffer

Channel == INSTANCE UartChannel WITH
    Accepted <- Stored, Capacity <- BufferSize, Silence <- NoChar, pending <- Pending

(* Whatever the interrupt and _putchar interleave, every stored character  *)
(* goes onto the wire once and in order (uart.c:57-69, 118-127).           *)
ImplementsChannel == Channel!Spec

(* The interrupt only ever comes for a stored character: a get from the    *)
(* empty buffer would move the tail past the head and send old characters  *)
(* (uart.c:61; ring_buffer.c:22-37 has no check).                          *)
InterruptHasCharacter == isr = "none" /\ ie /\ ifg => tx_buffer # <<>>

(* While characters are stored something will send the next one: it is in  *)
(* UCA0TXBUF, the interrupt is due or running, or _putchar is about to     *)
(* start.  Were the buffer drained between the look at it and the put,     *)
(* the character put would lie there for good (uart.c:57-69, 118-127).     *)
NoCharacterStuck ==
    tx_buffer # <<>> => txbuf # NoChar \/ ifg \/ isr # "none" \/ pc = "start"

(* No stored character is stuck, and a full buffer does not hold up        *)
(* printf forever (uart.c:119, 122-127).                                   *)
CharactersGetOut ==
    /\ \A n \in 1 .. BufferSize : Len(tx_buffer) = n ~> Len(tx_buffer) # n
    /\ pc = "poll" ~> pc # "poll"

(* On the wire every line feed follows its carriage return                 *)
(* (uart.c:113-116).                                                       *)
CrBeforeLf == [][~shifting /\ shifting' /\ wire' = "LF" => wire = "CR"]_vars
=============================================================================
