----------------------------- MODULE Uart_proofs -----------------------------
(***************************************************************************)
(* Proofs about drivers/uart.c, for every buffer size and every set of     *)
(* characters: the interrupt never takes a character out of the empty      *)
(* buffer, and _putchar, the interrupt and the transmitter together        *)
(* implement a channel that neither loses, repeats nor reorders.           *)
(***************************************************************************)
EXTENDS Uart, SequenceTheorems, TLAPS

(* The interrupt is disabled from the look at the buffer to the return,    *)
(* and the handler runs only while it is enabled.                          *)
CriticalSection ==
    /\ ie <=> pc \notin {"check", "put", "start", "enable"}
    /\ isr # "none" => ie

(* A character waits for room before it is stored, ...                     *)
RoomToPut == pc \in {"disable", "check", "put"} => Len(tx_buffer) < BufferSize

(* ... and what was seen of the buffer still holds when it is.             *)
OngoingIsCurrent == pc = "put" => (tx_ongoing <=> tx_buffer # <<>>)

(* A transmission is started only on an idle transmitter.                  *)
StartsWhenSilent == pc = "start" => tx_buffer # <<>> /\ txbuf = NoChar /\ ~ifg

(* What is in UCA0TXBUF is the oldest stored character.                    *)
TxbufIsOldest ==
    txbuf # NoChar => /\ isr = "none" /\ ~ifg
                      /\ tx_buffer # <<>> /\ txbuf = Head(tx_buffer)

(* A raised flag belongs to a stored character until it is taken out.      *)
FlagHasCharacter ==
    /\ isr = "none" /\ ifg => tx_buffer # <<>>
    /\ isr = "start" => tx_buffer # <<>> /\ ~ifg

(* What _putchar still has to store. *)
CharsToStore ==
    /\ pc # "idle" => cur \in Stored
    /\ rest # <<>> => rest = <<"LF">> /\ cur = "CR" /\ pc # "idle"
    /\ rest # <<>> \/ cur = "LF" => "LF" \in Chars

(* The inductive invariant. *)
Inv ==
    /\ TypeOK
    /\ CriticalSection
    /\ RoomToPut
    /\ OngoingIsCurrent
    /\ StartsWhenSilent
    /\ TxbufIsOldest
    /\ FlagHasCharacter
    /\ CharsToStore

-----------------------------------------------------------------------------
LEMMA StoredIsNoSentinel == NoChar \notin Stored /\ "LF" # NoChar /\ "CR" # NoChar
  BY CharsAssumption DEF Stored, NoChar

(* A put into a buffer with room appends. *)
LEMMA PutAppends ==
    ASSUME NEW q \in Seq(Stored), NEW c \in Stored, Len(q) < BufferSize
    PROVE  /\ BufferPut(q, c, BufferSize) = Append(q, c)
           /\ Append(q, c) \in Seq(Stored)
           /\ Len(Append(q, c)) = Len(q) + 1
           /\ Append(q, c) # <<>>
           /\ q # <<>> => Head(Append(q, c)) = Head(q) /\ Tail(Append(q, c)) = Append(Tail(q), c)
  <1>1. BufferPut(q, c, BufferSize) = Append(q, c)
    BY BufferSizeAssumption DEF BufferPut
  <1>2. /\ Append(q, c) \in Seq(Stored)
        /\ Len(Append(q, c)) = Len(q) + 1
        /\ Append(q, c) # <<>>
    OBVIOUS
  <1>3. ASSUME q # <<>>
        PROVE  Head(Append(q, c)) = Head(q) /\ Tail(Append(q, c)) = Append(Tail(q), c)
    BY <1>3
  <1> QED BY <1>1, <1>2, <1>3

LEMMA InitInv == Init => Inv
  <1> SUFFICES ASSUME Init
               PROVE  Inv
    OBVIOUS
  <1> USE DEF Init, NoChar
  <1>1. TypeOK
    <2>1. tx_buffer \in Seq(Stored) /\ Len(tx_buffer) <= BufferSize
      BY BufferSizeAssumption
    <2> QED BY <2>1 DEF TypeOK
  <1>2. CriticalSection /\ RoomToPut /\ OngoingIsCurrent /\ StartsWhenSilent
    BY DEF CriticalSection, RoomToPut, OngoingIsCurrent, StartsWhenSilent
  <1>3. TxbufIsOldest /\ FlagHasCharacter /\ CharsToStore
    BY DEF TxbufIsOldest, FlagHasCharacter, CharsToStore
  <1> QED BY <1>1, <1>2, <1>3 DEF Inv

-----------------------------------------------------------------------------
(* The steps of _putchar. *)
LEMMA PutcharInv == ASSUME NEW c \in Chars PROVE Inv /\ Putchar(c) => Inv'
  <1> SUFFICES ASSUME Inv, Putchar(c)
               PROVE  Inv'
    OBVIOUS
  <1> USE DEF Inv, Putchar, Goto, Main, hardware
  <1>1. TypeOK'
    BY DEF TypeOK, Stored
  <1>2. CriticalSection' /\ RoomToPut' /\ OngoingIsCurrent' /\ StartsWhenSilent'
    BY DEF CriticalSection, RoomToPut, OngoingIsCurrent, StartsWhenSilent
  <1>3. TxbufIsOldest' /\ FlagHasCharacter'
    BY DEF TxbufIsOldest, FlagHasCharacter
  <1>4. CharsToStore'
    BY DEF CharsToStore, Stored
  <1> QED BY <1>1, <1>2, <1>3, <1>4

LEMMA PutInv == Inv /\ Put => Inv'
  <1> SUFFICES ASSUME Inv, Put
               PROVE  Inv'
    OBVIOUS
  <1> USE DEF Inv, Put, Goto, Main, hardware
  <1>1. /\ tx_buffer \in Seq(Stored) /\ cur \in Stored /\ Len(tx_buffer) < BufferSize
        /\ tx_buffer' = BufferPut(tx_buffer, cur, BufferSize)
    BY DEF TypeOK, RoomToPut, CharsToStore
  <1>2. /\ tx_buffer' = Append(tx_buffer, cur)
        /\ tx_buffer' \in Seq(Stored)
        /\ Len(tx_buffer') = Len(tx_buffer) + 1
        /\ tx_buffer' # <<>>
        /\ tx_buffer # <<>> => Head(tx_buffer') = Head(tx_buffer)
    BY ONLY <1>1, PutAppends
  <1>3. Len(tx_buffer') <= BufferSize
    BY ONLY <1>1, <1>2, BufferSizeAssumption
  <1>4. TypeOK'
    BY <1>2, <1>3 DEF TypeOK
  <1>5. isr = "none"
    OBVIOUS
  <1>6. CriticalSection' /\ RoomToPut' /\ OngoingIsCurrent'
    BY DEF CriticalSection, RoomToPut, OngoingIsCurrent, TypeOK
  <1>7. StartsWhenSilent'
    BY <1>2, <1>5 DEF StartsWhenSilent, OngoingIsCurrent, TxbufIsOldest, FlagHasCharacter, TypeOK
  <1>8. TxbufIsOldest' /\ FlagHasCharacter'
    BY <1>2, <1>5 DEF TxbufIsOldest, FlagHasCharacter
  <1>9. CharsToStore'
    BY DEF CharsToStore
  <1> QED BY <1>4, <1>6, <1>7, <1>8, <1>9

(* The other steps of _putchar leave the buffer alone. *)
LEMMA RunningInv == Inv /\ Running => Inv'
  <1> SUFFICES ASSUME Inv, Running
               PROVE  Inv'
    OBVIOUS
  <1> USE DEF Inv, Goto, Main, hardware
  <1>1. CASE PollDone
    <2>1. Len(tx_buffer) < BufferSize
      BY <1>1, BufferSizeAssumption DEF PollDone, IsFull, TypeOK
    <2> QED BY <1>1, <2>1
            DEF PollDone, TypeOK, CriticalSection, RoomToPut, OngoingIsCurrent,
                StartsWhenSilent, TxbufIsOldest, FlagHasCharacter, CharsToStore
  <1>2. CASE DisableInterrupt
    BY <1>2 DEF DisableInterrupt, TypeOK, CriticalSection, RoomToPut, OngoingIsCurrent,
                StartsWhenSilent, TxbufIsOldest, FlagHasCharacter, CharsToStore
  <1>3. CASE CheckOngoing
    BY <1>3 DEF CheckOngoing, TypeOK, CriticalSection, RoomToPut, OngoingIsCurrent,
                StartsWhenSilent, TxbufIsOldest, FlagHasCharacter, CharsToStore
  <1>4. CASE Put
    BY <1>4, PutInv
  <1>5. CASE Start
    <2>1. txbuf' = Head(tx_buffer) /\ Head(tx_buffer) \in Stored
      BY <1>5 DEF Start, WriteTxbuf, StartsWhenSilent, TypeOK
    <2> QED BY <1>5, <2>1
            DEF Start, WriteTxbuf, TypeOK, CriticalSection, RoomToPut, OngoingIsCurrent,
                StartsWhenSilent, TxbufIsOldest, FlagHasCharacter, CharsToStore
  <1>6. CASE EnableInterrupt
    <2> USE <1>6 DEF EnableInterrupt
    <2>1. CASE rest = <<>>
      BY <2>1 DEF TypeOK, CriticalSection, RoomToPut, OngoingIsCurrent, NoChar,
                  StartsWhenSilent, TxbufIsOldest, FlagHasCharacter, CharsToStore
    <2>2. CASE rest # <<>>
      <3>1. cur' = "LF" /\ cur' \in Stored
        BY <2>2 DEF CharsToStore, Stored
      <3> QED BY <2>2, <3>1
              DEF TypeOK, CriticalSection, RoomToPut, OngoingIsCurrent,
                  StartsWhenSilent, TxbufIsOldest, FlagHasCharacter, CharsToStore
    <2> QED BY <2>1, <2>2
  <1> QED BY <1>1, <1>2, <1>3, <1>4, <1>5, <1>6 DEF Running

-----------------------------------------------------------------------------
(* The steps of the interrupt handler.  A get finds a character.           *)
LEMMA IsrInv == Inv /\ Isr => Inv'
  <1> SUFFICES ASSUME Inv, Isr
               PROVE  Inv'
    OBVIOUS
  <1> USE DEF Inv, mainVars, hardware
  <1>1. CASE IsrGet
    <2>1. tx_buffer # <<>> /\ tx_buffer \in Seq(Stored) /\ txbuf = NoChar
      BY <1>1 DEF IsrGet, FlagHasCharacter, TxbufIsOldest, TypeOK
    <2>2. tx_buffer' = Tail(tx_buffer)
      BY <1>1, <2>1 DEF IsrGet, AfterGet
    <2>3. tx_buffer' \in Seq(Stored) /\ Len(tx_buffer') = Len(tx_buffer) - 1
      BY <2>1, <2>2, HeadTailProperties
    <2>4. Len(tx_buffer') < BufferSize
      BY <2>1, <2>3, BufferSizeAssumption, LenProperties DEF TypeOK
    <2>5. TypeOK'
      BY <1>1, <2>3, <2>4, BufferSizeAssumption DEF IsrGet, TypeOK
    <2>6. pc \notin {"put", "start"}
      BY <1>1 DEF IsrGet, CriticalSection
    <2> QED BY <1>1, <2>1, <2>4, <2>5, <2>6
            DEF IsrGet, CriticalSection, RoomToPut, OngoingIsCurrent,
                StartsWhenSilent, TxbufIsOldest, FlagHasCharacter, CharsToStore
  <1>2. CASE IsrClear
    BY <1>2 DEF IsrClear, TypeOK, CriticalSection, RoomToPut, OngoingIsCurrent,
                StartsWhenSilent, TxbufIsOldest, FlagHasCharacter, CharsToStore
  <1>3. CASE IsrStart
    <2>1. txbuf' = Head(tx_buffer) /\ Head(tx_buffer) \in Stored
      BY <1>3 DEF IsrStart, WriteTxbuf, FlagHasCharacter, TypeOK
    <2> QED BY <1>3, <2>1
            DEF IsrStart, WriteTxbuf, TypeOK, CriticalSection, RoomToPut, OngoingIsCurrent,
                StartsWhenSilent, TxbufIsOldest, FlagHasCharacter, CharsToStore
  <1> QED BY <1>1, <1>2, <1>3 DEF Isr

(* The steps of the transmitter. *)
LEMMA TransmitterInv == Inv /\ Transmitter => Inv'
  <1> SUFFICES ASSUME Inv, Transmitter
               PROVE  Inv'
    OBVIOUS
  <1> USE DEF Inv, mainVars
  <1>1. CASE LoadShift
    <2>1. /\ txbuf # NoChar /\ txbuf \in Stored /\ wire' = txbuf
          /\ shifting' = TRUE /\ txbuf' = NoChar /\ ifg' = TRUE
          /\ UNCHANGED <<pc, cur, rest, tx_ongoing, isr, tx_buffer, ie>>
      BY <1>1 DEF LoadShift, TypeOK
    <2>2. TypeOK'
      BY <2>1 DEF TypeOK
    <2>3. CriticalSection' /\ RoomToPut' /\ OngoingIsCurrent' /\ CharsToStore'
      BY <2>1 DEF CriticalSection, RoomToPut, OngoingIsCurrent, CharsToStore
    <2>4. tx_buffer # <<>> /\ pc # "start" /\ isr = "none"
      BY <2>1 DEF TxbufIsOldest, StartsWhenSilent
    <2>5. StartsWhenSilent' /\ TxbufIsOldest' /\ FlagHasCharacter'
      BY <2>1, <2>4 DEF StartsWhenSilent, TxbufIsOldest, FlagHasCharacter
    <2> QED BY <2>2, <2>3, <2>5
  <1>2. CASE ShiftOut
    <2>1. shifting' = FALSE
          /\ UNCHANGED <<pc, cur, rest, tx_ongoing, isr, tx_buffer, ie, ifg, txbuf, wire>>
      BY <1>2 DEF ShiftOut
    <2>2. TypeOK'
      <3>1. /\ rest' \in {<<>>, <<"LF">>}
            /\ tx_buffer' \in Seq(Stored) /\ Len(tx_buffer') <= BufferSize
        BY <2>1 DEF TypeOK
      <3>2. /\ pc' \in {"idle", "poll", "disable", "check", "put", "start", "enable"}
            /\ isr' \in {"none", "clear", "start"}
            /\ cur' \in Stored \cup {NoChar} /\ txbuf' \in Stored \cup {NoChar}
            /\ wire' \in Stored \cup {NoChar}
        BY <2>1 DEF TypeOK
      <3>3. /\ tx_ongoing' \in BOOLEAN /\ ie' \in BOOLEAN /\ ifg' \in BOOLEAN
            /\ shifting' \in BOOLEAN
        BY <2>1 DEF TypeOK
      <3> QED BY <3>1, <3>2, <3>3 DEF TypeOK
    <2>3. CriticalSection' /\ RoomToPut' /\ OngoingIsCurrent' /\ CharsToStore'
      BY <2>1 DEF CriticalSection, RoomToPut, OngoingIsCurrent, CharsToStore
    <2>4. StartsWhenSilent' /\ TxbufIsOldest' /\ FlagHasCharacter'
      BY <2>1 DEF StartsWhenSilent, TxbufIsOldest, FlagHasCharacter
    <2> QED BY <2>2, <2>3, <2>4
  <1> QED BY <1>1, <1>2 DEF Transmitter

(* What _putchar has seen of the buffer stays true until it acts on it,    *)
(* and the transmitter and its flag agree with the oldest stored character *)
(* (uart.c:57-69, 111-129).                                               *)
THEOREM InvCorrect == Spec => []Inv
  <1>1. Inv /\ [Next]_vars => Inv'
    <2> SUFFICES ASSUME Inv, [Next]_vars
                 PROVE  Inv'
      OBVIOUS
    <2>1. CASE \E c \in Chars : Putchar(c)
      BY <2>1, PutcharInv
    <2>2. CASE PollAgain \/ UNCHANGED vars
      BY <2>2 DEF PollAgain, vars, Inv, TypeOK, CriticalSection, RoomToPut, OngoingIsCurrent,
                  StartsWhenSilent, TxbufIsOldest, FlagHasCharacter, CharsToStore
    <2> QED BY <2>1, <2>2, RunningInv, IsrInv, TransmitterInv DEF Next
  <1> QED BY <1>1, InitInv, PTL DEF Spec

(* The transmit interrupt never takes a character out of the empty buffer, *)
(* however it interleaves with _putchar (uart.c:57-69, 118-127).           *)
THEOREM InterruptCorrect == Spec => []InterruptHasCharacter
  <1>1. Inv => InterruptHasCharacter
    BY DEF Inv, FlagHasCharacter, InterruptHasCharacter
  <1> QED BY <1>1, InvCorrect, PTL

(* No wakeup is lost: what _putchar saw of the buffer still holds when it  *)
(* decides not to start (OngoingIsCurrent), and the interrupt starts the   *)
(* next character before it ends (uart.c:57-69, 118-127).                  *)
THEOREM WakeupCorrect == Spec => []NoCharacterStuck
  <1>1. Init => NoCharacterStuck
    BY DEF Init, NoCharacterStuck
  <1>2. ASSUME Inv, NoCharacterStuck, [Next]_vars
        PROVE  NoCharacterStuck'
    <2>1. NoChar \notin Stored /\ tx_buffer \in Seq(Stored)
      BY <1>2, StoredIsNoSentinel DEF Inv, TypeOK
    <2>2. tx_buffer # <<>> => Head(tx_buffer) # NoChar
      BY <2>1
    <2>3. CASE \E c \in Chars : Putchar(c)
      BY <1>2, <2>3 DEF Putchar, Goto, Main, hardware, NoCharacterStuck
    <2>4. CASE Put
      <3>1. tx_ongoing => tx_buffer # <<>>
        BY <1>2, <2>4 DEF Put, Goto, Inv, OngoingIsCurrent
      <3>2. /\ isr = "none" /\ pc = "put" /\ UNCHANGED <<isr, ifg, txbuf>>
            /\ pc' = IF tx_ongoing THEN "enable" ELSE "start"
        BY <2>4 DEF Put, Goto, Main, hardware
      <3> QED BY <1>2, <3>1, <3>2 DEF NoCharacterStuck
    <2>5. CASE PollDone \/ DisableInterrupt \/ CheckOngoing \/ EnableInterrupt
      BY <1>2, <2>5 DEF PollDone, DisableInterrupt, CheckOngoing, EnableInterrupt, Goto, Main,
                        hardware, NoCharacterStuck
    <2>6. CASE Start
      <3>1. tx_buffer # <<>>
        BY <1>2, <2>6 DEF Start, Goto, Inv, StartsWhenSilent
      <3> QED BY <2>2, <2>6, <3>1 DEF Start, WriteTxbuf, NoCharacterStuck
    <2>7. CASE IsrGet
      BY <2>7 DEF IsrGet, NoCharacterStuck
    <2>8. CASE IsrClear
      BY <2>8 DEF IsrClear, NoCharacterStuck
    <2>9. CASE IsrStart
      <3>1. tx_buffer # <<>>
        BY <1>2, <2>9 DEF IsrStart, Inv, FlagHasCharacter
      <3> QED BY <2>2, <2>9, <3>1 DEF IsrStart, WriteTxbuf, NoCharacterStuck
    <2>10. CASE Transmitter
      BY <1>2, <2>10 DEF Transmitter, LoadShift, ShiftOut, mainVars, NoCharacterStuck
    <2>11. CASE PollAgain \/ UNCHANGED vars
      BY <1>2, <2>11 DEF PollAgain, vars, mainVars, hardware, NoCharacterStuck
    <2> QED BY <1>2, <2>3, <2>4, <2>5, <2>6, <2>7, <2>8, <2>9, <2>10, <2>11
            DEF Next, Running, Isr
  <1> QED BY <1>1, <1>2, InvCorrect, PTL DEF Spec

-----------------------------------------------------------------------------
(* What the steps do to the channel: a put accepts a character, ...        *)
LEMMA PutAccepts ==
    ASSUME Inv, Put
    PROVE  /\ cur \in Stored /\ Len(Pending) < BufferSize
           /\ Pending \in Seq(Stored) /\ Pending' = Append(Pending, cur) /\ wire' = wire
  <1> USE DEF Put, Goto, Main, hardware
  <1>1. /\ tx_buffer \in Seq(Stored) /\ cur \in Stored /\ Len(tx_buffer) < BufferSize
        /\ tx_buffer' = Append(tx_buffer, cur)
        /\ tx_buffer' # <<>>
        /\ tx_buffer # <<>> => Tail(tx_buffer') = Append(Tail(tx_buffer), cur)
    BY PutAppends DEF Inv, TypeOK, RoomToPut, CharsToStore
  <1>2. CASE tx_ongoing
    <2>1. tx_buffer # <<>> /\ pc' = "enable"
      BY <1>2 DEF Inv, OngoingIsCurrent
    <2>2. HeadIsOnWire' <=> HeadIsOnWire
      BY <1>1, <2>1 DEF HeadIsOnWire
    <2>3. /\ Tail(tx_buffer) \in Seq(Stored)
          /\ Len(Tail(tx_buffer)) < BufferSize
      BY <1>1, <2>1, BufferSizeAssumption, HeadTailProperties, LenProperties
    <2> QED BY <1>1, <2>1, <2>2, <2>3 DEF Pending
  <1>3. CASE ~tx_ongoing
    <2>1. tx_buffer = <<>> /\ pc' = "start"
      BY <1>3 DEF Inv, OngoingIsCurrent, TypeOK
    <2>2. ~HeadIsOnWire /\ ~HeadIsOnWire'
      BY <2>1 DEF HeadIsOnWire
    <2> QED BY <1>1, <2>1, <2>2 DEF Pending
  <1> QED BY <1>2, <1>3

(* ... the transmitter puts the oldest one on the wire, ...                *)
LEMMA LoadShiftEmits ==
    ASSUME Inv, LoadShift
    PROVE  /\ Pending # <<>> /\ Pending \in Seq(Stored)
           /\ wire' = Head(Pending) /\ Pending' = Tail(Pending)
  <1> USE DEF LoadShift, mainVars
  <1>1. /\ tx_buffer # <<>> /\ tx_buffer \in Seq(Stored)
        /\ txbuf = Head(tx_buffer) /\ isr = "none" /\ pc # "start"
    BY DEF Inv, TxbufIsOldest, StartsWhenSilent, TypeOK
  <1>2. ~HeadIsOnWire /\ HeadIsOnWire'
    BY <1>1 DEF HeadIsOnWire
  <1> QED BY <1>1, <1>2 DEF Pending

(* ... and every other step, the get of the interrupt included, neither.   *)
LEMMA OthersStutter ==
    ASSUME Inv, [Next]_vars, ~Put, ~LoadShift
    PROVE  UNCHANGED <<Pending, wire>>
  <1> USE DEF Inv, Goto, Main, hardware, mainVars, Pending, HeadIsOnWire
  <1>1. ASSUME NEW c \in Chars, Putchar(c)
        PROVE  UNCHANGED <<Pending, wire>>
    BY <1>1 DEF Putchar
  <1>2. CASE PollAgain \/ PollDone \/ DisableInterrupt \/ CheckOngoing \/ EnableInterrupt
    BY <1>2 DEF PollAgain, vars, PollDone, DisableInterrupt, CheckOngoing, EnableInterrupt
  <1>3. CASE Start
    <2>1. txbuf' # NoChar /\ tx_buffer' = tx_buffer
      BY <1>3, StoredIsNoSentinel DEF Start, WriteTxbuf, StartsWhenSilent, TypeOK
    <2> QED BY <1>3, <2>1 DEF Start, WriteTxbuf
  <1>4. CASE IsrGet
    <2>1. /\ tx_buffer # <<>> /\ txbuf = NoChar /\ pc # "start" /\ isr = "none"
      BY <1>4 DEF IsrGet, FlagHasCharacter, TxbufIsOldest, StartsWhenSilent, TypeOK
    <2> QED BY <1>4, <2>1 DEF IsrGet, AfterGet
  <1>5. CASE IsrClear
    BY <1>5 DEF IsrClear
  <1>6. CASE IsrStart
    <2>1. txbuf' # NoChar /\ tx_buffer' = tx_buffer
      BY <1>6, StoredIsNoSentinel DEF IsrStart, WriteTxbuf, FlagHasCharacter, TypeOK
    <2> QED BY <1>6, <2>1 DEF IsrStart, WriteTxbuf
  <1>7. CASE ShiftOut \/ UNCHANGED vars
    BY <1>7 DEF ShiftOut, vars
  <1> QED BY <1>1, <1>2, <1>3, <1>4, <1>5, <1>6, <1>7
          DEF Next, Running, Isr, Transmitter

(* However _putchar, the interrupt and the transmitter interleave, every   *)
(* stored character goes onto the wire once and in order (uart.c:57-69,    *)
(* 118-127).                                                               *)
THEOREM Refinement == Spec => ImplementsChannel
  <1>1. Init => Channel!Init
    BY DEF Init, Channel!Init, Pending, HeadIsOnWire
  <1>2. Inv /\ [Next]_vars => [Channel!Next]_(Channel!channelVars)
    <2> SUFFICES ASSUME Inv, [Next]_vars
                 PROVE  [Channel!Next]_(Channel!channelVars)
      OBVIOUS
    <2>1. CASE Put
      <3>1. Channel!Accept(cur) /\ cur \in Stored
        BY <2>1, PutAccepts DEF Channel!Accept
      <3> QED BY <3>1 DEF Channel!Next
    <2>2. CASE LoadShift
      BY <2>2, LoadShiftEmits DEF Channel!Next, Channel!Emit
    <2>3. CASE ~Put /\ ~LoadShift
      BY <2>3, OthersStutter DEF Channel!channelVars
    <2> QED BY <2>1, <2>2, <2>3
  <1> QED BY <1>1, <1>2, InvCorrect, PTL DEF Spec, ImplementsChannel, Channel!Spec

-----------------------------------------------------------------------------
(* The character stored last. *)
LastStored == IF Pending = <<>> THEN wire ELSE Pending[Len(Pending)]

(* The inductive invariant about line feeds: one that is under way follows *)
(* its carriage return, and so will one that is still to be stored.        *)
CrComesFirst ==
    /\ \A i \in 1 .. Len(Pending) : Pending[i] = "LF" =>
            "CR" = IF i = 1 THEN wire ELSE Pending[i - 1]
    /\ cur = "LF" /\ pc \in {"poll", "disable", "check", "put"} => LastStored = "CR"
    /\ rest # <<>> /\ pc \in {"start", "enable"} => LastStored = "CR"

LEMMA CrComesFirstPut == Inv /\ CrComesFirst /\ Put => CrComesFirst'
  <1> SUFFICES ASSUME Inv, CrComesFirst, Put
               PROVE  CrComesFirst'
    OBVIOUS
  <1>1. /\ Pending \in Seq(Stored) /\ cur \in Stored
        /\ Pending' = Append(Pending, cur) /\ wire' = wire
    BY PutAccepts
  <1>2. /\ Len(Pending') = Len(Pending) + 1 /\ Len(Pending) \in Nat
        /\ \A i \in 1 .. Len(Pending) : Pending'[i] = Pending[i]
        /\ Pending'[Len(Pending) + 1] = cur
        /\ Pending' # <<>>
        /\ Pending = <<>> <=> Len(Pending) = 0
    BY <1>1, AppendProperties, LenProperties, EmptySeq
  <1>3. cur = "LF" => LastStored = "CR"
    BY DEF CrComesFirst, Put, Goto
  <1>4. LastStored' = cur
    BY <1>2 DEF LastStored
  <1>5. \A i \in 1 .. Len(Pending') : Pending'[i] = "LF" =>
            "CR" = IF i = 1 THEN wire' ELSE Pending'[i - 1]
    <2> SUFFICES ASSUME NEW i \in 1 .. Len(Pending'), Pending'[i] = "LF"
                 PROVE  "CR" = IF i = 1 THEN wire' ELSE Pending'[i - 1]
      OBVIOUS
    <2>1. CASE i = Len(Pending) + 1
      BY <1>1, <1>2, <1>3, <2>1 DEF LastStored
    <2>2. CASE i <= Len(Pending)
      BY <1>1, <1>2, <2>2 DEF CrComesFirst
    <2> QED BY <1>2, <2>1, <2>2
  <1>6. pc' \in {"enable", "start"} /\ cur' = cur /\ rest' = rest
    BY DEF Put, Goto
  <1>7. rest # <<>> => cur = "CR"
    BY DEF Inv, CharsToStore
  <1> QED BY <1>4, <1>5, <1>6, <1>7 DEF CrComesFirst

LEMMA CrComesFirstEmit ==
    Inv /\ CrComesFirst /\ LoadShift => CrComesFirst' /\ (wire' = "LF" => wire = "CR")
  <1> SUFFICES ASSUME Inv, CrComesFirst, LoadShift
               PROVE  CrComesFirst' /\ (wire' = "LF" => wire = "CR")
    OBVIOUS
  <1>1. /\ Pending # <<>> /\ Pending \in Seq(Stored)
        /\ wire' = Head(Pending) /\ Pending' = Tail(Pending)
    BY LoadShiftEmits
  <1>2. /\ Len(Pending) \in Nat \ {0} /\ Len(Pending') = Len(Pending) - 1
        /\ wire' = Pending[1]
        /\ \A i \in 1 .. Len(Pending) - 1 : Pending'[i] = Pending[i + 1]
        /\ Pending' = <<>> <=> Len(Pending) = 1
    <2>1. /\ Tail(Pending) \in Seq(Stored) /\ Len(Tail(Pending)) = Len(Pending) - 1
          /\ \A i \in 1 .. Len(Pending) - 1 : Tail(Pending)[i] = Pending[i + 1]
      BY <1>1, HeadTailProperties
    <2>2. Len(Pending) \in Nat \ {0} /\ Head(Pending) = Pending[1]
      BY <1>1, LenProperties, EmptySeq
    <2>3. Tail(Pending) = <<>> <=> Len(Tail(Pending)) = 0
      BY <2>1, EmptySeq
    <2>4. Tail(Pending) = <<>> <=> Len(Pending) = 1
      BY ONLY <2>1, <2>2, <2>3
    <2> QED BY ONLY <1>1, <2>1, <2>2, <2>4
  <1>3. LastStored' = LastStored
    BY <1>1, <1>2 DEF LastStored
  <1>4. wire' = "LF" => wire = "CR"
    <2>1. 1 \in 1 .. Len(Pending) /\ wire' = Pending[1]
      BY <1>2
    <2>2. \A i \in 1 .. Len(Pending) : Pending[i] = "LF" =>
              "CR" = IF i = 1 THEN wire ELSE Pending[i - 1]
      BY DEF CrComesFirst
    <2>3. Pending[1] = "LF" => "CR" = IF 1 = 1 THEN wire ELSE Pending[1 - 1]
      BY <2>1, <2>2, Zenon
    <2> QED BY <2>1, <2>3
  <1>5. \A i \in 1 .. Len(Pending') : Pending'[i] = "LF" =>
            "CR" = IF i = 1 THEN wire' ELSE Pending'[i - 1]
    <2>1. \A k \in 1 .. Len(Pending) : Pending[k] = "LF" =>
              "CR" = IF k = 1 THEN wire ELSE Pending[k - 1]
      BY DEF CrComesFirst
    <2> SUFFICES ASSUME NEW i \in 1 .. Len(Pending'), Pending'[i] = "LF"
                 PROVE  "CR" = IF i = 1 THEN wire' ELSE Pending'[i - 1]
      OBVIOUS
    <2>2. i + 1 \in 1 .. Len(Pending) /\ i + 1 # 1 /\ (i + 1) - 1 = i
      BY <1>2
    <2>3. Pending'[i] = Pending[i + 1]
      BY <1>2
    <2>4. "CR" = Pending[i]
      BY <2>1, <2>2, <2>3, Zenon
    <2>5. CASE i = 1
      BY <1>2, <2>4, <2>5
    <2>6. CASE i # 1
      <3>1. i - 1 \in 1 .. Len(Pending') /\ (i - 1) + 1 = i
        BY <1>2, <2>6
      <3>2. Pending'[i - 1] = Pending[i]
        BY <1>2, <3>1
      <3> QED BY <2>4, <2>6, <3>2, Zenon
    <2> QED BY <2>5, <2>6
  <1>6. UNCHANGED <<pc, cur, rest>>
    BY DEF LoadShift, mainVars
  <1> QED BY <1>3, <1>4, <1>5, <1>6 DEF CrComesFirst

LEMMA CrComesFirstOthers ==
    Inv /\ CrComesFirst /\ [Next]_vars /\ ~Put /\ ~LoadShift => CrComesFirst'
  <1> SUFFICES ASSUME Inv, CrComesFirst, [Next]_vars, ~Put, ~LoadShift
               PROVE  CrComesFirst'
    OBVIOUS
  <1>1. Pending' = Pending /\ wire' = wire
    BY OthersStutter
  <1>2. LastStored' = LastStored
    BY <1>1 DEF LastStored
  <1>3. \/ UNCHANGED <<pc, cur, rest>>
        \/ pc = "idle" /\ pc' = "poll" /\ cur' # "LF"
        \/ pc \in {"poll", "disable", "check"} /\ pc' \in {"disable", "check", "put"}
             /\ UNCHANGED <<cur, rest>>
        \/ pc = "start" /\ pc' = "enable" /\ UNCHANGED <<cur, rest>>
        \/ pc = "enable" /\ pc' = "poll" /\ rest # <<>> /\ rest' = <<>>
        \/ pc = "enable" /\ pc' = "idle"
    BY DEF Next, Putchar, PollAgain, Running, PollDone, DisableInterrupt, CheckOngoing, Start,
           EnableInterrupt, Isr, IsrGet, IsrClear, IsrStart, Transmitter, ShiftOut, Goto,
           mainVars, vars
  <1> QED BY <1>1, <1>2, <1>3 DEF CrComesFirst

(* On the wire every line feed follows its carriage return                 *)
(* (uart.c:113-116).                                                       *)
THEOREM CrCorrect == Spec => CrBeforeLf
  <1>1. Init => CrComesFirst
    BY StoredIsNoSentinel DEF Init, CrComesFirst, Pending, HeadIsOnWire
  <1>2. Inv /\ CrComesFirst /\ [Next]_vars => CrComesFirst'
    BY CrComesFirstPut, CrComesFirstEmit, CrComesFirstOthers
  <1>3. Inv /\ CrComesFirst /\ [Next]_vars
            => [~shifting /\ shifting' /\ wire' = "LF" => wire = "CR"]_vars
    <2> SUFFICES ASSUME Inv, CrComesFirst, Next, ~shifting, shifting'
                 PROVE  wire' = "LF" => wire = "CR"
      BY DEF vars
    <2>1. LoadShift
      BY DEF Next, Putchar, PollAgain, Running, PollDone, DisableInterrupt, CheckOngoing, Put,
             Start, WriteTxbuf, EnableInterrupt, Isr, IsrGet, IsrClear, IsrStart, Transmitter,
             ShiftOut, Goto, hardware, vars
    <2> QED BY <2>1, CrComesFirstEmit
  <1> QED BY <1>1, <1>2, <1>3, InvCorrect, PTL DEF Spec, CrBeforeLf
=============================================================================
