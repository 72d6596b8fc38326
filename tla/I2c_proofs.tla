----------------------------- MODULE I2c_proofs -----------------------------
(***************************************************************************)
(* Proofs about drivers/i2c.c, for every number of retries and bytes: a    *)
(* transfer that succeeds is complete and leaves the bus free, however the *)
(* polling loops and the bus interleave and whatever the device refuses.   *)
(***************************************************************************)
EXTENDS I2c, SequenceTheorems, TLAPS

(* No wait has run out yet: after that the device may be in any state.     *)
Live == ~expired /\ result # "ERROR_TIMEOUT"

(* Where the call is and how far its index has got; only a read makes the  *)
(* controller a receiver, and no call follows one that timed out.          *)
WhereTheCallIs ==
    /\ result = "ERROR_TIMEOUT" => pc = "idle"
    /\ ~ctl.tr => call.op = "read"
    /\ pc \in {"start", "restart"} => i = 0
    /\ pc = "restart" => call.op = "read"
    /\ pc = "tx" => i <= call.size /\ (call.op = "read" => i = 0)
    /\ pc = "rx" => call.op = "read" /\ i < call.size
    /\ pc \in {"send_stop", "stop"} => i = IF call.op = "read" THEN 0 ELSE call.size

(* The bytes a read has stored. *)
Stored ==
    CASE pc \in {"rx", "send_stop", "stop"} -> call.size - 1 - i
      [] pc = "idle"                        -> call.size
      [] OTHER                              -> 0

(* The device is never more than one byte ahead, whether waits ran out or  *)
(* not, because it waits until its byte was read.                          *)
OneByteAhead ==
    engine = "rx" => call.op = "read" /\ sent <= Stored + (IF rxifg THEN 1 ELSE 0)

(* Only a transmitter has a byte in its shift register. *)
ShiftIsSending == engine # "tx" => shift = Empty

(* The first k bytes of the call are sent, being sent or written, in order. *)
InOrder(k) ==
    /\ got = [n \in 1 .. Len(got) |-> n - 1]
    /\ shift \in {Len(got), Empty}
    /\ txbuf # Empty => txbuf = Len(got) + (IF shift = Empty THEN 0 ELSE 1)
    /\ k = Len(got) + (IF shift = Empty THEN 0 ELSE 1) + (IF txbuf = Empty THEN 0 ELSE 1)
    /\ txifg <=> txbuf = Empty

(* The device has refused, or it takes the first k bytes. *)
Refused == engine = "nacked" /\ nack
Sending(k) == Refused \/ (engine = "tx" /\ ~nack /\ InOrder(k))

(* s bytes were read, the next one may have come. *)
Receives(s) ==
    /\ engine = "rx" /\ ~nack
    /\ sent = s + (IF rxifg THEN 1 ELSE 0)
    /\ rxifg => rxbuf = sent

(* The last byte has come, and the stop after it. *)
LastByteIsIn == engine = "free" /\ ~nack /\ rxifg /\ rxbuf = call.size

StoredSoFar == \A b \in 0 .. call.size - 1 : b > i => data[b] = call.size - b

IsRead == call.op = "read"

(* What the bus is in at each wait of a call. *)
IdleState ==
    pc = "idle" =>
        /\ ~ctl.txstt /\ ~ctl.txstp /\ ~rxifg /\ engine \in {"free", "nacked"}
        /\ result = "OK" => engine = "free" /\ IF IsRead THEN AllRead ELSE AllWritten

StartState ==
    pc = "start" =>
        /\ ctl.tr /\ ~ctl.txstp /\ ~rxifg
        /\ IF ctl.txstt THEN engine \in {"free", "nacked"} /\ txbuf = 0 /\ ~txifg ELSE Sending(1)

TxState ==
    pc = "tx" => ~ctl.txstt /\ ~ctl.txstp /\ ~rxifg /\ Sending(i + 1)

RestartState ==
    pc = "restart" =>
        /\ ~ctl.tr /\ ~ctl.txstp
        /\ IF ctl.txstt THEN engine \in {"tx", "nacked"} /\ ~rxifg
                        ELSE (Refused /\ ~rxifg) \/ Receives(0)

RxState ==
    pc = "rx" =>
        /\ ~ctl.txstt /\ ~ctl.txstp /\ StoredSoFar
        /\ IF i = 0 THEN LastByteIsIn ELSE Receives(call.size - 1 - i)

SendStopState ==
    pc = "send_stop" =>
        /\ ~ctl.txstt /\ ~ctl.txstp
        /\ IF IsRead THEN StoredSoFar /\ Receives(call.size - 1)
                     ELSE ~rxifg /\ Sending(call.size + 1) /\ txbuf = Empty

StopState ==
    pc = "stop" =>
        /\ ~ctl.txstt
        /\ IF IsRead
           THEN StoredSoFar /\ IF ctl.txstp THEN Receives(call.size - 1) ELSE LastByteIsIn
           ELSE ~rxifg /\ IF ctl.txstp THEN Sending(call.size + 1) /\ txbuf = Empty
                                       ELSE engine = "free" /\ (nack \/ AllWritten)

BusAsExpected ==
    Live => /\ IdleState /\ StartState /\ TxState /\ RestartState
            /\ RxState /\ SendStopState /\ StopState

(* The inductive invariant. *)
Inv ==
    /\ TypeOK
    /\ WhereTheCallIs
    /\ OneByteAhead
    /\ ShiftIsSending
    /\ BusAsExpected

(* What a step that is no longer Live must still keep. *)
Base == TypeOK /\ WhereTheCallIs /\ OneByteAhead /\ ShiftIsSending

-----------------------------------------------------------------------------
LEMMA EmptyIsNoByte == Empty \in Nat /\ Empty \notin Bytes /\ 0 \in Bytes
  BY BoundsAssumption DEF Empty, Bytes

LEMMA InitInv == Init => Inv
  <1> SUFFICES ASSUME Init
               PROVE  Inv
    OBVIOUS
  <1>1. TypeOK
    BY BoundsAssumption DEF Init, TypeOK, Calls, Results, NothingRead, Bytes
  <1>2. WhereTheCallIs /\ OneByteAhead /\ ShiftIsSending
    BY DEF Init, WhereTheCallIs, OneByteAhead, ShiftIsSending
  <1>3. BusAsExpected
    BY DEF Init, BusAsExpected, IdleState, StartState, TxState, RestartState, RxState,
           SendStopState, StopState
  <1> QED BY <1>1, <1>2, <1>3 DEF Inv

(* i2c_send_addr *)
LEMMA SendAddrInv == Inv /\ SendAddr => Inv'
  <1> SUFFICES ASSUME Inv, SendAddr
               PROVE  Inv'
    OBVIOUS
  <1>1. /\ pc = "idle" /\ pc' = "start" /\ i' = 0 /\ call' \in Calls
        /\ ctl' = [ctl EXCEPT !.tr = TRUE, !.txstt = TRUE]
        /\ txbuf' = 0 /\ txifg' = FALSE
        /\ UNCHANGED <<result, expired, rxbuf, rxifg, hardware>>
        /\ retries' = RetryCount /\ data' = NothingRead
    BY DEF SendAddr
  <1>2. Live /\ IdleState
    BY DEF SendAddr, Live, Inv, BusAsExpected
  <1>3. /\ ~ctl.txstp /\ ~rxifg /\ engine \in {"free", "nacked"}
        /\ ctl \in [tr : BOOLEAN, txstt : BOOLEAN, txstp : BOOLEAN]
    BY <1>1, <1>2 DEF IdleState, Inv, TypeOK
  <1>4. TypeOK'
    <2>1. NothingRead \in [0 .. MaxBytes - 1 -> 0 .. MaxBytes + 1]
      BY BoundsAssumption DEF NothingRead
    <2>2. 0 \in Bytes /\ 0 \in 0 .. MaxBytes /\ RetryCount \in 0 .. RetryCount
      BY BoundsAssumption, EmptyIsNoByte
    <2> QED BY <1>1, <1>3, <2>1, <2>2 DEF Inv, TypeOK, hardware
  <1>5. WhereTheCallIs' /\ OneByteAhead' /\ ShiftIsSending'
    BY <1>1, <1>2, <1>3 DEF Live, Inv, WhereTheCallIs, OneByteAhead, ShiftIsSending, hardware
  <1>6. BusAsExpected'
    BY <1>1, <1>3 DEF BusAsExpected, IdleState, StartState, TxState, RestartState, RxState,
                      SendStopState, StopState, hardware
  <1> QED BY <1>4, <1>5, <1>6 DEF Inv

-----------------------------------------------------------------------------
(* The steps of the software that follow a wait leave the bus alone.       *)
SoftwareStep == UNCHANGED <<call, rxbuf, hardware>> /\ expired' \in BOOLEAN

(* A wait that goes on. *)
LEMMA CountDownInv ==
    Inv /\ SoftwareStep /\ UNCHANGED expired /\ CountDown /\ retries > 0 => Inv'
  <1> SUFFICES ASSUME Inv, SoftwareStep, UNCHANGED expired, CountDown, retries > 0
               PROVE  Inv'
    OBVIOUS
  <1>1. /\ UNCHANGED <<pc, call, i, data, result, expired, ctl, txbuf, txifg, rxbuf, rxifg>>
        /\ UNCHANGED <<nack, engine, shift, sent, got>>
        /\ retries' = retries - 1
    BY DEF CountDown, SoftwareStep, hardware
  <1>2. TypeOK'
    <2>1. retries' \in 0 .. RetryCount
      BY <1>1, BoundsAssumption DEF Inv, TypeOK
    <2> QED BY <1>1, <2>1 DEF Inv, TypeOK
  <1>3. WhereTheCallIs' /\ OneByteAhead' /\ ShiftIsSending'
    BY <1>1 DEF Inv, WhereTheCallIs, OneByteAhead, ShiftIsSending, Stored
  <1>4. BusAsExpected'
    <2>1. IdleState => IdleState'
      BY <1>1 DEF IdleState, IsRead, AllRead, AllWritten
    <2>2. StartState => StartState'
      BY <1>1 DEF StartState, Sending, Refused, InOrder
    <2>3. TxState => TxState'
      BY <1>1 DEF TxState, Sending, Refused, InOrder
    <2>4. RestartState => RestartState'
      BY <1>1 DEF RestartState, Refused, Receives
    <2>5. RxState => RxState'
      BY <1>1 DEF RxState, StoredSoFar, Receives, LastByteIsIn
    <2>6. SendStopState => SendStopState'
      BY <1>1 DEF SendStopState, StoredSoFar, Receives, Sending, Refused, InOrder, IsRead
    <2>7. StopState => StopState'
      BY <1>1 DEF StopState, StoredSoFar, Receives, LastByteIsIn, Sending, Refused, InOrder,
                  AllWritten, IsRead
    <2> QED BY <1>1, <2>1, <2>2, <2>3, <2>4, <2>5, <2>6, <2>7 DEF Inv, BusAsExpected, Live
  <1> QED BY <1>2, <1>3, <1>4 DEF Inv

(* A wait that ends with an error. *)
LEMMA ReturnErrorBase ==
    ASSUME NEW r \in Results
    PROVE  Inv /\ SoftwareStep /\ ReturnError(r) => Base'
  <1> SUFFICES ASSUME Inv, SoftwareStep, ReturnError(r)
               PROVE  Base'
    OBVIOUS
  <1>1. /\ UNCHANGED <<call, i, data, ctl, txbuf, txifg, rxbuf, rxifg>>
        /\ UNCHANGED <<nack, engine, shift, sent, got, retries>>
        /\ pc' = "idle" /\ result' = r /\ expired' \in BOOLEAN
    BY DEF ReturnError, Return, SoftwareStep, hardware
  <1>2. TypeOK'
    BY <1>1 DEF Inv, TypeOK
  <1>3. WhereTheCallIs' /\ ShiftIsSending'
    BY <1>1 DEF Inv, WhereTheCallIs, ShiftIsSending
  <1>4. OneByteAhead'
    <2>1. engine = "rx" => Stored <= call.size
      BY DEF Inv, TypeOK, Calls, WhereTheCallIs, OneByteAhead, Stored
    <2> QED BY <1>1, <2>1 DEF Inv, TypeOK, Calls, OneByteAhead, Stored
  <1> QED BY <1>2, <1>3, <1>4 DEF Base

LEMMA ErrorOfType == \A at : ErrorOf(at) \in Results /\ ErrorOf(at) # "OK"
                              /\ ErrorOf(at) # "ERROR_TIMEOUT"
  BY DEF ErrorOf, Results

(* A wait that ends with I2C_RESULT_ERROR_TIMEOUT. *)
LEMMA TimeoutInv == Inv /\ SoftwareStep /\ ReturnError("ERROR_TIMEOUT") => Inv'
  <1>1. "ERROR_TIMEOUT" \in Results
    BY DEF Results
  <1>2. Inv /\ SoftwareStep /\ ReturnError("ERROR_TIMEOUT") => Base'
    BY <1>1, ReturnErrorBase
  <1> QED BY <1>2 DEF ReturnError, Return, Base, Inv, BusAsExpected, Live

(* What follows a wait keeps the types, even after a wait that ran out. *)
LEMMA ProceedBase == Inv /\ SoftwareStep /\ Proceed => Base'
  <1> SUFFICES ASSUME Inv, SoftwareStep, Proceed
               PROVE  Base'
    OBVIOUS
  <1>1. TypeOK /\ WhereTheCallIs /\ OneByteAhead /\ ShiftIsSending
    BY DEF Inv
  <1>2. /\ UNCHANGED <<call, rxbuf, nack, engine, shift, sent, got>>
        /\ expired' \in BOOLEAN
    BY DEF SoftwareStep, hardware
  <1>3. call.size \in 1 .. MaxBytes /\ call.op \in {"read", "write"} /\ i \in Nat /\ MaxBytes \in Nat
    BY <1>1, BoundsAssumption DEF TypeOK, Calls
  <1>4. RetryCount \in 0 .. RetryCount
    BY BoundsAssumption
  <1>5. ShiftIsSending'
    BY <1>1, <1>2 DEF ShiftIsSending
  <1>6. CASE AfterStart
    <2>1. /\ pc = "start" /\ pc' = "tx" /\ retries' = RetryCount
          /\ UNCHANGED <<i, data, result, ctl, txbuf, txifg, rxifg>>
      BY <1>6 DEF AfterStart, WaitFor
    <2>2. TypeOK'
      BY <1>1, <1>2, <1>4, <2>1 DEF TypeOK
    <2>3. WhereTheCallIs'
      BY <1>1, <1>2, <1>3, <2>1 DEF WhereTheCallIs
    <2>4. OneByteAhead'
      BY <1>1, <1>2, <2>1 DEF OneByteAhead, Stored
    <2> QED BY <1>5, <2>2, <2>3, <2>4 DEF Base
  <1>7. CASE Restart
    <2>1. /\ pc = "tx" /\ pc' = "restart" /\ call.op = "read" /\ retries' = RetryCount
          /\ ctl' = [ctl EXCEPT !.tr = FALSE, !.txstt = TRUE]
          /\ UNCHANGED <<i, data, result, txbuf, txifg, rxifg>>
      BY <1>7 DEF Restart, WaitFor
    <2>2. TypeOK'
      BY <1>1, <1>2, <1>4, <2>1 DEF TypeOK
    <2>3. WhereTheCallIs'
      BY <1>1, <1>2, <1>3, <2>1 DEF WhereTheCallIs
    <2>4. OneByteAhead'
      BY <1>1, <1>2, <2>1 DEF OneByteAhead, Stored
    <2> QED BY <1>5, <2>2, <2>3, <2>4 DEF Base
  <1>8. CASE SendByte
    <2>1. /\ pc = "tx" /\ call.op = "write" /\ retries' = RetryCount
          /\ UNCHANGED <<data, result, ctl, rxifg>>
          /\ \/ i < call.size /\ pc' = "tx" /\ txbuf' = i + 1 /\ txifg' = FALSE /\ i' = i + 1
             \/ i >= call.size /\ pc' = "send_stop" /\ UNCHANGED <<txbuf, txifg, i>>
      BY <1>3, <1>8 DEF SendByte, WaitFor
    <2>2. TypeOK'
      <3>1. i' \in 0 .. MaxBytes /\ txbuf' \in Bytes \cup {Empty} /\ txifg' \in BOOLEAN
            /\ pc' \in {"tx", "send_stop"}
        <4>1. i \in 0 .. MaxBytes /\ txbuf \in Bytes \cup {Empty} /\ txifg \in BOOLEAN
          BY <1>1 DEF TypeOK
        <4>2. i < call.size => i + 1 \in 0 .. MaxBytes /\ i + 1 \in Bytes
          BY <1>3 DEF Bytes
        <4> QED BY <2>1, <4>1, <4>2
      <3>2. UNCHANGED <<data, result, ctl, rxifg>> /\ retries' \in 0 .. RetryCount
        BY <1>4, <2>1
      <3> QED BY <1>1, <1>2, <3>1, <3>2 DEF TypeOK
    <2>3. WhereTheCallIs'
      BY <1>1, <1>2, <1>3, <2>1 DEF WhereTheCallIs
    <2>4. OneByteAhead'
      BY <1>1, <1>2, <2>1 DEF OneByteAhead
    <2> QED BY <1>5, <2>2, <2>3, <2>4 DEF Base
  <1>9. CASE Receiving
    <2>1. /\ pc = "restart" /\ call.op = "read" /\ retries' = RetryCount
          /\ i' = call.size - 1
          /\ pc' = IF call.size > 1 THEN "rx" ELSE "send_stop"
          /\ UNCHANGED <<data, result, ctl, txbuf, txifg, rxifg>>
      BY <1>1, <1>9 DEF Receiving, WaitFor, WhereTheCallIs
    <2>2. TypeOK'
      <3>1. i' \in 0 .. MaxBytes /\ pc' \in {"rx", "send_stop"}
        BY <1>3, <2>1
      <3> QED BY <1>1, <1>2, <1>4, <2>1, <3>1 DEF TypeOK
    <2>3. WhereTheCallIs'
      BY <1>1, <1>2, <1>3, <2>1 DEF WhereTheCallIs
    <2>4. OneByteAhead'
      BY <1>1, <1>2, <1>3, <2>1 DEF OneByteAhead, Stored
    <2> QED BY <1>5, <2>2, <2>3, <2>4 DEF Base
  <1>10. CASE StoreByte
    <2>1. /\ pc = "rx" /\ call.op = "read" /\ i < call.size
          /\ data' = [data EXCEPT ![i] = rxbuf] /\ rxifg' = FALSE
          /\ i' = IF i = 0 THEN 0 ELSE i - 1
          /\ pc' = IF i = 0 THEN "idle" ELSE IF i > 1 THEN "rx" ELSE "send_stop"
          /\ result' \in {"OK", result} /\ retries' \in {RetryCount, retries}
          /\ UNCHANGED <<ctl, txbuf, txifg>>
      BY <1>1, <1>10 DEF StoreByte, WaitFor, Return, WhereTheCallIs
    <2>2. data' \in [0 .. MaxBytes - 1 -> 0 .. MaxBytes + 1]
      BY <1>1, <1>3, <2>1 DEF TypeOK
    <2>3. TypeOK'
      <3>1. /\ i' \in 0 .. MaxBytes /\ pc' \in {"idle", "rx", "send_stop"}
            /\ result' \in Results /\ retries' \in 0 .. RetryCount
        BY <1>1, <1>3, <1>4, <2>1 DEF TypeOK, Results
      <3>2. UNCHANGED <<ctl, txbuf, txifg>> /\ rxifg' = FALSE
        BY <2>1
      <3>3. pc' \in {"idle", "start", "tx", "restart", "rx", "send_stop", "stop"}
        BY <3>1
      <3>4. /\ ctl' \in [tr : BOOLEAN, txstt : BOOLEAN, txstp : BOOLEAN]
            /\ txbuf' \in Bytes \cup {Empty} /\ txifg' \in BOOLEAN /\ rxifg' \in BOOLEAN
        BY <1>1, <3>2 DEF TypeOK
      <3>5. UNCHANGED <<call, shift, rxbuf, nack, engine, sent, got>> /\ expired' \in BOOLEAN
        BY <1>2
      <3>6. /\ call' \in Calls /\ expired' \in BOOLEAN /\ shift' \in Bytes \cup {Empty}
            /\ rxbuf' \in 0 .. MaxBytes + 1 /\ nack' \in BOOLEAN
            /\ engine' \in {"free", "tx", "rx", "nacked"}
            /\ sent' \in 0 .. MaxBytes + 1 /\ got' \in Seq(Bytes)
        BY <1>1, <3>5 DEF TypeOK
      <3> QED BY <2>2, <3>1, <3>3, <3>4, <3>6 DEF TypeOK
    <2>4. WhereTheCallIs'
      BY <1>1, <1>2, <1>3, <2>1 DEF WhereTheCallIs
    <2>5. OneByteAhead'
      <3>1. Stored' = Stored + 1
        BY <1>2, <1>3, <2>1 DEF Stored
      <3>2. Stored \in Int /\ sent \in Int
        BY <1>1, <1>3, <2>1 DEF Stored, TypeOK
      <3> QED BY <1>1, <1>2, <2>1, <3>1, <3>2 DEF OneByteAhead
    <2> QED BY <1>5, <2>3, <2>4, <2>5 DEF Base
  <1>11. CASE AfterStop
    <2>1. /\ pc = "stop" /\ pc' = IF call.op = "read" THEN "rx" ELSE "idle"
          /\ result' \in {"OK", result} /\ retries' \in {RetryCount, retries}
          /\ UNCHANGED <<i, data, ctl, txbuf, txifg, rxifg>>
      BY <1>11 DEF AfterStop, WaitFor, Return
    <2>2. TypeOK'
      <3>1. pc' \in {"rx", "idle"} /\ result' \in Results /\ retries' \in 0 .. RetryCount
        BY <1>1, <1>4, <2>1 DEF TypeOK, Results
      <3> QED BY <1>1, <1>2, <2>1, <3>1 DEF TypeOK
    <2>3. WhereTheCallIs'
      BY <1>1, <1>2, <1>3, <2>1 DEF WhereTheCallIs
    <2>4. OneByteAhead'
      BY <1>1, <1>2, <2>1 DEF OneByteAhead, Stored
    <2> QED BY <1>5, <2>2, <2>3, <2>4 DEF Base
  <1> QED BY <1>6, <1>7, <1>8, <1>9, <1>10, <1>11 DEF Proceed

LEMMA FinishBase == Inv /\ SoftwareStep /\ Finish => Base'
  BY ProceedBase, ReturnErrorBase, ErrorOfType DEF Finish

(* The flag that a wait has waited for is as it should be. *)
WaitIsOver ==
    \/ pc \in {"start", "restart", "stop"} /\ ~Pending
    \/ pc \in {"tx", "rx"} /\ Flag

(* An acknowledge that is missing ends the call with the bus idle. *)
LEMMA ErrorLive ==
    Inv /\ SoftwareStep /\ Live /\ WaitIsOver /\ nack /\ ReturnError(ErrorOf(pc)) => BusAsExpected'
  <1> SUFFICES ASSUME Inv, SoftwareStep, Live, WaitIsOver, nack, ReturnError(ErrorOf(pc))
               PROVE  BusAsExpected'
    OBVIOUS
  <1>1. /\ pc' = "idle" /\ result' # "OK"
        /\ UNCHANGED <<ctl, txbuf, txifg, rxbuf, rxifg, engine>>
    BY ErrorOfType DEF ReturnError, Return, SoftwareStep, hardware
  <1>2. ~ctl.txstt /\ ~ctl.txstp /\ ~rxifg /\ engine \in {"free", "nacked"}
    <2>1. CASE pc = "start"
      BY <2>1 DEF Inv, BusAsExpected, WaitIsOver, Pending, StartState, Sending, Refused
    <2>2. CASE pc = "tx"
      BY <2>2 DEF Inv, BusAsExpected, TxState, Sending, Refused
    <2>3. CASE pc = "restart"
      BY <2>3 DEF Inv, BusAsExpected, WaitIsOver, Pending, RestartState, Refused, Receives
    <2>4. CASE pc = "rx"
      BY <2>4 DEF Inv, BusAsExpected, RxState, LastByteIsIn, Receives
    <2>5. CASE pc = "stop"
      BY <2>5 DEF Inv, BusAsExpected, WaitIsOver, Pending, StopState, LastByteIsIn
    <2> QED BY <2>1, <2>2, <2>3, <2>4, <2>5 DEF WaitIsOver
  <1> QED BY <1>1, <1>2 DEF BusAsExpected, IdleState, StartState, TxState, RestartState, RxState,
                            SendStopState, StopState

(* What follows a wait that ended as it should. *)
LEMMA ProceedLive == Inv /\ SoftwareStep /\ Live /\ WaitIsOver /\ ~nack /\ Proceed => BusAsExpected'
  <1> SUFFICES ASSUME Inv, SoftwareStep, Live, WaitIsOver, ~nack, Proceed
               PROVE  BusAsExpected'
    OBVIOUS
  <1>1. TypeOK /\ WhereTheCallIs /\ OneByteAhead /\ ShiftIsSending
    BY DEF Inv
  <1>2. /\ UNCHANGED <<call, rxbuf, nack, engine, shift, sent, got>>
        /\ ~nack
    BY DEF SoftwareStep, hardware
  <1>3. call.size \in 1 .. MaxBytes /\ call.op \in {"read", "write"} /\ i \in Nat /\ MaxBytes \in Nat
    BY <1>1, BoundsAssumption DEF TypeOK, Calls
  <1>4. CASE AfterStart
    <2>1. /\ pc = "start" /\ pc' = "tx" /\ i = 0
          /\ UNCHANGED <<i, data, result, ctl, txbuf, txifg, rxifg>>
      BY <1>1, <1>4 DEF AfterStart, WaitFor, WhereTheCallIs
    <2>2. ~ctl.txstt /\ ~ctl.txstp /\ ~rxifg /\ Sending(1)
      BY <2>1 DEF Inv, BusAsExpected, WaitIsOver, Pending, StartState
    <2>3. i' + 1 = 1
      BY <2>1
    <2>4. TxState'
      BY <1>2, <2>1, <2>2, <2>3 DEF TxState, Sending, Refused, InOrder
    <2> QED BY <2>1, <2>4 DEF BusAsExpected, IdleState, StartState, RestartState, RxState,
                              SendStopState, StopState
  <1>5. CASE Restart
    <2>1. /\ pc = "tx" /\ pc' = "restart"
          /\ ctl' = [ctl EXCEPT !.tr = FALSE, !.txstt = TRUE]
          /\ UNCHANGED rxifg
      BY <1>5 DEF Restart, WaitFor
    <2>2. ~ctl.txstp /\ ~rxifg /\ engine = "tx"
      BY <1>2, <2>1 DEF Inv, BusAsExpected, TxState, Sending, Refused
    <2>3. ctl \in [tr : BOOLEAN, txstt : BOOLEAN, txstp : BOOLEAN]
      BY <1>1 DEF TypeOK
    <2>4. RestartState'
      BY <1>2, <2>1, <2>2, <2>3 DEF RestartState
    <2> QED BY <2>1, <2>4 DEF BusAsExpected, IdleState, StartState, TxState, RxState,
                              SendStopState, StopState
  <1>6. CASE SendByte
    <2>1. pc = "tx" /\ call.op = "write" /\ UNCHANGED <<result, ctl, rxifg>>
      BY <1>6 DEF SendByte, WaitFor
    <2>2. ~ctl.txstt /\ ~ctl.txstp /\ ~rxifg /\ engine = "tx" /\ InOrder(i + 1) /\ txifg
      BY <1>2, <2>1 DEF Inv, BusAsExpected, TxState, Sending, Refused, WaitIsOver, Flag
    <2>3. CASE i < call.size
      <3>1. pc' = "tx" /\ txbuf' = i + 1 /\ txifg' = FALSE /\ i' = i + 1
        BY <1>6, <2>3 DEF SendByte, WaitFor
      <3>2. txbuf' # Empty
        BY <1>3, <2>3, <3>1 DEF Empty
      <3>3. InOrder(i + 1)'
        BY <1>2, <1>3, <2>2, <3>1, <3>2 DEF InOrder
      <3>4. TxState'
        BY <1>2, <2>1, <2>2, <3>3 DEF TxState, Sending
      <3> QED BY <3>1, <3>4 DEF BusAsExpected, IdleState, StartState, RestartState, RxState,
                                SendStopState, StopState
    <2>4. CASE ~(i < call.size)
      <3>1. pc' = "send_stop" /\ UNCHANGED <<txbuf, txifg, i>> /\ i = call.size
        BY <1>1, <1>3, <1>6, <2>1, <2>4 DEF SendByte, WaitFor, WhereTheCallIs
      <3>2. txbuf = Empty /\ InOrder(call.size + 1)
        BY <2>2, <3>1 DEF InOrder
      <3>3. InOrder(call.size + 1)'
        BY <1>2, <3>1, <3>2 DEF InOrder
      <3>4. SendStopState'
        BY <1>2, <2>1, <2>2, <3>1, <3>2, <3>3 DEF SendStopState, Sending, IsRead
      <3> QED BY <3>1, <3>4 DEF BusAsExpected, IdleState, StartState, TxState, RestartState,
                                RxState, StopState
    <2> QED BY <2>3, <2>4
  <1>7. CASE Receiving
    <2>1. /\ pc = "restart" /\ call.op = "read" /\ i' = call.size - 1
          /\ pc' = IF call.size > 1 THEN "rx" ELSE "send_stop"
          /\ UNCHANGED <<data, result, ctl, txbuf, txifg, rxifg>>
      BY <1>1, <1>7 DEF Receiving, WaitFor, WhereTheCallIs
    <2>2. ~ctl.txstt /\ ~ctl.txstp /\ Receives(0)
      BY <1>2, <2>1 DEF Inv, BusAsExpected, WaitIsOver, Pending, RestartState, Refused
    <2>3. StoredSoFar'
      BY <1>2, <1>3, <2>1 DEF StoredSoFar
    <2>4. RxState'
      <3>1. pc' = "rx" => i' # 0 /\ call.size - 1 - i' = 0
        BY <1>3, <2>1
      <3> QED BY <1>2, <2>1, <2>2, <2>3, <3>1 DEF RxState, Receives
    <2>5. SendStopState'
      <3>1. pc' = "send_stop" => call.size - 1 = 0
        BY <1>3, <2>1
      <3> QED BY <1>2, <2>1, <2>2, <2>3, <3>1 DEF SendStopState, Receives, IsRead
    <2> QED BY <2>1, <2>4, <2>5 DEF BusAsExpected, IdleState, StartState, TxState, RestartState,
                                    StopState
  <1>8. CASE StoreByte
    <2>1. /\ pc = "rx" /\ call.op = "read" /\ i < call.size
          /\ data' = [data EXCEPT ![i] = rxbuf] /\ rxifg' = FALSE
          /\ UNCHANGED <<ctl, txbuf, txifg>>
      BY <1>1, <1>8 DEF StoreByte, WhereTheCallIs
    <2>2. /\ ~ctl.txstt /\ ~ctl.txstp /\ StoredSoFar /\ rxifg
          /\ IF i = 0 THEN LastByteIsIn ELSE Receives(call.size - 1 - i)
      BY <2>1 DEF Inv, BusAsExpected, RxState, WaitIsOver, Flag
    <2>3. rxbuf = call.size - i
      BY <1>3, <2>1, <2>2 DEF LastByteIsIn, Receives
    <2>4. \A b \in 0 .. call.size - 1 : b >= i => data'[b] = call.size - b
      <3>1. data \in [0 .. MaxBytes - 1 -> 0 .. MaxBytes + 1]
        BY <1>1 DEF TypeOK
      <3>2. i \in 0 .. MaxBytes - 1 /\ 0 .. call.size - 1 \subseteq 0 .. MaxBytes - 1
        BY <1>3, <2>1
      <3>3. data'[i] = call.size - i
        BY <2>1, <2>3, <3>1, <3>2
      <3>4. ASSUME NEW b \in 0 .. call.size - 1, b >= i
            PROVE  data'[b] = call.size - b
        <4>1. CASE b = i
          BY <3>3, <4>1
        <4>2. CASE b # i
          <5>1. data'[b] = data[b]
            BY <2>1, <3>1, <3>2, <4>2
          <5>2. b > i
            BY <3>2, <3>4, <4>2
          <5>3. data[b] = call.size - b
            BY <2>2, <5>2 DEF StoredSoFar
          <5> QED BY <5>1, <5>3
        <4> QED BY <4>1, <4>2
      <3> QED BY <3>4
    <2>5. CASE i = 0
      <3>1. pc' = "idle" /\ result' = "OK"
        BY <1>8, <2>5 DEF StoreByte, Return
      <3>2. AllRead'
        BY <1>2, <2>4, <2>5 DEF AllRead
      <3>3. IdleState'
        BY <1>2, <2>1, <2>2, <2>5, <3>1, <3>2 DEF IdleState, LastByteIsIn, IsRead
      <3> QED BY <3>1, <3>3 DEF BusAsExpected, StartState, TxState, RestartState, RxState,
                                SendStopState, StopState
    <2>6. CASE i # 0
      <3>1. i' = i - 1 /\ pc' = IF i > 1 THEN "rx" ELSE "send_stop"
        BY <1>8, <2>6 DEF StoreByte, WaitFor
      <3>2. StoredSoFar'
        BY <1>2, <1>3, <2>4, <3>1 DEF StoredSoFar
      <3>3. Receives(call.size - 1 - i)'
        BY <1>2, <1>3, <2>1, <2>2, <2>6, <3>1 DEF Receives
      <3>4. RxState'
        <4>1. pc' = "rx" => i' # 0
          BY <1>3, <3>1
        <4> QED BY <1>2, <2>1, <2>2, <3>2, <3>3, <4>1 DEF RxState, Receives
      <3>5. SendStopState'
        <4>1. pc' = "send_stop" => i' = 0 /\ call.size - 1 - i' = call.size - 1
          BY <1>3, <2>6, <3>1
        <4> QED BY <1>2, <2>1, <2>2, <3>2, <3>3, <4>1 DEF SendStopState, Receives, IsRead
      <3> QED BY <3>1, <3>4, <3>5 DEF BusAsExpected, IdleState, StartState, TxState, RestartState,
                                      StopState
    <2> QED BY <2>5, <2>6
  <1>9. CASE AfterStop
    <2>1. pc = "stop" /\ UNCHANGED <<i, data, ctl, txbuf, txifg, rxifg>>
      BY <1>9 DEF AfterStop
    <2>2. ~ctl.txstt /\ ~ctl.txstp /\ StopState
      BY <2>1 DEF Inv, BusAsExpected, StopState, WaitIsOver, Pending
    <2>3. CASE call.op = "read"
      <3>1. pc' = "rx" /\ i = 0
        BY <1>1, <1>9, <2>1, <2>3 DEF AfterStop, WaitFor, WhereTheCallIs
      <3>2. StoredSoFar /\ LastByteIsIn
        BY <2>1, <2>2, <2>3 DEF StopState, IsRead
      <3>3. RxState'
        BY <1>2, <2>1, <2>2, <3>1, <3>2 DEF RxState, StoredSoFar, LastByteIsIn
      <3> QED BY <3>1, <3>3 DEF BusAsExpected, IdleState, StartState, TxState, RestartState,
                                SendStopState, StopState
    <2>4. CASE call.op # "read"
      <3>1. pc' = "idle" /\ result' = "OK"
        BY <1>9, <2>4 DEF AfterStop, Return
      <3>2. ~rxifg /\ engine = "free" /\ AllWritten
        BY <1>2, <2>1, <2>2, <2>4 DEF StopState, IsRead
      <3>3. IdleState'
        BY <1>2, <2>1, <2>2, <2>4, <3>1, <3>2 DEF IdleState, AllWritten, IsRead
      <3> QED BY <3>1, <3>3 DEF BusAsExpected, StartState, TxState, RestartState, RxState,
                                SendStopState, StopState
    <2> QED BY <2>3, <2>4
  <1> QED BY <1>4, <1>5, <1>6, <1>7, <1>8, <1>9 DEF Proceed

LEMMA FinishInv == Inv /\ SoftwareStep /\ Live /\ WaitIsOver /\ Finish => Inv'
  BY FinishBase, ErrorLive, ProceedLive DEF Finish, Base, Inv
LEMMA PollBitInv == Inv /\ PollBit => Inv'
  <1> SUFFICES ASSUME Inv, PollBit
               PROVE  Inv'
    OBVIOUS
  <1>1. SoftwareStep /\ UNCHANGED expired /\ pc \in {"start", "restart", "stop"}
    BY DEF PollBit, SoftwareStep, Inv, TypeOK
  <1>2. CASE Pending /\ retries > 1 /\ CountDown
    <2>1. retries > 0
      BY <1>2 DEF Inv, TypeOK
    <2> QED BY <1>1, <1>2, <2>1, CountDownInv
  <1>3. CASE ReturnError("ERROR_TIMEOUT")
    BY <1>1, <1>3, TimeoutInv
  <1>4. CASE ~Pending /\ Finish
    <2>1. WaitIsOver
      BY <1>1, <1>4 DEF WaitIsOver
    <2>2. CASE Live
      BY <1>1, <1>4, <2>1, <2>2, FinishInv
    <2>3. CASE ~Live
      <3>1. expired'
        BY <1>1, <2>3 DEF Live, Inv, WhereTheCallIs, TypeOK
      <3> QED BY <1>1, <1>4, <3>1, FinishBase DEF Base, Inv, BusAsExpected, Live
    <2> QED BY <2>2, <2>3
  <1> QED BY <1>2, <1>3, <1>4 DEF PollBit

(* A wait that runs out at zero goes on as if its flag had been set: the   *)
(* call is then no longer Live.                                            *)
LEMMA PollFlagInv == Inv /\ PollFlag => Inv'
  <1> SUFFICES ASSUME Inv, PollFlag
               PROVE  Inv'
    OBVIOUS
  <1>1. SoftwareStep /\ pc \in {"tx", "rx"}
    BY DEF PollFlag, SoftwareStep, Inv, TypeOK
  <1>2. CASE retries > 0 /\ CountDown /\ UNCHANGED expired
    BY <1>1, <1>2, CountDownInv
  <1>3. CASE Finish /\ expired' = TRUE
    BY <1>1, <1>3, FinishBase DEF Base, Inv, BusAsExpected, Live
  <1>4. CASE ReturnError("ERROR_TIMEOUT")
    BY <1>1, <1>4, TimeoutInv
  <1>5. CASE Flag /\ Finish /\ UNCHANGED expired
    <2>1. WaitIsOver
      BY <1>1, <1>5 DEF WaitIsOver
    <2>2. CASE Live
      BY <1>1, <1>5, <2>1, <2>2, FinishInv
    <2>3. CASE ~Live
      <3>1. expired'
        BY <1>1, <1>5, <2>3 DEF Live, Inv, WhereTheCallIs, TypeOK
      <3> QED BY <1>1, <1>5, <3>1, FinishBase DEF Base, Inv, BusAsExpected, Live
    <2> QED BY <2>2, <2>3
  <1> QED BY <1>2, <1>3, <1>4, <1>5 DEF PollFlag

(* i2c_stop_transfer, before its wait. *)
LEMMA SendStopInv == Inv /\ SendStop => Inv'
  <1> SUFFICES ASSUME Inv, SendStop
               PROVE  Inv'
    OBVIOUS
  <1>1. /\ pc = "send_stop" /\ pc' = "stop" /\ retries' = RetryCount
        /\ ctl' = [ctl EXCEPT !.txstp = TRUE]
        /\ UNCHANGED <<call, i, data, result, expired, txbuf, txifg, rxbuf, rxifg>>
        /\ UNCHANGED <<nack, engine, shift, sent, got>>
    BY DEF SendStop, WaitFor, hardware
  <1>2. RetryCount \in 0 .. RetryCount
    BY BoundsAssumption
  <1>3. ctl \in [tr : BOOLEAN, txstt : BOOLEAN, txstp : BOOLEAN]
    BY DEF Inv, TypeOK
  <1>4. TypeOK'
    BY <1>1, <1>2 DEF Inv, TypeOK
  <1>5. WhereTheCallIs' /\ OneByteAhead' /\ ShiftIsSending'
    BY <1>1 DEF Inv, WhereTheCallIs, OneByteAhead, ShiftIsSending, Stored
  <1>6. SendStopState => StopState'
    BY <1>1, <1>3 DEF SendStopState, StopState, StoredSoFar, Receives, Sending, Refused, InOrder,
                      IsRead
  <1>7. BusAsExpected'
    BY <1>1, <1>6 DEF Inv, BusAsExpected, Live, IdleState, StartState, TxState, RestartState,
                      RxState, SendStopState
  <1> QED BY <1>4, <1>5, <1>7 DEF Inv

-----------------------------------------------------------------------------
(* The bus moves on while the software waits. *)
LEMMA AddressRefusedInv == Inv /\ AddressRefused => Inv'
  <1> SUFFICES ASSUME Inv, AddressRefused
               PROVE  Inv'
    OBVIOUS
  <1>1. /\ ctl.txstt /\ Free
        /\ ctl' = [ctl EXCEPT !.txstt = FALSE] /\ nack' = TRUE /\ engine' = "nacked"
        /\ UNCHANGED <<pc, call, i, retries, data, result, expired>>
        /\ UNCHANGED <<txbuf, txifg, rxbuf, rxifg, shift, sent, got>>
    BY DEF AddressRefused, software
  <1>2. ctl \in [tr : BOOLEAN, txstt : BOOLEAN, txstp : BOOLEAN]
    BY DEF Inv, TypeOK
  <1>3. TypeOK'
    BY <1>1 DEF Inv, TypeOK
  <1>4. WhereTheCallIs' /\ OneByteAhead'
    BY <1>1 DEF Inv, WhereTheCallIs, OneByteAhead
  <1>5. ShiftIsSending'
    BY <1>1 DEF Inv, ShiftIsSending, Free
  <1>6. Live' => Live /\ pc \in {"start", "restart"}
    BY <1>1 DEF Live, Inv, TypeOK, BusAsExpected, IdleState, TxState, RxState, SendStopState, StopState
  <1>7. BusAsExpected'
    BY <1>1, <1>2, <1>6 DEF Inv, BusAsExpected, IdleState, StartState, TxState, RestartState,
                            RxState, SendStopState, StopState, Sending, Refused
  <1> QED BY <1>3, <1>4, <1>5, <1>7 DEF Inv

LEMMA AddressTakenInv == Inv /\ AddressTaken => Inv'
  <1> SUFFICES ASSUME Inv, AddressTaken
               PROVE  Inv'
    OBVIOUS
  <1>1. /\ ctl.txstt /\ Free
        /\ ctl' = [ctl EXCEPT !.txstt = FALSE] /\ nack' = FALSE /\ sent' = 0
        /\ UNCHANGED <<pc, call, i, retries, data, result, expired, rxbuf, rxifg>>
        /\ \/ /\ ctl.tr /\ engine' = "tx" /\ got' = <<>> /\ shift' = txbuf
              /\ txbuf' = Empty /\ txifg' = TRUE
           \/ ~ctl.tr /\ engine' = "rx" /\ UNCHANGED <<got, shift, txbuf, txifg>>
    BY DEF AddressTaken, software
  <1>2. ctl \in [tr : BOOLEAN, txstt : BOOLEAN, txstp : BOOLEAN]
    BY DEF Inv, TypeOK
  <1>3. TypeOK'
    <2>1. ctl' \in [tr : BOOLEAN, txstt : BOOLEAN, txstp : BOOLEAN]
      BY <1>1, <1>2
    <2>2. 0 \in 0 .. MaxBytes + 1
      BY BoundsAssumption
    <2>3. <<>> \in Seq(Bytes)
      OBVIOUS
    <2> QED BY <1>1, <2>1, <2>2, <2>3 DEF Inv, TypeOK
  <1>4. Live' => Live /\ pc \in {"start", "restart"}
    BY <1>1 DEF Live, Inv, TypeOK, BusAsExpected, IdleState, TxState, RxState, SendStopState, StopState
  <1>5. WhereTheCallIs'
    BY <1>1 DEF Inv, WhereTheCallIs
  <1>6. OneByteAhead'
    <2>1. call.size \in Nat \ {0} /\ i \in Nat
      BY DEF Inv, TypeOK, Calls
    <2>2. call.op = "read" => Stored \in Nat
      BY <2>1 DEF Inv, WhereTheCallIs, Stored
    <2>3. Stored' = Stored
      BY <1>1 DEF Stored
    <2>4. engine' = "rx" => call.op = "read"
      BY <1>1 DEF Inv, WhereTheCallIs
    <2> QED BY <1>1, <2>2, <2>3, <2>4 DEF OneByteAhead
  <1>7. ShiftIsSending'
    BY <1>1 DEF Inv, ShiftIsSending, Free
  <1>8. ASSUME Live, pc = "start"
        PROVE  StartState'
    <2>1. ctl.tr /\ ~ctl.txstp /\ ~rxifg /\ txbuf = 0
      BY <1>1, <1>8 DEF Inv, BusAsExpected, StartState
    <2>2. InOrder(1)'
      <3>1. got' = <<>> /\ Len(got') = 0 /\ shift' = 0 /\ txbuf' = Empty /\ txifg' = TRUE
        BY <1>1, <2>1
      <3>2. <<>> = [n \in 1 .. 0 |-> n - 1]
        OBVIOUS
      <3> QED BY <3>1, <3>2, EmptyIsNoByte DEF InOrder
    <2> QED BY <1>1, <1>2, <2>1, <2>2 DEF StartState, Sending
  <1>9. ASSUME Live, pc = "restart"
        PROVE  RestartState'
    BY <1>1, <1>2, <1>9 DEF Inv, BusAsExpected, RestartState, Receives
  <1>10. BusAsExpected'
    BY <1>1, <1>4, <1>8, <1>9 DEF BusAsExpected, IdleState, StartState, TxState, RestartState,
                                  RxState, SendStopState, StopState
  <1> QED BY <1>3, <1>5, <1>6, <1>7, <1>10 DEF Inv
(* A transmitter at work: the wait it is in and the bytes of the call.     *)
Transmits(k) ==
    /\ engine = "tx" /\ ~nack /\ InOrder(k) /\ ~ctl.txstt /\ ~rxifg
    /\ \/ pc = "start" /\ k = 1 /\ ctl.tr /\ ~ctl.txstp
       \/ pc = "tx" /\ k = i + 1 /\ ~ctl.txstp
       \/ pc = "send_stop" /\ ~IsRead /\ k = call.size + 1 /\ txbuf = Empty /\ ~ctl.txstp
       \/ pc = "stop" /\ ~IsRead /\ k = call.size + 1 /\ txbuf = Empty /\ ctl.txstp

LEMMA TransmitsWhenLive ==
    Inv /\ Live /\ engine = "tx" => (\E k \in Nat : Transmits(k)) \/ (pc = "restart" /\ ctl.txstt)
  <1> SUFFICES ASSUME Inv, Live, engine = "tx"
               PROVE  (\E k \in Nat : Transmits(k)) \/ (pc = "restart" /\ ctl.txstt)
    OBVIOUS
  <1>1. call.size \in Nat /\ i \in Nat /\ TypeOK
    BY DEF Inv, TypeOK, Calls
  <1>2. CASE pc = "start"
    <2>1. Transmits(1)
      BY <1>2 DEF Inv, BusAsExpected, StartState, Sending, Refused, Transmits
    <2> QED BY <2>1
  <1>3. CASE pc = "tx"
    <2>1. Transmits(i + 1)
      BY <1>3 DEF Inv, BusAsExpected, TxState, Sending, Refused, Transmits
    <2> QED BY <1>1, <2>1
  <1>4. CASE pc = "send_stop"
    <2>1. Transmits(call.size + 1)
      BY <1>4 DEF Inv, BusAsExpected, SendStopState, Sending, Refused, Receives, Transmits
    <2> QED BY <1>1, <2>1
  <1>5. CASE pc = "stop"
    <2>1. Transmits(call.size + 1)
      BY <1>5 DEF Inv, BusAsExpected, StopState, Sending, Refused, Receives, LastByteIsIn, Transmits
    <2> QED BY <1>1, <2>1
  <1>6. pc # "idle" /\ pc # "rx" /\ (pc = "restart" => ctl.txstt)
    BY DEF Inv, BusAsExpected, IdleState, RxState, RestartState, Refused, Receives, LastByteIsIn
  <1> QED BY <1>1, <1>2, <1>3, <1>4, <1>5, <1>6 DEF TypeOK

(* A transmitter that takes or sends a byte has as many bytes as before.   *)
LEMMA TransmitsOn ==
    ASSUME NEW k \in Nat, Transmits(k), InOrder(k)', engine' = "tx", txbuf = Empty => txbuf' = Empty,
           UNCHANGED <<pc, call, i, data, result, expired, ctl, rxifg, nack>>
    PROVE  BusAsExpected'
  <1>1. CASE pc = "start"
    BY <1>1 DEF Transmits, BusAsExpected, IdleState, StartState, TxState, RestartState, RxState,
                SendStopState, StopState, Sending
  <1>2. CASE pc = "tx"
    <2>1. InOrder(i + 1)'
      BY <1>2 DEF Transmits, InOrder
    <2>2. TxState'
      BY <1>2, <2>1 DEF Transmits, TxState, Sending
    <2> QED BY <1>2, <2>2 DEF BusAsExpected, IdleState, StartState, RestartState, RxState,
                              SendStopState, StopState
  <1>3. CASE pc \in {"send_stop", "stop"}
    <2>1. InOrder(call.size + 1)'
      BY <1>3 DEF Transmits, InOrder
    <2>2. SendStopState' /\ StopState'
      BY <1>3, <2>1 DEF Transmits, SendStopState, StopState, Sending, IsRead
    <2> QED BY <1>3, <2>2 DEF BusAsExpected, IdleState, StartState, TxState, RestartState, RxState
  <1> QED BY <1>1, <1>2, <1>3 DEF Transmits

LEMMA ByteTakenInv == Inv /\ ByteTaken => Inv'
  <1> SUFFICES ASSUME Inv, ByteTaken
               PROVE  Inv'
    OBVIOUS
  <1>1. /\ engine = "tx" /\ shift # Empty
        /\ got' = Append(got, shift) /\ shift' = txbuf /\ txbuf' = Empty
        /\ txifg' = (txifg \/ txbuf # Empty)
        /\ UNCHANGED <<pc, call, i, retries, data, result, expired>>
        /\ UNCHANGED <<ctl, rxbuf, rxifg, nack, engine, sent>>
    BY DEF ByteTaken, software
  <1>2. TypeOK'
    <2>1. shift \in Bytes /\ got \in Seq(Bytes)
      BY <1>1 DEF Inv, TypeOK
    <2>2. got' \in Seq(Bytes)
      BY <1>1, <2>1
    <2>3. txifg' \in BOOLEAN
      BY <1>1
    <2> QED BY <1>1, <2>2, <2>3 DEF Inv, TypeOK
  <1>3. WhereTheCallIs' /\ OneByteAhead' /\ ShiftIsSending'
    BY <1>1 DEF Inv, WhereTheCallIs, OneByteAhead, ShiftIsSending
  <1>4. ASSUME Live
        PROVE  BusAsExpected'
    <2>1. CASE pc = "restart" /\ ctl.txstt
      BY <1>1, <1>4, <2>1 DEF Inv, BusAsExpected, IdleState, StartState, TxState, RestartState,
                              RxState, SendStopState, StopState
    <2>2. ASSUME NEW k \in Nat, Transmits(k)
          PROVE  BusAsExpected'
      <3>1. InOrder(k)
        BY <2>2 DEF Transmits
      <3>2. got \in Seq(Bytes) /\ Len(got) \in Nat /\ shift = Len(got) /\ shift \in Bytes
        BY <1>1, <3>1 DEF Inv, TypeOK, InOrder
      <3>3. Len(got') = Len(got) + 1
        BY <1>1, <3>2
      <3>4. got' = [n \in 1 .. Len(got') |-> n - 1]
        <4>1. got' \in Seq(Bytes)
          BY <1>1, <3>2
        <4>2. DOMAIN got' = 1 .. Len(got')
          BY <4>1
        <4>3. ASSUME NEW n \in 1 .. Len(got')
              PROVE  got'[n] = n - 1
          <5>1. CASE n = Len(got) + 1
            BY <1>1, <3>2, <5>1
          <5>2. CASE n \in 1 .. Len(got)
            <6>1. got'[n] = got[n]
              BY <1>1, <3>2, <5>2
            <6>2. got[n] = n - 1
              BY <3>1, <5>2 DEF InOrder
            <6> QED BY <6>1, <6>2
          <5> QED BY <3>2, <3>3, <4>3, <5>1, <5>2
        <4>4. got' = [n \in DOMAIN got' |-> got'[n]]
          BY <4>1
        <4> QED BY <4>2, <4>3, <4>4
      <3>5. txbuf # Empty => txbuf = Len(got) + 1
        BY <1>1, <3>1 DEF InOrder
      <3>6. shift' \in {Len(got'), Empty}
        BY <1>1, <3>3, <3>5
      <3>7. /\ k = Len(got) + 1 + (IF txbuf = Empty THEN 0 ELSE 1)
            /\ txifg <=> txbuf = Empty
        BY <1>1, <3>1 DEF InOrder
      <3>8. k = Len(got') + (IF shift' = Empty THEN 0 ELSE 1) + 0
        BY <1>1, <3>2, <3>3, <3>7
      <3>9. InOrder(k)'
        BY <1>1, <3>4, <3>6, <3>7, <3>8 DEF InOrder
      <3> QED BY <1>1, <2>2, <3>9, TransmitsOn
    <2> QED BY <1>1, <1>4, <2>1, <2>2, TransmitsWhenLive
  <1>5. BusAsExpected'
    BY <1>1, <1>4 DEF BusAsExpected, Live
  <1> QED BY <1>2, <1>3, <1>5 DEF Inv

LEMMA ByteLoadedInv == Inv /\ ByteLoaded => Inv'
  <1> SUFFICES ASSUME Inv, ByteLoaded
               PROVE  Inv'
    OBVIOUS
  <1>1. /\ engine = "tx" /\ shift = Empty /\ txbuf # Empty
        /\ shift' = txbuf /\ txbuf' = Empty /\ txifg' = TRUE
        /\ UNCHANGED <<pc, call, i, retries, data, result, expired>>
        /\ UNCHANGED <<ctl, rxbuf, rxifg, nack, engine, sent, got>>
    BY DEF ByteLoaded, software
  <1>2. TypeOK'
    BY <1>1 DEF Inv, TypeOK
  <1>3. WhereTheCallIs' /\ OneByteAhead' /\ ShiftIsSending'
    BY <1>1 DEF Inv, WhereTheCallIs, OneByteAhead, ShiftIsSending
  <1>4. ASSUME Live
        PROVE  BusAsExpected'
    <2>1. CASE pc = "restart" /\ ctl.txstt
      BY <1>1, <1>4, <2>1 DEF Inv, BusAsExpected, IdleState, StartState, TxState, RestartState,
                              RxState, SendStopState, StopState
    <2>2. ASSUME NEW k \in Nat, Transmits(k)
          PROVE  BusAsExpected'
      <3>1. InOrder(k)'
        BY <1>1, <2>2 DEF Transmits, InOrder, Inv, TypeOK
      <3> QED BY <1>1, <2>2, <3>1, TransmitsOn
    <2> QED BY <1>1, <1>4, <2>1, <2>2, TransmitsWhenLive
  <1>5. BusAsExpected'
    BY <1>1, <1>4 DEF BusAsExpected, Live
  <1> QED BY <1>2, <1>3, <1>5 DEF Inv

LEMMA ByteRefusedInv == Inv /\ ByteRefused => Inv'
  <1> SUFFICES ASSUME Inv, ByteRefused
               PROVE  Inv'
    OBVIOUS
  <1>1. /\ engine = "tx" /\ shift # Empty
        /\ engine' = "nacked" /\ nack' = TRUE /\ shift' = Empty
        /\ UNCHANGED <<pc, call, i, retries, data, result, expired>>
        /\ UNCHANGED <<ctl, txbuf, txifg, rxbuf, rxifg, sent, got>>
    BY DEF ByteRefused, software
  <1>2. TypeOK'
    BY <1>1 DEF Inv, TypeOK
  <1>3. WhereTheCallIs' /\ OneByteAhead' /\ ShiftIsSending'
    BY <1>1 DEF Inv, WhereTheCallIs, OneByteAhead, ShiftIsSending
  <1>4. ASSUME Live
        PROVE  BusAsExpected'
    <2>1. CASE pc = "restart" /\ ctl.txstt
      BY <1>1, <1>4, <2>1 DEF Inv, BusAsExpected, IdleState, StartState, TxState, RestartState,
                              RxState, SendStopState, StopState
    <2>2. ASSUME NEW k \in Nat, Transmits(k)
          PROVE  BusAsExpected'
      BY <1>1, <2>2 DEF Transmits, BusAsExpected, IdleState, StartState, TxState, RestartState,
                        RxState, SendStopState, StopState, Sending, Refused, IsRead
    <2> QED BY <1>1, <1>4, <2>1, <2>2, TransmitsWhenLive
  <1>5. BusAsExpected'
    BY <1>1, <1>4 DEF BusAsExpected, Live
  <1> QED BY <1>2, <1>3, <1>5 DEF Inv
(* A byte comes only when the one before it was read; with UCTXSTP set it  *)
(* is the last.                                                            *)
LEMMA ByteReceivedInv == Inv /\ ByteReceived => Inv'
  <1> SUFFICES ASSUME Inv, ByteReceived
               PROVE  Inv'
    OBVIOUS
  <1>1. /\ engine = "rx" /\ ~rxifg
        /\ sent' = sent + 1 /\ rxbuf' = sent + 1 /\ rxifg' = TRUE
        /\ UNCHANGED <<pc, call, i, retries, data, result, expired>>
        /\ UNCHANGED <<txbuf, txifg, nack, shift, got>>
    BY DEF ByteReceived, software
  <1>2. \/ ctl.txstp /\ engine' = "free" /\ ctl' = [ctl EXCEPT !.txstp = FALSE]
        \/ ~ctl.txstp /\ UNCHANGED <<engine, ctl>>
    BY DEF ByteReceived
  <1>3. ctl \in [tr : BOOLEAN, txstt : BOOLEAN, txstp : BOOLEAN]
    BY DEF Inv, TypeOK
  <1>4. call.size \in 1 .. MaxBytes /\ i \in Nat /\ sent \in Nat /\ MaxBytes \in Nat
    BY BoundsAssumption DEF Inv, TypeOK, Calls
  <1>5. call.op = "read" /\ sent <= Stored /\ Stored \in Nat /\ Stored <= call.size
    BY <1>1, <1>4 DEF Inv, OneByteAhead, WhereTheCallIs, Stored
  <1>6. TypeOK'
    <2>1. sent + 1 \in 0 .. MaxBytes + 1
      BY <1>4, <1>5
    <2>2. /\ ctl' \in [tr : BOOLEAN, txstt : BOOLEAN, txstp : BOOLEAN]
          /\ engine' \in {"free", "rx"}
      BY <1>1, <1>2, <1>3
    <2> QED BY <1>1, <2>1, <2>2 DEF Inv, TypeOK
  <1>7. WhereTheCallIs'
    BY <1>1, <1>2, <1>3 DEF Inv, WhereTheCallIs
  <1>8. OneByteAhead'
    <2>1. Stored' = Stored
      BY <1>1 DEF Stored
    <2> QED BY <1>1, <1>4, <1>5, <2>1 DEF OneByteAhead
  <1>9. ShiftIsSending'
    BY <1>1, <1>2 DEF Inv, ShiftIsSending
  <1>10. ASSUME Live
         PROVE  BusAsExpected'
    <2>1. CASE pc = "restart"
      <3>1. ~ctl.txstp /\ ~ctl.tr /\ ~ctl.txstt /\ Receives(0)
        BY <1>1, <1>10, <2>1 DEF Inv, BusAsExpected, RestartState, Refused
      <3>2. RestartState'
        BY <1>1, <1>2, <3>1 DEF RestartState, Receives
      <3> QED BY <1>1, <2>1, <3>2 DEF BusAsExpected, IdleState, StartState, TxState, RxState,
                                      SendStopState, StopState
    <2>2. CASE pc = "rx"
      <3>1. ~ctl.txstp /\ ~ctl.txstt /\ StoredSoFar /\ i # 0 /\ Receives(call.size - 1 - i)
        BY <1>1, <1>10, <2>2 DEF Inv, BusAsExpected, RxState, LastByteIsIn
      <3>2. RxState'
        BY <1>1, <1>2, <1>4, <3>1 DEF RxState, Receives, StoredSoFar
      <3> QED BY <1>1, <2>2, <3>2 DEF BusAsExpected, IdleState, StartState, TxState, RestartState,
                                      SendStopState, StopState
    <2>3. CASE pc = "send_stop"
      <3>1. ~ctl.txstp /\ ~ctl.txstt /\ StoredSoFar /\ Receives(call.size - 1)
        BY <1>5, <1>10, <2>3 DEF Inv, BusAsExpected, SendStopState, IsRead
      <3>2. SendStopState'
        BY <1>1, <1>2, <1>4, <1>5, <3>1 DEF SendStopState, Receives, StoredSoFar, IsRead
      <3> QED BY <1>1, <2>3, <3>2 DEF BusAsExpected, IdleState, StartState, TxState, RestartState,
                                      RxState, StopState
    <2>4. CASE pc = "stop"
      <3>1. ctl.txstp /\ ~ctl.txstt /\ StoredSoFar /\ Receives(call.size - 1)
        BY <1>1, <1>5, <1>10, <2>4 DEF Inv, BusAsExpected, StopState, IsRead, LastByteIsIn
      <3>2. LastByteIsIn'
        BY <1>1, <1>2, <1>4, <3>1 DEF LastByteIsIn, Receives
      <3>3. StopState'
        BY <1>1, <1>2, <1>3, <1>5, <3>1, <3>2 DEF StopState, StoredSoFar, IsRead
      <3> QED BY <1>1, <2>4, <3>3 DEF BusAsExpected, IdleState, StartState, TxState, RestartState,
                                      RxState, SendStopState
    <2>5. pc \in {"restart", "rx", "send_stop", "stop"}
      BY <1>1, <1>10 DEF Inv, TypeOK, BusAsExpected, IdleState, StartState, TxState, Sending, Refused
    <2> QED BY <2>1, <2>2, <2>3, <2>4, <2>5
  <1>11. BusAsExpected'
    BY <1>1, <1>10 DEF BusAsExpected, Live
  <1> QED BY <1>6, <1>7, <1>8, <1>9, <1>11 DEF Inv

(* A write's stop is seen when its last byte was acknowledged or refused.  *)
LEMMA StoppedInv == Inv /\ Stopped => Inv'
  <1> SUFFICES ASSUME Inv, Stopped
               PROVE  Inv'
    OBVIOUS
  <1>1. /\ ctl.txstp
        /\ (engine = "tx" /\ shift = Empty) \/ engine = "nacked"
        /\ engine' = "free" /\ ctl' = [ctl EXCEPT !.txstp = FALSE]
        /\ UNCHANGED <<pc, call, i, retries, data, result, expired>>
        /\ UNCHANGED <<txbuf, txifg, rxbuf, rxifg, nack, shift, sent, got>>
    BY DEF Stopped, software
  <1>2. ctl \in [tr : BOOLEAN, txstt : BOOLEAN, txstp : BOOLEAN]
    BY DEF Inv, TypeOK
  <1>3. TypeOK'
    <2>1. ctl' \in [tr : BOOLEAN, txstt : BOOLEAN, txstp : BOOLEAN]
      BY <1>1, <1>2
    <2> QED BY <1>1, <2>1 DEF Inv, TypeOK
  <1>4. WhereTheCallIs' /\ OneByteAhead' /\ ShiftIsSending'
    BY <1>1, <1>2 DEF Inv, WhereTheCallIs, OneByteAhead, ShiftIsSending
  <1>5. ASSUME Live
        PROVE  BusAsExpected'
    <2>1. pc = "stop"
      BY <1>1, <1>5 DEF Inv, TypeOK, BusAsExpected, IdleState, StartState, TxState, RestartState,
                        RxState, SendStopState
    <2>2. /\ ~ctl.txstt /\ ~IsRead /\ ~rxifg
          /\ Sending(call.size + 1) /\ txbuf = Empty
      BY <1>1, <1>5, <2>1 DEF Inv, BusAsExpected, StopState, Receives
    <2>3. nack \/ AllWritten
      <3>1. CASE ~nack
        <4>1. InOrder(call.size + 1) /\ shift = Empty
          BY <1>1, <2>2, <3>1 DEF Sending, Refused
        <4>2. Len(got) = call.size + 1
          BY <2>2, <4>1 DEF InOrder, Inv, TypeOK
        <4> QED BY <4>1, <4>2 DEF InOrder, AllWritten
      <3> QED BY <3>1
    <2>4. StopState'
      BY <1>1, <1>2, <2>2, <2>3 DEF StopState, IsRead, AllWritten
    <2> QED BY <1>1, <2>1, <2>4 DEF BusAsExpected, IdleState, StartState, TxState, RestartState,
                                    RxState, SendStopState
  <1>6. BusAsExpected'
    BY <1>1, <1>5 DEF BusAsExpected, Live
  <1> QED BY <1>3, <1>4, <1>6 DEF Inv

LEMMA StutterInv == Inv /\ UNCHANGED vars => Inv'
  <1> SUFFICES ASSUME Inv, UNCHANGED vars
               PROVE  Inv'
    OBVIOUS
  <1>1. /\ UNCHANGED <<pc, call, i, retries, data, result, expired>>
        /\ UNCHANGED <<ctl, txbuf, txifg, rxbuf, rxifg>>
        /\ UNCHANGED <<nack, engine, shift, sent, got>>
    BY DEF vars, software, hardware
  <1>2. TypeOK' /\ WhereTheCallIs' /\ OneByteAhead' /\ ShiftIsSending'
    BY <1>1 DEF Inv, TypeOK, WhereTheCallIs, OneByteAhead, ShiftIsSending, Stored
  <1>3. BusAsExpected'
    <2>1. IdleState => IdleState'
      BY <1>1 DEF IdleState, IsRead, AllRead, AllWritten
    <2>2. StartState => StartState'
      BY <1>1 DEF StartState, Sending, Refused, InOrder
    <2>3. TxState => TxState'
      BY <1>1 DEF TxState, Sending, Refused, InOrder
    <2>4. RestartState => RestartState'
      BY <1>1 DEF RestartState, Refused, Receives
    <2>5. RxState => RxState'
      BY <1>1 DEF RxState, StoredSoFar, Receives, LastByteIsIn
    <2>6. SendStopState => SendStopState'
      BY <1>1 DEF SendStopState, StoredSoFar, Receives, Sending, Refused, InOrder, IsRead
    <2>7. StopState => StopState'
      BY <1>1 DEF StopState, StoredSoFar, Receives, LastByteIsIn, Sending, Refused, InOrder,
                  AllWritten, IsRead
    <2> QED BY <1>1, <2>1, <2>2, <2>3, <2>4, <2>5, <2>6, <2>7 DEF Inv, BusAsExpected, Live
  <1> QED BY <1>2, <1>3 DEF Inv

-----------------------------------------------------------------------------
(* At every wait the bus is in the state the call takes it to be in, for   *)
(* every order of the bus's steps and the polls, and whatever is refused.  *)
THEOREM InvCorrect == Spec => []Inv
  <1>1. Inv /\ [Next]_vars => Inv'
    <2> SUFFICES ASSUME Inv, [Next]_vars
                 PROVE  Inv'
      OBVIOUS
    <2>1. CASE SendAddr
      BY <2>1, SendAddrInv
    <2>2. CASE Waiting
      BY <2>2, PollBitInv, PollFlagInv, SendStopInv DEF Waiting
    <2>3. CASE Bus
      BY <2>3, AddressTakenInv, AddressRefusedInv, ByteTakenInv, ByteLoadedInv, ByteRefusedInv,
         ByteReceivedInv, StoppedInv DEF Bus
    <2>4. CASE UNCHANGED vars
      BY <2>4, StutterInv
    <2> QED BY <2>1, <2>2, <2>3, <2>4 DEF Next
  <1> QED BY InitInv, <1>1, PTL DEF Spec

(* Every variable of the driver and of the bus keeps its type, also after  *)
(* a wait that ran out: the index never leaves the buffer, and the device  *)
(* never sends more than one byte too many.                                *)
THEOREM TypeCorrect == Spec => []TypeOK
  <1>1. Inv => TypeOK
    BY DEF Inv
  <1> QED BY InvCorrect, <1>1, PTL

(* A transfer that succeeds, with no wait run out, is complete: each byte  *)
(* of a read is stored once and in its place, each byte of a write was     *)
(* acknowledged.                                                           *)
THEOREM CompleteCorrect == Spec => []TransfersAreComplete
  <1>1. Inv => TransfersAreComplete
    BY DEF Inv, BusAsExpected, Live, IdleState, IsRead, Succeeded, TransfersAreComplete
  <1> QED BY InvCorrect, <1>1, PTL

(* It leaves the bus free and nothing of it for the next call.             *)
THEOREM FreesBusCorrect == Spec => []SuccessFreesBus
  <1>1. Inv => SuccessFreesBus
    BY DEF Inv, BusAsExpected, Live, IdleState, Succeeded, SuccessFreesBus
  <1> QED BY InvCorrect, <1>1, PTL

-----------------------------------------------------------------------------
(* A wait less outweighs all the retries of the next one. *)
LEMMA WaitOutweighsRetries ==
    ASSUME NEW w \in Nat, NEW w2 \in Nat, w2 < w, NEW r \in 0 .. RetryCount,
           NEW r2 \in 0 .. RetryCount
    PROVE  w2 * (RetryCount + 1) + r2 < w * (RetryCount + 1) + r
  <1> DEFINE k == RetryCount + 1
             d == w - (w2 + 1)
  <1>1. k \in Nat /\ d \in Nat /\ w = w2 + 1 + d
    BY BoundsAssumption
  <1>2. r \in Nat /\ r2 \in Nat /\ r2 < k
    BY BoundsAssumption
  <1> HIDE DEF k, d
  <1>3. w * k = w2 * k + k + d * k
    BY ONLY <1>1, w \in Nat, w2 \in Nat
  <1>4. d * k \in Nat /\ w2 * k \in Nat
    BY ONLY <1>1, w2 \in Nat
  <1>5. w2 * k + r2 < w * k + r
    BY ONLY <1>1, <1>2, <1>3, <1>4
  <1> QED BY <1>5 DEF k

LEMMA WaitsAreCounted ==
    Inv => WaitsLeft \in 0 .. call.size + 5 /\ call.size \in Nat \ {0} /\ i \in Nat
           /\ (pc # "idle" => WaitsLeft > 0)
  <1> SUFFICES ASSUME Inv
               PROVE  WaitsLeft \in 0 .. call.size + 5 /\ call.size \in Nat \ {0} /\ i \in Nat
                      /\ (pc # "idle" => WaitsLeft > 0)
    OBVIOUS
  <1>1. /\ call.size \in Nat \ {0} /\ i \in Nat
        /\ pc \in {"idle", "start", "tx", "restart", "rx", "send_stop", "stop"}
    BY DEF Inv, TypeOK, Calls
  <1>2. (pc = "tx" => i <= call.size) /\ (pc = "rx" => i < call.size)
    BY DEF Inv, WhereTheCallIs
  <1> QED BY <1>1, <1>2 DEF WaitsLeft

(* A wait that is over is never come to again. *)
LEMMA ProceedCounts ==
    ASSUME Inv, Proceed, call' = call
    PROVE  WaitsLeft' < WaitsLeft
  <1>1. /\ call.size \in Nat \ {0} /\ i \in Nat /\ call.op \in {"read", "write"}
        /\ pc = "start" => i = 0
        /\ pc = "restart" => call.op = "read"
        /\ pc = "tx" => i <= call.size
        /\ pc = "rx" => call.op = "read" /\ i < call.size
        /\ pc \in {"send_stop", "stop"} => i = IF call.op = "read" THEN 0 ELSE call.size
    BY DEF Inv, TypeOK, Calls, WhereTheCallIs
  <1>2. CASE AfterStart
    <2>1. pc = "start" /\ pc' = "tx" /\ i' = 0
      BY <1>1, <1>2 DEF AfterStart, WaitFor
    <2> QED BY <1>1, <2>1 DEF WaitsLeft
  <1>3. CASE Restart
    <2>1. pc = "tx" /\ call.op = "read" /\ pc' = "restart"
      BY <1>3 DEF Restart, WaitFor
    <2> QED BY <1>1, <2>1 DEF WaitsLeft
  <1>4. CASE SendByte
    <2>1. /\ pc = "tx" /\ call.op = "write"
          /\ \/ i < call.size /\ pc' = "tx" /\ i' = i + 1
             \/ i = call.size /\ pc' = "send_stop"
      BY <1>1, <1>4 DEF SendByte, WaitFor
    <2>2. WaitsLeft = call.size - i + 3
      BY <2>1 DEF WaitsLeft
    <2>3. CASE i < call.size /\ pc' = "tx" /\ i' = i + 1
      <3>1. WaitsLeft' = call.size - (i + 1) + 3
        BY <2>1, <2>3 DEF WaitsLeft
      <3> QED BY <1>1, <2>2, <3>1
    <2>4. CASE i = call.size /\ pc' = "send_stop"
      <3>1. WaitsLeft' = 2
        BY <2>1, <2>4 DEF WaitsLeft
      <3> QED BY <1>1, <2>2, <2>4, <3>1
    <2> QED BY <2>1, <2>3, <2>4
  <1>5. CASE Receiving
    <2>1. pc = "restart" /\ i' = call.size - 1 /\ pc' = IF call.size > 1 THEN "rx" ELSE "send_stop"
      BY <1>5 DEF Receiving, WaitFor
    <2>2. WaitsLeft = call.size + 3
      BY <2>1 DEF WaitsLeft
    <2>3. CASE call.size > 1
      <3>1. i' # 0 /\ pc' = "rx"
        BY <1>1, <2>1, <2>3
      <3>2. WaitsLeft' = call.size - 1 + 3
        BY <2>1, <3>1 DEF WaitsLeft
      <3> QED BY <1>1, <2>2, <3>2
    <2>4. CASE ~(call.size > 1)
      <3>1. WaitsLeft' = 3
        BY <1>1, <2>1, <2>4 DEF WaitsLeft
      <3> QED BY <1>1, <2>2, <3>1
    <2> QED BY <2>3, <2>4
  <1>6. CASE StoreByte
    <2>1. /\ pc = "rx" /\ i' = IF i = 0 THEN 0 ELSE i - 1
          /\ pc' = IF i = 0 THEN "idle" ELSE IF i > 1 THEN "rx" ELSE "send_stop"
      BY <1>6 DEF StoreByte, WaitFor, Return
    <2>2. CASE i = 0
      BY <2>1, <2>2 DEF WaitsLeft
    <2>3. CASE i = 1
      <3>1. WaitsLeft = 4 /\ WaitsLeft' = 3
        BY <1>1, <2>1, <2>3 DEF WaitsLeft
      <3> QED BY <3>1
    <2>4. CASE i > 1
      <3>1. pc' = "rx" /\ i' = i - 1 /\ i' # 0
        BY <1>1, <2>1, <2>4
      <3>2. WaitsLeft = i + 3 /\ WaitsLeft' = i - 1 + 3
        BY <1>1, <2>1, <2>4, <3>1 DEF WaitsLeft
      <3> QED BY <1>1, <3>2
    <2> QED BY <1>1, <2>2, <2>3, <2>4
  <1>7. CASE AfterStop
    <2>1. /\ pc = "stop" /\ i' = i
          /\ pc' = IF call.op = "read" THEN "rx" ELSE "idle"
      BY <1>7 DEF AfterStop, WaitFor, Return
    <2>2. CASE call.op = "read"
      <3>1. pc' = "rx" /\ i' = 0
        BY <1>1, <2>1, <2>2
      <3> QED BY <2>1, <2>2, <3>1 DEF WaitsLeft
    <2>3. CASE call.op # "read"
      BY <2>1, <2>3 DEF WaitsLeft
    <2> QED BY <2>2, <2>3
  <1> QED BY <1>2, <1>3, <1>4, <1>5, <1>6, <1>7 DEF Proceed

LEMMA FinishCounts ==
    ASSUME Inv, Finish, call' = call, pc # "idle"
    PROVE  WaitsLeft' < WaitsLeft
  <1>1. CASE ReturnError(ErrorOf(pc))
    <2>1. WaitsLeft' = 0
      BY <1>1 DEF ReturnError, Return, WaitsLeft
    <2>2. WaitsLeft \in Nat /\ WaitsLeft > 0
      BY WaitsAreCounted
    <2> QED BY <2>1, <2>2
  <1> QED BY <1>1, ProceedCounts DEF Finish

(* An iteration counts the retries down or is the last of its wait. *)
LEMMA WaitingCounts ==
    ASSUME Inv, Waiting
    PROVE  \/ WaitsLeft' = WaitsLeft /\ retries' = retries - 1
           \/ WaitsLeft' < WaitsLeft
  <1>1. WaitsLeft \in Nat /\ (pc # "idle" => WaitsLeft > 0)
    BY WaitsAreCounted
  <1>2. ASSUME CountDown, call' = call
        PROVE  WaitsLeft' = WaitsLeft /\ retries' = retries - 1
    BY <1>2 DEF CountDown, WaitsLeft
  <1>3. ASSUME NEW r, ReturnError(r), pc # "idle"
        PROVE  WaitsLeft' < WaitsLeft
    <2>1. WaitsLeft' = 0
      BY <1>3 DEF ReturnError, Return, WaitsLeft
    <2> QED BY <1>1, <1>3, <2>1
  <1>4. CASE PollBit
    <2>1. call' = call /\ pc # "idle"
      BY <1>4 DEF PollBit
    <2> QED BY <1>2, <1>3, <1>4, <2>1, FinishCounts DEF PollBit
  <1>5. CASE PollFlag
    <2>1. call' = call /\ pc # "idle"
      BY <1>5 DEF PollFlag
    <2> QED BY <1>2, <1>3, <1>5, <2>1, FinishCounts DEF PollFlag
  <1>6. CASE SendStop
    <2>1. pc = "send_stop" /\ pc' = "stop" /\ call' = call
      BY <1>6 DEF SendStop, WaitFor
    <2> QED BY <2>1 DEF WaitsLeft
  <1> QED BY <1>4, <1>5, <1>6 DEF Waiting

(* Every iteration brings a call closer to its end, whatever the bus does, *)
(* and a call of n bytes has fewer than n + 6 times RETRY_COUNT + 1 of     *)
(* them, for every RETRY_COUNT and n (i2c.c:15-33, 46-54, 104-167).        *)
THEOREM TimeCorrect == Spec => ReturnsInTime
  <1>1. Inv => WaitsLeft \in Nat /\ call.size \in Nat
    BY WaitsAreCounted
  <1>2. ASSUME Inv, Inv', WaitsLeft \in Nat, (WaitsLeft \in Nat /\ call.size \in Nat)', [Next]_vars
        PROVE  [/\ SendAddr => IterationsLeft' < (call'.size + 6) * (RetryCount + 1)
                /\ Waiting => IterationsLeft' < IterationsLeft
                /\ Bus => IterationsLeft' = IterationsLeft]_vars
    <2>1. retries \in 0 .. RetryCount /\ retries' \in 0 .. RetryCount
      BY <1>2 DEF Inv, TypeOK
    <2>2. WaitsLeft \in Nat /\ WaitsLeft' \in Nat /\ call'.size \in Nat
      BY <1>2
    <2>3. SendAddr => IterationsLeft' < (call'.size + 6) * (RetryCount + 1)
      <3> SUFFICES ASSUME SendAddr
                   PROVE  IterationsLeft' < (call'.size + 6) * (RetryCount + 1)
        OBVIOUS
      <3>1. WaitsLeft' = call'.size + 5
        BY DEF SendAddr, WaitsLeft
      <3>2. IterationsLeft' = (call'.size + 5) * (RetryCount + 1) + retries'
        BY <3>1 DEF IterationsLeft
      <3>3. 0 \in 0 .. RetryCount /\ RetryCount + 1 \in Nat
        BY BoundsAssumption
      <3>4. /\ call'.size + 5 \in Nat /\ call'.size + 6 \in Nat
            /\ call'.size + 5 < call'.size + 6
        BY <2>2
      <3>5. (call'.size + 5) * (RetryCount + 1) + retries' < (call'.size + 6) * (RetryCount + 1) + 0
        BY ONLY <2>1, <3>3, <3>4, WaitOutweighsRetries
      <3>6. (call'.size + 6) * (RetryCount + 1) \in Nat
        BY ONLY <3>3, <3>4
      <3> QED BY ONLY <3>2, <3>5, <3>6
    <2>4. Waiting => IterationsLeft' < IterationsLeft
      <3>1. CASE WaitsLeft' = WaitsLeft /\ retries' = retries - 1
        <4>1. WaitsLeft * (RetryCount + 1) \in Nat
          BY <2>2, BoundsAssumption
        <4> QED BY <2>1, <3>1, <4>1 DEF IterationsLeft
      <3>2. CASE WaitsLeft' < WaitsLeft
        BY <2>1, <2>2, <3>2, WaitOutweighsRetries DEF IterationsLeft
      <3> QED BY <1>2, <3>1, <3>2, WaitingCounts
    <2>5. Bus => IterationsLeft' = IterationsLeft
      <3>1. Bus => UNCHANGED software
        BY DEF Bus, AddressTaken, AddressRefused, ByteTaken, ByteLoaded, ByteRefused,
               ByteReceived, Stopped
      <3> QED BY <3>1 DEF software, IterationsLeft, WaitsLeft
    <2> QED BY <2>3, <2>4, <2>5
  <1> QED BY InvCorrect, <1>1, <1>2, PTL DEF Spec, ReturnsInTime
=============================================================================
