--------------------------------- MODULE I2c ---------------------------------
(***************************************************************************)
(* drivers/i2c.c: a polling I2C master.  A read writes the register's      *)
(* address, restarts as receiver, and must ask for the stop before its     *)
(* last byte.  Every wait is a loop that counts retries down: two of the   *)
(* four loops count before they look at the count, two after.              *)
(***************************************************************************)
EXTENDS Naturals, Sequences

CONSTANTS
    RetryCount,     \* RETRY_COUNT, the largest uint16_t in the code
    MaxBytes        \* bound on data_size

ASSUME BoundsAssumption == RetryCount \in Nat \ {0} /\ MaxBytes \in Nat \ {0}

VARIABLES
    pc,             \* where the call is
    call,           \* i2c_read or i2c_write, and its data_size
    i,              \* the loop index of the call
    retries,        \* of the wait under way
    data,           \* what a read has stored: 0, or the number of the byte
    result,         \* what the last call returned
    expired,        \* history: a wait loop ended with its flag not set
    ctl,            \* UCTR, UCTXSTT, UCTXSTP of UCB0CTL1
    txbuf, txifg,   \* UCB0TXBUF; its flag: it may be written
    rxbuf, rxifg,   \* UCB0RXBUF; its flag: it may be read
    nack,           \* UCNACKIFG
    engine,         \* what the bus is in
    shift,          \* the byte being sent
    sent,           \* bytes the device has sent in this transfer
    got             \* the bytes it has acknowledged in this transfer

software == <<pc, call, i, retries, data, result, expired>>
hardware == <<nack, engine, shift, sent, got>>
vars == <<software, ctl, txbuf, txifg, rxbuf, rxifg, hardware>>

Empty == MaxBytes + 1           \* no byte in a register
Bytes == 0 .. MaxBytes          \* 0 is the register address, n the n-th byte
Calls == [op : {"read", "write"}, size : 1 .. MaxBytes]
Results == {"OK", "ERROR_START", "ERROR_TX", "ERROR_RX", "ERROR_STOP", "ERROR_TIMEOUT"}

TypeOK ==
    /\ pc \in {"idle", "start", "tx", "restart", "rx", "send_stop", "stop"}
    /\ call \in Calls
    /\ i \in 0 .. MaxBytes
    /\ retries \in 0 .. RetryCount
    /\ data \in [0 .. MaxBytes - 1 -> 0 .. MaxBytes + 1]
    /\ result \in Results
    /\ expired \in BOOLEAN
    /\ ctl \in [tr : BOOLEAN, txstt : BOOLEAN, txstp : BOOLEAN]
    /\ txbuf \in Bytes \cup {Empty} /\ shift \in Bytes \cup {Empty}
    /\ rxbuf \in 0 .. MaxBytes + 1
    /\ txifg \in BOOLEAN /\ rxifg \in BOOLEAN /\ nack \in BOOLEAN
    /\ engine \in {"free", "tx", "rx", "nacked"}
    /\ sent \in 0 .. MaxBytes + 1
    /\ got \in Seq(Bytes)

NothingRead == [b \in 0 .. MaxBytes - 1 |-> 0]

Init ==
    /\ pc = "idle"
    /\ call = [op |-> "read", size |-> 1]
    /\ i = 0
    /\ retries = RetryCount
    /\ data = NothingRead
    /\ result = "ERROR_START"
    /\ expired = FALSE
    /\ ctl = [tr |-> FALSE, txstt |-> FALSE, txstp |-> FALSE]
    /\ txbuf = Empty /\ txifg = TRUE
    /\ rxbuf = 0 /\ rxifg = FALSE
    /\ nack = FALSE /\ engine = "free" /\ shift = Empty
    /\ sent = 0 /\ got = <<>>

-----------------------------------------------------------------------------
(* i2c_write or i2c_read is called: i2c_send_addr asks for the start and   *)
(* writes the register address, one byte for every user.  What the device  *)
(* is in after a timeout is not known: nothing is called any more.         *)
SendAddr ==
    /\ pc = "idle"
    /\ ~expired /\ result # "ERROR_TIMEOUT"
    /\ call' \in Calls
    /\ pc' = "start"
    /\ i' = 0
    /\ retries' = RetryCount
    /\ data' = NothingRead
    /\ ctl' = [ctl EXCEPT !.tr = TRUE, !.txstt = TRUE]
    /\ txbuf' = 0 /\ txifg' = FALSE
    /\ UNCHANGED <<result, expired, rxbuf, rxifg, hardware>>

(* The next wait of the call. *)
WaitFor(at) == pc' = at /\ retries' = RetryCount /\ UNCHANGED result

Return(r) == pc' = "idle" /\ result' = r /\ UNCHANGED retries

ErrorOf(at) ==
    CASE at \in {"start", "restart"} -> "ERROR_START"
      [] at = "tx"                   -> "ERROR_TX"
      [] at = "rx"                   -> "ERROR_RX"
      [] OTHER                       -> "ERROR_STOP"

(* What follows a wait that returned I2C_RESULT_OK. *)
AfterStart ==
    /\ pc = "start"
    /\ WaitFor("tx")
    /\ UNCHANGED <<i, data, ctl, txbuf, txifg, rxifg>>

(* i2c_start_rx_transfer *)
Restart ==
    /\ pc = "tx" /\ call.op = "read"
    /\ WaitFor("restart")
    /\ ctl' = [ctl EXCEPT !.tr = FALSE, !.txstt = TRUE]
    /\ UNCHANGED <<i, data, txbuf, txifg, rxifg>>

(* The loop of i2c_write. *)
SendByte ==
    /\ pc = "tx" /\ call.op = "write"
    /\ IF i < call.size
       THEN WaitFor("tx") /\ txbuf' = i + 1 /\ txifg' = FALSE /\ i' = i + 1
       ELSE WaitFor("send_stop") /\ UNCHANGED <<txbuf, txifg, i>>
    /\ UNCHANGED <<data, ctl, rxifg>>

(* The loop of i2c_read, from data_size - 1 down to 1. *)
Receiving ==
    /\ pc = "restart"
    /\ i' = call.size - 1
    /\ WaitFor(IF call.size > 1 THEN "rx" ELSE "send_stop")
    /\ UNCHANGED <<data, ctl, txbuf, txifg, rxifg>>

(* Mutant: the stop comes after the last byte, not before. *)
StoreByte_StopLast ==
    /\ pc = "rx"
    /\ data' = [data EXCEPT ![i] = rxbuf]
    /\ rxifg' = FALSE
    /\ i' = IF i = 0 THEN 0 ELSE i - 1
    /\ IF i = 0 THEN Return("OK") ELSE WaitFor("rx")
    /\ UNCHANGED <<ctl, txbuf, txifg>>

(* Reading UCB0RXBUF clears its flag. *)
StoreByte ==
    /\ pc = "rx"
    /\ data' = [data EXCEPT ![i] = rxbuf]
    /\ rxifg' = FALSE
    /\ i' = IF i = 0 THEN 0 ELSE i - 1
    /\ IF i = 0 THEN Return("OK") ELSE WaitFor(IF i > 1 THEN "rx" ELSE "send_stop")
    /\ UNCHANGED <<ctl, txbuf, txifg>>

AfterStop ==
    /\ pc = "stop"
    /\ IF call.op = "read" THEN WaitFor("rx") ELSE Return("OK")
    /\ UNCHANGED <<i, data, ctl, txbuf, txifg, rxifg>>

Proceed == AfterStart \/ Restart \/ SendByte \/ Receiving \/ StoreByte \/ AfterStop

ReturnError(r) ==
    /\ Return(r)
    /\ UNCHANGED <<i, data, ctl, txbuf, txifg, rxifg>>

Finish == IF nack THEN ReturnError(ErrorOf(pc)) ELSE Proceed

CountDown ==
    /\ retries' = retries - 1
    /\ UNCHANGED <<pc, i, data, result, ctl, txbuf, txifg, rxifg>>

(* One iteration of "while (bit && --retries)". *)
Pending == IF pc = "stop" THEN ctl.txstp ELSE ctl.txstt

(* Mutant: the loop does not count. *)
PollBit_Forever ==
    /\ pc \in {"start", "restart", "stop"}
    /\ ~Pending /\ Finish
    /\ UNCHANGED <<call, rxbuf, expired, hardware>>

PollBit ==
    /\ pc \in {"start", "restart", "stop"}
    /\ \/ Pending /\ retries > 1 /\ CountDown
       \/ Pending /\ retries = 1 /\ ReturnError("ERROR_TIMEOUT")
       \/ ~Pending /\ Finish
    /\ UNCHANGED <<call, rxbuf, expired, hardware>>

(* One iteration of "while (!flag && retries--)": when the count is used   *)
(* up it wraps to UINT16_MAX, and the test that follows does not see zero; *)
(* it does when the flag comes with the last retry.                        *)
Flag == IF pc = "tx" THEN txifg ELSE rxifg

(* Mutant: the flag is not waited for. *)
PollFlag_Once ==
    /\ pc \in {"tx", "rx"}
    /\ Finish
    /\ UNCHANGED <<call, rxbuf, expired, hardware>>

(* Mutant: the wait goes on when the count wraps. *)
PollFlag_Wraps ==
    /\ pc \in {"tx", "rx"}
    /\ \/ /\ ~Flag
          /\ retries' = IF retries = 0 THEN RetryCount ELSE retries - 1
          /\ UNCHANGED <<pc, i, data, result, ctl, txbuf, txifg, rxifg>>
       \/ Flag /\ Finish
    /\ UNCHANGED <<call, rxbuf, expired, hardware>>

PollFlag ==
    /\ pc \in {"tx", "rx"}
    /\ \/ ~Flag /\ retries > 0 /\ CountDown /\ UNCHANGED expired
       \/ ~Flag /\ retries = 0 /\ Finish /\ expired' = TRUE
       \/ Flag /\ retries = 0 /\ ReturnError("ERROR_TIMEOUT") /\ UNCHANGED expired
       \/ Flag /\ retries > 0 /\ Finish /\ UNCHANGED expired
    /\ UNCHANGED <<call, rxbuf, hardware>>

(* i2c_stop_transfer, before its wait. *)
SendStop ==
    /\ pc = "send_stop"
    /\ WaitFor("stop")
    /\ ctl' = [ctl EXCEPT !.txstp = TRUE]
    /\ UNCHANGED <<call, i, data, expired, txbuf, txifg, rxbuf, rxifg, hardware>>

-----------------------------------------------------------------------------
(* The transmitter and the device on the bus.  A start waits for the byte  *)
(* being sent, and so does a stop.                                         *)
Free == shift = Empty \/ engine = "nacked"

AddressTaken ==
    /\ ctl.txstt /\ Free
    /\ ctl' = [ctl EXCEPT !.txstt = FALSE]
    /\ nack' = FALSE
    /\ sent' = 0
    /\ IF ctl.tr
       THEN engine' = "tx" /\ got' = <<>> /\ shift' = txbuf /\ txbuf' = Empty /\ txifg' = TRUE
       ELSE engine' = "rx" /\ UNCHANGED <<got, shift, txbuf, txifg>>
    /\ UNCHANGED <<software, rxbuf, rxifg>>

AddressRefused ==
    /\ ctl.txstt /\ Free
    /\ ctl' = [ctl EXCEPT !.txstt = FALSE]
    /\ nack' = TRUE
    /\ engine' = "nacked"
    /\ UNCHANGED <<software, txbuf, txifg, rxbuf, rxifg, shift, sent, got>>

ByteTaken ==
    /\ engine = "tx" /\ shift # Empty
    /\ got' = Append(got, shift)
    /\ shift' = txbuf
    /\ txbuf' = Empty
    /\ txifg' = (txifg \/ txbuf # Empty)
    /\ UNCHANGED <<software, ctl, rxbuf, rxifg, nack, engine, sent>>

(* The transmitter has waited for a byte; it takes the one written late.   *)
ByteLoaded ==
    /\ engine = "tx" /\ shift = Empty /\ txbuf # Empty
    /\ shift' = txbuf
    /\ txbuf' = Empty
    /\ txifg' = TRUE
    /\ UNCHANGED <<software, ctl, rxbuf, rxifg, nack, engine, sent, got>>

ByteRefused ==
    /\ engine = "tx" /\ shift # Empty
    /\ engine' = "nacked"
    /\ nack' = TRUE
    /\ shift' = Empty
    /\ UNCHANGED <<software, ctl, txbuf, txifg, rxbuf, rxifg, sent, got>>

(* A byte is received once the one before it was read; the stop follows    *)
(* the first byte that ends with UCTXSTP set.                              *)
ByteReceived ==
    /\ engine = "rx" /\ ~rxifg
    /\ sent' = sent + 1
    /\ rxbuf' = sent'
    /\ rxifg' = TRUE
    /\ IF ctl.txstp THEN engine' = "free" /\ ctl' = [ctl EXCEPT !.txstp = FALSE]
                    ELSE UNCHANGED <<engine, ctl>>
    /\ UNCHANGED <<software, txbuf, txifg, nack, shift, got>>

Stopped ==
    /\ ctl.txstp
    /\ \/ engine = "tx" /\ shift = Empty
       \/ engine = "nacked"
    /\ engine' = "free"
    /\ ctl' = [ctl EXCEPT !.txstp = FALSE]
    /\ UNCHANGED <<software, txbuf, txifg, rxbuf, rxifg, nack, shift, sent, got>>

-----------------------------------------------------------------------------
Waiting == PollBit \/ PollFlag \/ SendStop

Bus == \/ AddressTaken \/ AddressRefused \/ ByteTaken \/ ByteLoaded \/ ByteRefused
       \/ ByteReceived \/ Stopped

Next == SendAddr \/ Waiting \/ Bus

(* The processor goes on; nothing is assumed of the bus. *)
Spec == Init /\ [][Next]_vars /\ WF_vars(Waiting)

-----------------------------------------------------------------------------
Succeeded == pc = "idle" /\ result = "OK"

AllRead == \A b \in 0 .. call.size - 1 : data[b] = call.size - b
AllWritten == got = [n \in 1 .. call.size + 1 |-> n - 1]

(* A transfer that succeeds, and whose waits all saw their flag, is        *)
(* complete: a read has stored every byte the device sent, the most        *)
(* significant first and none twice, although the next byte may arrive at  *)
(* any moment before the stop is asked for (i2c.c:138-167); every byte of  *)
(* a write was acknowledged, although a byte is acknowledged only after    *)
(* the wait for it has ended (i2c.c:116-136).                              *)
TransfersAreComplete ==
    Succeeded /\ ~expired => IF call.op = "read" THEN AllRead ELSE AllWritten

(* Such a call leaves the bus free, with no byte or request of it left for *)
(* the next call (i2c.c:104-114, 155-164).                                 *)
SuccessFreesBus ==
    Succeeded /\ ~expired =>
        engine = "free" /\ ~ctl.txstt /\ ~ctl.txstp /\ ~rxifg

(* Whatever the device does, every call returns (i2c.c:15-33, 46-54,       *)
(* 104-114).                                                               *)
CallReturns == pc # "idle" ~> pc = "idle"

(* The waits a call may still come to, the one it is in included, and the  *)
(* iterations it may still take.                                           *)
WaitsLeft ==
    CASE pc = "idle"      -> 0
      [] pc = "start"     -> call.size + 5
      [] pc = "tx"        -> IF call.op = "read" THEN call.size + 4 ELSE call.size - i + 3
      [] pc = "restart"   -> call.size + 3
      [] pc = "rx"        -> IF i = 0 THEN 1 ELSE i + 3
      [] pc = "send_stop" -> IF call.op = "read" THEN 3 ELSE 2
      [] pc = "stop"      -> IF call.op = "read" THEN 2 ELSE 1

IterationsLeft == WaitsLeft * (RetryCount + 1) + retries

(* How soon: every iteration brings the call closer to its end, for all    *)
(* that the bus may do meanwhile and although two of the loops let the     *)
(* count wrap, so that a call of n bytes takes fewer than n + 6 times      *)
(* RETRY_COUNT + 1 iterations (i2c.c:15-33, 46-54, 104-167).               *)
ReturnsInTime ==
    [][/\ SendAddr => IterationsLeft' < (call'.size + 6) * (RetryCount + 1)
       /\ Waiting => IterationsLeft' < IterationsLeft
       /\ Bus => IterationsLeft' = IterationsLeft]_vars

(* The waits that run out return I2C_RESULT_ERROR_TIMEOUT (i2c.c:19-21,    *)
(* 29-31; i2c.h:14), so I2C_RESULT_OK means that every byte was read.      *)
OkMeansRead == Succeeded /\ call.op = "read" => AllRead
=============================================================================
