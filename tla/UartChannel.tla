----------------------------- MODULE UartChannel -----------------------------
(***************************************************************************)
(* What drivers/uart.c promises printf: a bounded channel that puts every  *)
(* accepted character on the wire once and in the order of acceptance.     *)
(***************************************************************************)
EXTENDS Naturals, Sequences

CONSTANTS
    Accepted,       \* the characters that may be accepted
    Capacity,       \* how many may be under way
    Silence         \* the value of wire before the first character

VARIABLES
    pending,        \* accepted and not yet on the wire, oldest first
    wire            \* the character that went onto the wire last

channelVars == <<pending, wire>>

Init == pending = <<>> /\ wire = Silence

Accept(c) ==
    /\ Len(pending) < Capacity
    /\ pending' = Append(pending, c)
    /\ UNCHANGED wire

Emit ==
    /\ pending # <<>>
    /\ wire' = Head(pending)
    /\ pending' = Tail(pending)

Next == Emit \/ \E c \in Accepted : Accept(c)

Spec == Init /\ [][Next]_channelVars
=============================================================================
