----------------------------- MODULE RandSimple -----------------------------
(***************************************************************************)
(* common/random.c: a linear congruential generator that starts from 1     *)
(* with every reset.  Its callers use bits 8 and 9 of a value only, which  *)
(* depend on the ten lowest bits of the state and on nothing else.         *)
(***************************************************************************)
EXTENDS Naturals

LowBits == 1024     \* 2^10

(* rng_state * a + b, in the lowest bits.                                  *)
Affine(map, low) == (map.a * low + map.b) % LowBits

(* What 2^k calls of rand_simple do to the lowest bits of rng_state.       *)
AfterCalls[k \in Nat] ==
    IF k = 0 THEN [a |-> 1664525 % LowBits, b |-> 1013904223 % LowBits]
    ELSE LET half == AfterCalls[k - 1]
         IN [a |-> (half.a * half.a) % LowBits, b |-> Affine(half, half.b)]

(* Their values before the first 2^k calls. *)
Orbit[k \in Nat] ==
    IF k = 0 THEN {1}
    ELSE LET first == Orbit[k - 1]
         IN first \cup {Affine(AfterCalls[k - 1], low) : low \in first}

(* (rand_simple() >> 8) & 3 in all calls: after LowBits of them the lowest *)
(* bits repeat.                                                            *)
RandomDirs == {low \div 256 : low \in Orbit[10]}
=============================================================================
