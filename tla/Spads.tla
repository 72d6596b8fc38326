------------------------------- MODULE Spads -------------------------------
(***************************************************************************)
(* Which SPADs (single photon diodes) of a range sensor are enabled: the   *)
(* loops of vl53l0x_set_spads_from_nvm (drivers/vl53l0x.c).  A map is the  *)
(* set of the indices whose bit is set; index row * SPAD_ROW_SIZE + column *)
(* is the one the code computes.                                           *)
(***************************************************************************)
EXTENDS Naturals, FiniteSets

CONSTANTS
    SPAD_ROW_SIZE,              \* bits of a byte of the map
    SPAD_MAP_ROW_COUNT,         \* bytes of the map
    SPAD_MAX_COUNT,             \* SPADs the sensor has
    SPAD_APERTURE_START_INDEX   \* the first one of the other type

ASSUME SpadAssumption ==
    /\ SPAD_ROW_SIZE \in Nat \ {0} /\ SPAD_MAP_ROW_COUNT \in Nat \ {0}
    /\ SPAD_MAX_COUNT \in 1 .. SPAD_ROW_SIZE * SPAD_MAP_ROW_COUNT - 1
    /\ SPAD_APERTURE_START_INDEX \in 0 .. SPAD_MAX_COUNT

SpadIndices == 0 .. SPAD_MAX_COUNT - 1

(* What the non-volatile memory holds: how many SPADs of which type are to *)
(* be enabled, and the map of the good ones.  The count is a free field of *)
(* seven bits.                                                             *)
SpadInfos == [count : 0 .. SPAD_MAX_COUNT + 1, aperture : BOOLEAN, good : SUBSET SpadIndices]

(* Mutant: SPADs of both types are enabled. *)
Offset_Zero(info) == 0

Offset(info) == IF info.aperture THEN SPAD_APERTURE_START_INDEX ELSE 0

(* What the loops have enabled when they come to an index. *)
EnabledBefore(info) ==
    LET enabled[i \in 0 .. SPAD_MAX_COUNT] ==
            IF i = 0 THEN {}
            ELSE LET before == enabled[i - 1]
                 IN IF \/ Cardinality(before) = info.count
                       \/ i - 1 < Offset(info)
                       \/ i - 1 \notin info.good
                    THEN before
                    ELSE before \cup {i - 1}
    IN enabled

SelectedSpads(info) == EnabledBefore(info)[SPAD_MAX_COUNT]

(* The loops end well only if the count is found reached at an index below *)
(* SPAD_MAX_COUNT or at the end of a row; at SPAD_MAX_COUNT the error is   *)
(* returned before the count is looked at.                                 *)
SelectionSucceeds(info) ==
    LET enabled == EnabledBefore(info)
    IN \E i \in 0 .. SPAD_MAX_COUNT :
          /\ Cardinality(enabled[i]) = info.count
          /\ i < SPAD_MAX_COUNT \/ i % SPAD_ROW_SIZE = 0

(* The good SPADs of the type that the memory asks for: the aperture ones  *)
(* have the indices from SPAD_APERTURE_START_INDEX on.                     *)
OfType(info) == {i \in info.good : info.aperture <=> i >= SPAD_APERTURE_START_INDEX}

(* Every outcome of vl53l0x_set_spads_from_nvm before it writes the map.   *)
SpadOutcomes == {[selected |-> SelectedSpads(info), ok |-> SelectionSucceeds(info),
                  info |-> info] : info \in SpadInfos}
=============================================================================
