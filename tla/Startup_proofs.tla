--------------------------- MODULE Startup_proofs ---------------------------
(***************************************************************************)
(* Proofs about start-up and the range sensors, for every number of        *)
(* resets and faults, every number of rounds and every SPAD map: which     *)
(* SPADs are selected, that addresses are given out one by one, that no    *)
(* wheel turns before the main loop begins, and that the values handed out *)
(* belong to one round.                                                    *)
(***************************************************************************)
EXTENDS Startup, Integers, FiniteSetTheorems, SequenceTheorems, TLAPS

(* The register writes that are left are the last ones of the function.    *)
Writes ==
    [pin : PinNames, reg : {"alt", "output"}, val : BOOLEAN] \cup
    [pin : PinNames, reg : {"out"}, val : {"LOW"}]

Done == Len(WritesIn(boot)) - Len(writes)

WritesAreRest ==
    /\ writes \in Seq(Writes)
    /\ Len(writes) <= Len(WritesIn(boot))
    /\ \A n \in 1 .. Len(writes) : writes[n] = WritesIn(boot)[Done + n]

(* io_init has configured the first pins; a pin is an output before its    *)
(* level is known.                                                         *)
PortAsWritten ==
    boot = "mcu_init" => \A k \in 1 .. 9 :
        /\ port[Pins[k]].alt = (Done >= 3 * k - 2 /\ Pins[k] = "PWM_LEFT")
        /\ port[Pins[k]].output = (Done >= 3 * k - 1 /\ Pins[k] # "RIGHT_CC_1")
        /\ Done >= 3 * k => port[Pins[k]].out = "LOW"

(* After that only P1.0 is missing, and the motors' pins stay low.         *)
PortSettled ==
    boot # "mcu_init" =>
        /\ \A p \in PinNames \ {"RIGHT_CC_1"} : port[p].output
        /\ Running \/ (boot = "ir_remote_init_ta1" /\ Done > 0) => port["RIGHT_CC_1"].output
        /\ \A p \in MotorPins : port[p].out = "LOW"
        /\ port["PWM_LEFT"].alt

(* What the driver is doing while main is where it is.                     *)
BeforeSensors == boot \in {"mcu_init", "trace_init", "drive_init"}

BootInv ==
    /\ BeforeSensors => pc = "address" /\ idx = 1
    /\ boot = "wall_init" => pc \in InitPcs \cup {"idle"}
    /\ boot = "ir_remote_init_ta1" => pc = "idle"
    /\ Running => pc \notin InitPcs
    /\ pc \in InitPcs => /\ status_multiple # "MEASURING"
                         /\ latest_ranges = NothingMeasured /\ returned = NothingReturned
                         /\ configured = IF pc \in {"address", "booted"} THEN {}
                                         ELSE {ReadOrder[i] : i \in 1 .. idx - 1}
    /\ configured # Sensors => faults > 0 \/ pc \in InitPcs

(* The SPADs about to be written come from the loops over the map; to      *)
(* refuse them is a fault.                                                 *)
SpadsAreOutcome ==
    pc = "select" => spads \in SpadOutcomes /\ (spads.ok \/ faults < MaxFaults)

-----------------------------------------------------------------------------
(* The sensors *)
Quiet(dev) == dev.main_page /\ ~dev.fetching /\ ~dev.measuring /\ ~dev.ready

(* Every sensor whose pin is low is in standby, all of them before         *)
(* vl53l0x_init.                                                           *)
HeldInStandby ==
    /\ boot = "mcu_init" => \A s \in Sensors : DrivenLow(port[Xshut[s]]) => sensor[s] = InStandby
    /\ boot \in {"trace_init", "drive_init"} => \A s \in Sensors : sensor[s] = InStandby

(* The first loop of vl53l0x_init gives one sensor after the other its     *)
(* address.                                                                *)
AddressesInTurn ==
    boot = "wall_init" /\ pc \in {"address", "booted"} => \A i \in 1 .. 3 :
        /\ Quiet(sensor[ReadOrder[i]])
        /\ sensor[ReadOrder[i]].address = IF i < idx THEN "own"
                                          ELSE IF i = idx /\ pc = "booted" THEN "default"
                                          ELSE "standby"

(* The second configures them; a calibration is a measurement.             *)
ConfiguredInTurn ==
    pc \in InitPcs \ {"address", "booted"} => \A i \in 1 .. 3 :
        LET dev == sensor[ReadOrder[i]]
        IN /\ dev.address = "own"
           /\ i # idx \/ pc \in {"config", "select", "tune"} => Quiet(dev)
           /\ i = idx /\ pc = "strobe" => ~dev.measuring /\ ~dev.ready
           /\ i = idx /\ pc \in {"vhv", "phase"} =>
                 dev.main_page /\ ~dev.fetching /\ dev.measuring # dev.ready

(* From then on a sensor is busy with the round under way or has nothing.  *)
Idle(s) == ~sensor[s].measuring /\ ~sensor[s].ready
Busy(s) ==
    /\ sensor[s].main_page
    /\ sensor[s].measuring # sensor[s].ready
    /\ sensor[s].measuring => sensor[s].started = round
    /\ sensor[s].ready => sensor[s].sample = round

InLoop == pc \notin InitPcs /\ configured = Sensors
Reading == pc \in {"poll", "read", "clear"}

SensorsInStep ==
    InLoop =>
        /\ \A s \in Sensors : /\ sensor[s].address = "own" /\ ~sensor[s].fetching
                              /\ Idle(s) \/ Busy(s)
        /\ pc = "begin" => \A s \in Sensors : Idle(s)
        /\ pc = "start" => /\ status_multiple # "NOT_STARTED"
                           /\ \A i \in idx .. 3 : Idle(ReadOrder[i])
        /\ Reading => \A i \in 1 .. idx - 1 : Idle(ReadOrder[i])
        /\ pc \in {"read", "clear"} => ~sensor[Current].measuring
        /\ pc = "read" => sensor[Current].ready \/ ~sensor[Current].main_page
        /\ status_multiple = "NOT_STARTED" => \A s \in Sensors : Idle(s)

(* The values of one round, or of registers on another page. *)
OfOneRound(ranges) == \E r \in 0 .. MaxRounds : \A s \in Sensors : ranges[s] \in {r, OFF_PAGE}

(* A round is read as a whole before the next one is started.              *)
ValuesInStep ==
    InLoop =>
        /\ Reading => status_multiple = "DONE" /\ ~blocking
        /\ Reading => \A i \in 1 .. IF pc = "clear" THEN idx ELSE idx - 1 :
                          latest_ranges[ReadOrder[i]] \in {round, OFF_PAGE}
        /\ status_multiple # "DONE" \/ pc \in {"begin", "start"} => OfOneRound(latest_ranges)
        /\ returned.ok => OfOneRound(returned.ranges)

(* Before any fault rounds are handed out in order.                        *)
First == returned.ranges = NothingMeasured
NextRound(value) == (value + 1) % MaxRounds

RoundsInOrder ==
    NoFault /\ InLoop =>
        /\ \A s \in Sensors : sensor[s].main_page
        /\ Reading => \A i \in 1 .. IF pc = "clear" THEN idx ELSE idx - 1 :
                          latest_ranges[ReadOrder[i]] = round
        /\ pc \in {"begin", "start", "wait"} /\ blocking => First
        /\ status_multiple = "NOT_STARTED" => First
        /\ pc # "start" => First \/ NextRound(returned.ranges["FRONT"]) = round
        /\ pc = "start" => First \/ NextRound(returned.ranges["FRONT"]) = latest_ranges["FRONT"]
        /\ pc = "begin" /\ ~blocking => latest_ranges["FRONT"] = round
        /\ pc = "start" /\ ~blocking => NextRound(latest_ranges["FRONT"]) = round
        /\ pc = "idle" /\ status_multiple = "MEASURING" => latest_ranges = returned.ranges

(* The inductive invariant. *)
Inv ==
    /\ StartupTypeOK
    /\ WritesAreRest /\ PortAsWritten /\ PortSettled
    /\ BootInv /\ SpadsAreOutcome
    /\ HeldInStandby /\ AddressesInTurn /\ ConfiguredInTurn
    /\ SensorsInStep /\ ValuesInStep /\ RoundsInOrder
-----------------------------------------------------------------------------
(* Induction, with the least natural number that is not in a set. *)
LEMMA Smallest ==
    ASSUME NEW T \in SUBSET Nat, T # {}
    PROVE  \E x \in T : \A y \in T : x <= y
  <1>1. \E x \in T : \A y \in T : ~(<<y, x>> \in OpToRel(<, Nat))
    BY WFMin, NatLessThanWellFounded
  <1>2. PICK x \in T : \A y \in T : ~(<<y, x>> \in OpToRel(<, Nat))
    BY <1>1
  <1>3. \A y \in T : ~(y < x)
    BY <1>2 DEF OpToRel
  <1> QED BY <1>3

LEMMA Induction ==
    ASSUME NEW T, T \subseteq Nat, 0 \in T, \A n \in T : n + 1 \in T
    PROVE  \A n \in Nat : n \in T
  <1> SUFFICES ASSUME Nat \ T # {}
               PROVE  FALSE
    OBVIOUS
  <1>1. PICK n \in Nat \ T : \A m \in Nat \ T : n <= m
    <2> Nat \ T \in SUBSET Nat
      OBVIOUS
    <2> QED BY Smallest
  <1>2. n # 0 /\ n - 1 \in Nat
    BY <1>1
  <1>3. n - 1 \in T
    BY <1>1, <1>2
  <1>4. (n - 1) + 1 = n
    BY <1>1
  <1> QED BY <1>1, <1>3, <1>4

-----------------------------------------------------------------------------
(* The good SPADs from the offset on, which the loop may enable, those     *)
(* before an index, and the first ones of them.                            *)
Usable(info) == {i \in info.good : info.aperture => i >= SPAD_APERTURE_START_INDEX}
UsableBefore(info, n) == {j \in Usable(info) : j < n}
FirstBefore(info, n) == {j \in UsableBefore(info, n) : Cardinality(UsableBefore(info, j)) < info.count}

(* One pass of the loop over the map. *)
SpadStep(info, before, i) ==
    IF Cardinality(before) = info.count \/ i < Offset(info) \/ i \notin info.good
    THEN before ELSE before \cup {i}

LEMMA UsableIs ==
    ASSUME NEW info \in SpadInfos
    PROVE  /\ info.count \in Nat
           /\ \A n \in Nat : n \in Usable(info) <=> ~(n < Offset(info) \/ n \notin info.good)
           /\ Usable(info) \subseteq SpadIndices /\ Usable(info) \subseteq Nat
  <1>1. info.count \in 0 .. SPAD_MAX_COUNT + 1 /\ info.good \subseteq SpadIndices /\ info.aperture \in BOOLEAN
    BY DEF SpadInfos
  <1>2. SPAD_APERTURE_START_INDEX \in Nat /\ SPAD_MAX_COUNT \in Nat /\ SPAD_MAX_COUNT > 0
    BY SpadAssumption
  <1>3. Usable(info) \subseteq SpadIndices /\ SpadIndices \subseteq Nat
    BY <1>1, <1>2 DEF Usable, SpadIndices
  <1>4. \A n \in Nat : n \in Usable(info) <=> ~(n < Offset(info) \/ n \notin info.good)
    BY <1>1, <1>2 DEF Usable, Offset
  <1>5. info.count \in Nat
    BY <1>1, <1>2
  <1>6. Usable(info) \subseteq Nat
    BY <1>3
  <1> QED BY <1>3, <1>4, <1>5, <1>6

LEMMA UsableFinite ==
    ASSUME NEW info \in SpadInfos, NEW n \in Nat
    PROVE  /\ IsFiniteSet(UsableBefore(info, n)) /\ Cardinality(UsableBefore(info, n)) \in Nat
           /\ IsFiniteSet(FirstBefore(info, n)) /\ Cardinality(FirstBefore(info, n)) \in Nat
  <1>1. UsableBefore(info, n) \in SUBSET Nat /\ \A j \in UsableBefore(info, n) : j <= n
    BY UsableIs DEF UsableBefore
  <1>2. IsFiniteSet(UsableBefore(info, n))
    BY <1>1, FS_BoundedSetOfNaturals
  <1>3. FirstBefore(info, n) \in SUBSET UsableBefore(info, n)
    BY DEF FirstBefore
  <1>4. IsFiniteSet(FirstBefore(info, n))
    BY <1>2, <1>3, FS_Subset
  <1> QED BY <1>2, <1>4, FS_CardinalityType

(* One more index. *)
LEMMA UsableNext ==
    ASSUME NEW info \in SpadInfos, NEW n \in Nat
    PROVE  /\ n \in Usable(info) =>
                 /\ UsableBefore(info, n + 1) = UsableBefore(info, n) \cup {n}
                 /\ Cardinality(UsableBefore(info, n + 1)) = Cardinality(UsableBefore(info, n)) + 1
                 /\ Cardinality(UsableBefore(info, n)) < info.count =>
                       /\ FirstBefore(info, n + 1) = FirstBefore(info, n) \cup {n}
                       /\ Cardinality(FirstBefore(info, n + 1)) = Cardinality(FirstBefore(info, n)) + 1
                 /\ ~(Cardinality(UsableBefore(info, n)) < info.count) =>
                       FirstBefore(info, n + 1) = FirstBefore(info, n)
           /\ n \notin Usable(info) =>
                 /\ UsableBefore(info, n + 1) = UsableBefore(info, n)
                 /\ FirstBefore(info, n + 1) = FirstBefore(info, n)
  <1>1. \A j \in Usable(info) : j < n + 1 <=> j < n \/ j = n
    BY UsableIs
  <1>2. n \notin UsableBefore(info, n) /\ n \notin FirstBefore(info, n)
    BY DEF UsableBefore, FirstBefore
  <1>3. ASSUME n \notin Usable(info)
        PROVE  /\ UsableBefore(info, n + 1) = UsableBefore(info, n)
               /\ FirstBefore(info, n + 1) = FirstBefore(info, n)
    <2>1. UsableBefore(info, n + 1) = UsableBefore(info, n)
      BY <1>1, <1>3 DEF UsableBefore
    <2> QED BY <2>1 DEF FirstBefore
  <1>4. ASSUME n \in Usable(info)
        PROVE  UsableBefore(info, n + 1) = UsableBefore(info, n) \cup {n}
    BY <1>1, <1>4 DEF UsableBefore
  <1>5. ASSUME n \in Usable(info), Cardinality(UsableBefore(info, n)) < info.count
        PROVE  FirstBefore(info, n + 1) = FirstBefore(info, n) \cup {n}
    BY <1>4, <1>5 DEF FirstBefore
  <1>6. ASSUME n \in Usable(info), ~(Cardinality(UsableBefore(info, n)) < info.count)
        PROVE  FirstBefore(info, n + 1) = FirstBefore(info, n)
    BY <1>4, <1>6 DEF FirstBefore
  <1>7. /\ Cardinality(UsableBefore(info, n) \cup {n}) = Cardinality(UsableBefore(info, n)) + 1
        /\ Cardinality(FirstBefore(info, n) \cup {n}) = Cardinality(FirstBefore(info, n)) + 1
    BY <1>2, UsableFinite, FS_AddElement
  <1> QED BY <1>3, <1>4, <1>5, <1>6, <1>7

(* As many as asked for are taken, if there are as many. *)
LEMMA FirstCount ==
    ASSUME NEW info \in SpadInfos, NEW n \in Nat
    PROVE  Cardinality(FirstBefore(info, n)) =
               IF Cardinality(UsableBefore(info, n)) <= info.count
               THEN Cardinality(UsableBefore(info, n)) ELSE info.count
  <1> DEFINE U(m) == Cardinality(UsableBefore(info, m))
             F(m) == Cardinality(FirstBefore(info, m))
             T == {m \in Nat : F(m) = IF U(m) <= info.count THEN U(m) ELSE info.count}
  <1>1. \A m \in Nat : U(m) \in Nat /\ F(m) \in Nat
    BY UsableFinite
  <1>2. info.count \in Nat
    BY UsableIs
  <1>3. 0 \in T
    <2>1. UsableBefore(info, 0) = {} /\ FirstBefore(info, 0) = {}
      BY UsableIs DEF UsableBefore, FirstBefore
    <2>2. U(0) = 0 /\ F(0) = 0
      BY <2>1, FS_EmptySet
    <2> QED BY <1>2, <2>2
  <1>4. ASSUME NEW m \in T
        PROVE  m + 1 \in T
    <2>1. m \in Nat /\ m + 1 \in Nat /\ F(m) = IF U(m) <= info.count THEN U(m) ELSE info.count
      OBVIOUS
    <2>2. \/ U(m + 1) = U(m) /\ F(m + 1) = F(m)
          \/ U(m + 1) = U(m) + 1 /\ U(m) < info.count /\ F(m + 1) = F(m) + 1
          \/ U(m + 1) = U(m) + 1 /\ ~(U(m) < info.count) /\ F(m + 1) = F(m)
      BY <2>1, UsableNext
    <2>3. U(m) \in Nat /\ F(m) \in Nat
      BY <1>1, <2>1
    <2> HIDE DEF U, F
    <2>4. F(m + 1) = IF U(m + 1) <= info.count THEN U(m + 1) ELSE info.count
      BY <1>2, <2>1, <2>2, <2>3
    <2> QED BY <2>1, <2>4
  <1>5. T \subseteq Nat
    OBVIOUS
  <1> HIDE DEF T
  <1>6. n \in T
    BY <1>3, <1>4, <1>5, Induction
  <1> QED BY <1>6 DEF T

(* Each pass of the loop adds its SPAD if it is one of the first. *)
LEMMA FirstStep ==
    ASSUME NEW info \in SpadInfos, NEW n \in Nat
    PROVE  FirstBefore(info, n + 1) = SpadStep(info, FirstBefore(info, n), n)
  <1> DEFINE u == Cardinality(UsableBefore(info, n))
             f == Cardinality(FirstBefore(info, n))
  <1>1. u \in Nat /\ info.count \in Nat /\ f = IF u <= info.count THEN u ELSE info.count
    BY UsableFinite, UsableIs, FirstCount
  <1>2. f = info.count <=> ~(u < info.count)
    <2> HIDE DEF u, f
    <2> QED BY <1>1
  <1>3. n \in Usable(info) <=> ~(n < Offset(info) \/ n \notin info.good)
    BY UsableIs
  <1> QED BY <1>2, <1>3, UsableNext DEF SpadStep

(* What the loops compute, as a function that is defined by recursion. *)
LEMMA EnabledIs ==
    ASSUME NEW info \in SpadInfos
    PROVE  \A n \in 0 .. SPAD_MAX_COUNT : EnabledBefore(info)[n] = FirstBefore(info, n)
  <1> DEFINE IsLoop(e) == e = [i \in 0 .. SPAD_MAX_COUNT |->
                                  IF i = 0 THEN {} ELSE SpadStep(info, e[i - 1], i - 1)]
             g == [i \in 0 .. SPAD_MAX_COUNT |-> FirstBefore(info, i)]
  <1>1. EnabledBefore(info) = CHOOSE e : IsLoop(e)
    BY DEF EnabledBefore, SpadStep
  <1>2. FirstBefore(info, 0) = {}
    BY UsableIs DEF UsableBefore, FirstBefore
  <1>3. SPAD_MAX_COUNT \in Nat
    BY SpadAssumption
  <1>4. IsLoop(g)
    <2>1. ASSUME NEW i \in 0 .. SPAD_MAX_COUNT, i # 0
          PROVE  FirstBefore(info, i) = SpadStep(info, g[i - 1], i - 1)
      <3>1. i - 1 \in 0 .. SPAD_MAX_COUNT /\ i - 1 \in Nat /\ (i - 1) + 1 = i
        BY <1>3, <2>1
      <3>2. g[i - 1] = FirstBefore(info, i - 1)
        BY <3>1
      <3> QED BY <3>1, <3>2, FirstStep
    <2> QED BY <1>2, <2>1
  <1> DEFINE e == EnabledBefore(info)
  <1>5. IsLoop(e)
    <2> HIDE DEF IsLoop
    <2> QED BY <1>1, <1>4
  <1>6. /\ e[0] = {}
        /\ \A i \in 1 .. SPAD_MAX_COUNT : e[i] = SpadStep(info, e[i - 1], i - 1)
    <2> HIDE DEF e
    <2>1. e = [i \in 0 .. SPAD_MAX_COUNT |-> IF i = 0 THEN {} ELSE SpadStep(info, e[i - 1], i - 1)]
      BY <1>5
    <2>2. 0 \in 0 .. SPAD_MAX_COUNT
      BY <1>3
    <2>3. \A i \in 1 .. SPAD_MAX_COUNT : i \in 0 .. SPAD_MAX_COUNT /\ i # 0
      BY <1>3
    <2>4. \A i \in 0 .. SPAD_MAX_COUNT :
             e[i] = IF i = 0 THEN {} ELSE SpadStep(info, e[i - 1], i - 1)
      BY <2>1, Zenon
    <2> QED BY <2>2, <2>3, <2>4
  <1> DEFINE T == {m \in Nat : m <= SPAD_MAX_COUNT => e[m] = FirstBefore(info, m)}
  <1> HIDE DEF e, IsLoop, g
  <1>7. 0 \in T
    BY <1>2, <1>6
  <1>8. ASSUME NEW m \in T
        PROVE  m + 1 \in T
    <2>1. m \in Nat /\ m + 1 \in Nat
      OBVIOUS
    <2>2. ASSUME m + 1 <= SPAD_MAX_COUNT
          PROVE  e[m + 1] = FirstBefore(info, m + 1)
      <3>1. m + 1 \in 1 .. SPAD_MAX_COUNT /\ (m + 1) - 1 = m /\ m <= SPAD_MAX_COUNT
        BY <1>3, <2>1, <2>2
      <3>2. e[m + 1] = SpadStep(info, e[m], m)
        BY <1>6, <3>1
      <3>3. e[m] = FirstBefore(info, m)
        BY <3>1
      <3> QED BY <2>1, <3>2, <3>3, FirstStep
    <2> QED BY <2>1, <2>2
  <1>9. \A m \in Nat : m \in T
    <2>1. T \subseteq Nat
      OBVIOUS
    <2> HIDE DEF T
    <2> QED BY <1>7, <1>8, <2>1, Induction
  <1>10. ASSUME NEW n \in 0 .. SPAD_MAX_COUNT
         PROVE  e[n] = FirstBefore(info, n)
    BY <1>3, <1>9
  <1> QED BY <1>10 DEF e

(* The SPADs selected are the first ones from the offset on, as many as    *)
(* asked for; the selection fails only for want of them, or at the end of  *)
(* the map.                                                                *)
LEMMA SelectionIs ==
    ASSUME NEW info \in SpadInfos
    PROVE  LET wanted == {i \in Usable(info) :
                             Cardinality({j \in Usable(info) : j < i}) < info.count}
           IN /\ SelectedSpads(info) = wanted /\ wanted \subseteq SpadIndices
              /\ SelectionSucceeds(info) <=>
                    /\ Cardinality(Usable(info)) >= info.count
                    /\ SPAD_MAX_COUNT - 1 \in wanted => SPAD_MAX_COUNT % SPAD_ROW_SIZE = 0
  <1> DEFINE N == SPAD_MAX_COUNT
             U(m) == Cardinality(UsableBefore(info, m))
             wanted == {i \in Usable(info) : Cardinality({j \in Usable(info) : j < i}) < info.count}
             ends == N % SPAD_ROW_SIZE = 0
  <1>1. N \in Nat /\ N > 0 /\ N - 1 \in Nat /\ (N - 1) + 1 = N /\ N \in 0 .. N
    BY SpadAssumption
  <1>2. Usable(info) \subseteq SpadIndices /\ Usable(info) \subseteq Nat /\ info.count \in Nat
    BY UsableIs
  <1>3. \A i \in Usable(info) : i < N
    BY <1>1, <1>2 DEF SpadIndices
  <1>4. UsableBefore(info, N) = Usable(info)
    BY <1>3 DEF UsableBefore
  <1>5. FirstBefore(info, N) = wanted
    BY <1>4 DEF FirstBefore, UsableBefore
  <1>6. SelectedSpads(info) = wanted
    BY <1>1, <1>5, EnabledIs DEF SelectedSpads
  <1>7. \A i \in 0 .. N : Cardinality(EnabledBefore(info)[i]) = info.count <=> U(i) >= info.count
    <2> SUFFICES ASSUME NEW i \in 0 .. N
                 PROVE  Cardinality(EnabledBefore(info)[i]) = info.count <=> U(i) >= info.count
      OBVIOUS
    <2>1. i \in Nat /\ EnabledBefore(info)[i] = FirstBefore(info, i)
      BY <1>1, EnabledIs
    <2>2. U(i) \in Nat /\ Cardinality(FirstBefore(info, i)) =
                             IF U(i) <= info.count THEN U(i) ELSE info.count
      BY <2>1, UsableFinite, FirstCount
    <2> HIDE DEF U
    <2> QED BY <1>2, <2>1, <2>2
  <1>8. SelectionSucceeds(info) <=> \E i \in 0 .. N : U(i) >= info.count /\ (i < N \/ i % SPAD_ROW_SIZE = 0)
    <2> HIDE DEF U
    <2> QED BY <1>7 DEF SelectionSucceeds
  <1>9. \A i \in 0 .. N - 1 : U(i) <= U(N - 1)
    <2> SUFFICES ASSUME NEW i \in 0 .. N - 1
                 PROVE  U(i) <= U(N - 1)
      OBVIOUS
    <2>1. UsableBefore(info, i) \in SUBSET UsableBefore(info, N - 1)
      <3>1. \A j \in Usable(info) : j < i => j < N - 1
        BY <1>1, <1>2
      <3> QED BY <3>1 DEF UsableBefore
    <2> QED BY <1>1, <2>1, UsableFinite, FS_Subset
  <1>10. N - 1 \in wanted <=> N - 1 \in Usable(info) /\ U(N - 1) < info.count
    BY <1>1 DEF UsableBefore
  <1>11. /\ U(N) \in Nat /\ U(N - 1) \in Nat
         /\ N - 1 \notin Usable(info) => U(N) = U(N - 1)
    BY <1>1, UsableFinite, UsableNext
  <1>12. SelectionSucceeds(info) <=> U(N) >= info.count /\ (N - 1 \in wanted => ends)
    <2> HIDE DEF U, wanted
    <2>1. ASSUME SelectionSucceeds(info)
          PROVE  U(N) >= info.count /\ (N - 1 \in wanted => ends)
      <3>1. PICK i \in 0 .. N : U(i) >= info.count /\ (i < N \/ i % SPAD_ROW_SIZE = 0)
        BY <1>8, <2>1
      <3>2. CASE i = N
        BY <3>1, <3>2
      <3>3. CASE i # N
        <4>1. i \in 0 .. N - 1
          BY <1>1, <3>3
        <4>2. U(N - 1) >= info.count
          <5>1. U(i) \in Nat
            BY <4>1, UsableFinite DEF U
          <5> QED BY <1>2, <1>9, <1>11, <3>1, <4>1, <5>1
        <4>3. N - 1 \notin wanted
          BY <1>2, <1>10, <1>11, <4>2
        <4>4. U(N) >= U(N - 1)
          BY <1>1, <1>11, UsableNext DEF U
        <4> QED BY <1>2, <1>11, <4>2, <4>3, <4>4
      <3> QED BY <3>2, <3>3
    <2>2. ASSUME U(N) >= info.count, N - 1 \in wanted => ends
          PROVE  SelectionSucceeds(info)
      <3>1. CASE N - 1 \in wanted
        BY <1>1, <1>8, <2>2, <3>1
      <3>2. CASE N - 1 \notin wanted
        <4>1. U(N - 1) >= info.count
          BY <1>2, <1>10, <1>11, <2>2, <3>2
        <4>2. N - 1 \in 0 .. N /\ N - 1 < N
          BY <1>1
        <4> QED BY <1>8, <4>1, <4>2
      <3> QED BY <3>1, <3>2
    <2> QED BY <2>1, <2>2
  <1>13. U(N) = Cardinality(Usable(info))
    BY <1>4
  <1>14. wanted \subseteq SpadIndices
    BY <1>2
  <1> QED BY <1>6, <1>12, <1>13, <1>14

(* The first info.count members of S.                                       *)
FirstOf(info, S) == {i \in S : Cardinality({j \in S : j < i}) < info.count}

(* As long as there are enough SPADs of the type asked for, the loop never *)
(* gets to the other type; with too few aperture ones it does not succeed. *)
LEMMA SelectionOfType ==
    ASSUME NEW info \in SpadInfos
    PROVE  LET wanted == {i \in OfType(info) :
                             Cardinality({j \in OfType(info) : j < i}) < info.count}
           IN /\ Cardinality(OfType(info)) >= info.count =>
                    /\ SelectedSpads(info) = wanted
                    /\ SelectionSucceeds(info) <=>
                          (SPAD_MAX_COUNT - 1 \in wanted => SPAD_MAX_COUNT % SPAD_ROW_SIZE = 0)
              /\ info.aperture /\ Cardinality(OfType(info)) < info.count =>
                    ~SelectionSucceeds(info)
  <1> DEFINE A == SPAD_APERTURE_START_INDEX
  <1>1. A \in Nat /\ SPAD_MAX_COUNT \in Nat
    BY SpadAssumption
  <1>2. Usable(info) \subseteq Nat /\ Usable(info) \subseteq SpadIndices /\ info.count \in Nat
    BY UsableIs
  <1>3. /\ SelectedSpads(info) = FirstOf(info, Usable(info))
        /\ SelectionSucceeds(info) <=>
              /\ Cardinality(Usable(info)) >= info.count
              /\ SPAD_MAX_COUNT - 1 \in FirstOf(info, Usable(info)) => SPAD_MAX_COUNT % SPAD_ROW_SIZE = 0
    BY SelectionIs DEF FirstOf
  <1>4. UsableBefore(info, SPAD_MAX_COUNT) = Usable(info)
    BY <1>1, <1>2 DEF UsableBefore, SpadIndices
  <1>5. IsFiniteSet(Usable(info)) /\ Cardinality(Usable(info)) \in Nat
    BY <1>1, <1>4, UsableFinite
  <1>6. CASE info.aperture
    <2>1. OfType(info) = Usable(info)
      BY <1>6 DEF OfType, Usable
    <2>2. ~(Cardinality(Usable(info)) < info.count /\ Cardinality(Usable(info)) >= info.count)
      BY <1>2, <1>5
    <2>3. /\ Cardinality(OfType(info)) >= info.count =>
                /\ SelectedSpads(info) = FirstOf(info, OfType(info))
                /\ SelectionSucceeds(info) <=>
                      (SPAD_MAX_COUNT - 1 \in FirstOf(info, OfType(info)) => SPAD_MAX_COUNT % SPAD_ROW_SIZE = 0)
          /\ Cardinality(OfType(info)) < info.count => ~SelectionSucceeds(info)
      BY <1>3, <2>1, <2>2, Zenon
    <2> QED BY <2>3 DEF FirstOf
  <1>7. CASE ~info.aperture
    <2> SUFFICES ASSUME Cardinality(OfType(info)) >= info.count
                 PROVE  /\ SelectedSpads(info) = FirstOf(info, OfType(info))
                        /\ SelectionSucceeds(info) <=>
                              (SPAD_MAX_COUNT - 1 \in FirstOf(info, OfType(info)) =>
                                   SPAD_MAX_COUNT % SPAD_ROW_SIZE = 0)
      BY <1>7 DEF FirstOf
    <2>1. OfType(info) = UsableBefore(info, A)
      <3>1. Usable(info) = info.good
        BY <1>7 DEF Usable
      <3>2. \A i \in info.good : i \in Nat
        BY <1>2, <3>1
      <3> QED BY <1>1, <1>7, <3>1, <3>2 DEF OfType, UsableBefore
    <2>2. /\ OfType(info) \in SUBSET Usable(info)
          /\ \A i \in Usable(info) : i \in OfType(info) <=> i < A
      BY <2>1 DEF UsableBefore
    <2>3. /\ IsFiniteSet(OfType(info)) /\ Cardinality(OfType(info)) \in Nat
          /\ Cardinality(OfType(info)) <= Cardinality(Usable(info))
      BY <1>5, <2>2, FS_Subset, FS_CardinalityType
    <2>4. Cardinality(Usable(info)) >= info.count
      BY <1>2, <1>5, <2>3
    <2>5. ASSUME NEW i \in OfType(info)
          PROVE  {j \in Usable(info) : j < i} = {j \in OfType(info) : j < i}
      <3>1. i \in Nat /\ i < A
        BY <1>2, <2>2
      <3>2. \A j \in Usable(info) : j < i => j < A
        BY <1>1, <1>2, <3>1
      <3> QED BY <2>2, <3>2
    <2>6. ASSUME NEW i \in Usable(info), i \notin OfType(info)
          PROVE  ~(Cardinality({j \in Usable(info) : j < i}) < info.count)
      <3> DEFINE before == {j \in Usable(info) : j < i}
      <3>1. i \in Nat /\ i >= A
        BY <1>1, <1>2, <2>2, <2>6
      <3>2. \A j \in OfType(info) : j \in Usable(info) /\ j < i
        BY <1>1, <1>2, <2>2, <3>1
      <3>3. OfType(info) \in SUBSET before /\ before \in SUBSET Usable(info)
        BY <3>2
      <3> HIDE DEF before
      <3>4. IsFiniteSet(before) /\ Cardinality(before) \in Nat
        BY <1>5, <3>3, FS_Subset, FS_CardinalityType
      <3>5. Cardinality(OfType(info)) <= Cardinality(before)
        BY <3>3, <3>4, FS_Subset
      <3>6. ~(Cardinality(before) < info.count)
        BY <1>2, <2>3, <3>4, <3>5
      <3> QED BY <3>6 DEF before
    <2>7. FirstOf(info, Usable(info)) = FirstOf(info, OfType(info))
      BY <2>2, <2>5, <2>6, Zenon DEF FirstOf
    <2> QED BY <1>3, <2>4, <2>7, Zenon
  <1> QED BY <1>6, <1>7 DEF FirstOf
-----------------------------------------------------------------------------
(* Types *)
LEMMA Consts ==
    /\ MaxRounds \in Nat /\ MaxRounds > 1 /\ MaxFaults \in Nat /\ MaxResets \in Nat
    /\ 0 \in Rounds /\ OUT_OF_RANGE \in Values /\ TORN \in Values /\ OFF_PAGE \in Values
    /\ Rounds \subseteq Values
    /\ OFF_PAGE \notin 0 .. MaxRounds /\ TORN \notin 0 .. MaxRounds /\ TORN # OFF_PAGE
    /\ OUT_OF_RANGE = MaxRounds
  BY BoundsAssumption, ResetsAssumption DEF Rounds, Values, OUT_OF_RANGE, TORN, OFF_PAGE

LEMMA Order ==
    /\ ReadOrder[1] = "FRONT" /\ ReadOrder[2] = "FRONT_LEFT" /\ ReadOrder[3] = "FRONT_RIGHT"
    /\ \A i \in 1 .. 3 : ReadOrder[i] \in Sensors
    /\ \A i, j \in 1 .. 3 : ReadOrder[i] = ReadOrder[j] => i = j
    /\ \A s \in Sensors : \E i \in 1 .. 3 : s = ReadOrder[i]
  BY DEF ReadOrder, Sensors

LEMMA StandbyType ==
    /\ InStandby \in Devices /\ Quiet(InStandby) /\ InStandby.address = "standby"
    /\ NothingMeasured \in [Sensors -> Values] /\ OfOneRound(NothingMeasured)
    /\ NothingReturned \in [ok : BOOLEAN, fresh : BOOLEAN, ranges : [Sensors -> Values]]
    /\ NothingReturned.ranges = NothingMeasured /\ ~NothingReturned.ok
  <1>1. InStandby \in Devices /\ Quiet(InStandby) /\ InStandby.address = "standby"
    BY Consts DEF InStandby, Devices, Quiet
  <1>2. NothingMeasured \in [Sensors -> Values]
    BY Consts DEF NothingMeasured
  <1>3. OfOneRound(NothingMeasured)
    <2>1. MaxRounds \in 0 .. MaxRounds /\ \A s \in Sensors : NothingMeasured[s] = MaxRounds
      BY Consts DEF NothingMeasured
    <2> QED BY <2>1 DEF OfOneRound
  <1> QED BY <1>1, <1>2, <1>3 DEF NothingReturned

(* What the operations on a device change. *)
SameButPage(d, dev) ==
    /\ d.address = dev.address /\ d.fetching = dev.fetching /\ d.measuring = dev.measuring
    /\ d.ready = dev.ready /\ d.started = dev.started /\ d.sample = dev.sample

LEMMA DeviceOps ==
    ASSUME NEW dev \in Devices, round \in Rounds
    PROVE  /\ \A b \in BOOLEAN : /\ OnPage(dev, b) \in Devices
                                 /\ SameButPage(OnPage(dev, b), dev) /\ OnPage(dev, b).main_page = b
           /\ Cleared(dev) \in Devices
           /\ Cleared(dev).address = dev.address /\ Cleared(dev).main_page = dev.main_page
           /\ Cleared(dev).fetching = dev.fetching /\ Cleared(dev).measuring = dev.measuring
           /\ Cleared(dev).ready = (dev.ready /\ ~dev.main_page)
           /\ Measuring(dev) \in Devices
           /\ Measuring(dev).address = dev.address /\ Measuring(dev).main_page
           /\ Measuring(dev).fetching = dev.fetching /\ Measuring(dev).measuring
           /\ Measuring(dev).ready = dev.ready /\ Measuring(dev).started = round
           /\ Finished(dev) \in Devices
           /\ Finished(dev).address = dev.address /\ Finished(dev).main_page = dev.main_page
           /\ Finished(dev).fetching = dev.fetching /\ ~Finished(dev).measuring
           /\ Finished(dev).ready /\ Finished(dev).sample = dev.started
  BY DEF Devices, OnPage, SameButPage, Cleared, Measuring, Finished

(* One sensor is changed, that of the index or another. *)
LEMMA CurrentChanges ==
    ASSUME TypeOK, NEW d \in Devices, sensor' = [sensor EXCEPT ![Current] = d]
    PROVE  /\ sensor' \in [Sensors -> Devices] /\ sensor'[Current] = d /\ Current \in Sensors
           /\ \A s \in Sensors : sensor'[s] = IF s = Current THEN d ELSE sensor[s]
           /\ \A i \in 1 .. 3 : sensor'[ReadOrder[i]] = IF i = idx THEN d ELSE sensor[ReadOrder[i]]
  <1>1. idx \in 1 .. 3 /\ sensor \in [Sensors -> Devices]
    BY DEF TypeOK
  <1>2. Current \in Sensors /\ \A i \in 1 .. 3 : ReadOrder[i] = Current <=> i = idx
    BY <1>1, Order DEF Current
  <1>3. /\ sensor' \in [Sensors -> Devices]
        /\ \A s \in Sensors : sensor'[s] = IF s = Current THEN d ELSE sensor[s]
    BY <1>1, <1>2
  <1> QED BY <1>2, <1>3, Order

LEMMA NoSpadsType == NoSpads \in [selected : SUBSET SpadIndices, ok : BOOLEAN, info : SpadInfos]
  <1>1. 0 \in 0 .. SPAD_MAX_COUNT + 1
    BY SpadAssumption
  <1>2. [count |-> 0, aperture |-> FALSE, good |-> {}] \in SpadInfos
    BY <1>1 DEF SpadInfos
  <1> QED BY <1>2 DEF NoSpads

-----------------------------------------------------------------------------
(* The pins *)
LEMMA PinsAre ==
    /\ Len(Pins) = 9 /\ 3 * Len(Pins) = 27
    /\ \A k \in 1 .. 9 : Pins[k] \in PinNames
    /\ \A j, k \in 1 .. 9 : Pins[j] = Pins[k] => j = k
    /\ \A p \in PinNames : \E k \in 1 .. 9 : p = Pins[k]
    /\ MotorPins \subseteq PinNames
    /\ \A s \in Sensors : Xshut[s] \in PinNames \ MotorPins
    /\ \A s, t \in Sensors : Xshut[s] = Xshut[t] => s = t
  <1>1. Len(Pins) = 9
    BY DEF Pins
  <1>2. PinNames = {"RIGHT_CC_1", "RIGHT_CC_2", "LEFT_CC_2", "XSHUT_FRONT_RIGHT",
          "XSHUT_FRONT_LEFT", "LEFT_CC_1", "PWM_RIGHT", "XSHUT_FRONT", "PWM_LEFT"}
    BY DEF Pins, PinNames
  <1>3. /\ \A k \in 1 .. 9 : Pins[k] \in PinNames
        /\ \A p \in PinNames : \E k \in 1 .. 9 : p = Pins[k]
    <2>1. DOMAIN Pins = 1 .. 9
      BY DEF Pins
    <2> QED BY <2>1 DEF PinNames
  <1>4. \A j, k \in 1 .. 9 : Pins[j] = Pins[k] => j = k
    BY DEF Pins
  <1>5. MotorPins \subseteq PinNames /\ \A s \in Sensors : Xshut[s] \in PinNames \ MotorPins
    BY <1>2 DEF MotorPins, Xshut, Sensors
  <1>6. \A s, t \in Sensors : Xshut[s] = Xshut[t] => s = t
    BY DEF Xshut, Sensors
  <1>7. 3 * Len(Pins) = 27
    BY <1>1
  <1> QED BY <1>1, <1>3, <1>4, <1>5, <1>6, <1>7

(* io_init writes three registers of each pin.                             *)
LEMMA IoInitIs ==
    /\ Len(IoInit) = 27 /\ IoInit \in Seq(Writes)
    /\ \A k \in 1 .. 9 :
          /\ IoInit[3 * k - 2] = PinWrite(Pins[k], "alt", Pins[k] = "PWM_LEFT")
          /\ IoInit[3 * k - 1] = PinWrite(Pins[k], "output", Pins[k] # "RIGHT_CC_1")
          /\ IoInit[3 * k] = PinWrite(Pins[k], "out", "LOW")
  <1>1. IoInit = [n \in 1 .. 27 |-> Configure(PinOfWrite(n))[StepOfWrite(n)]]
    BY PinsAre DEF IoInit
  <1>2. \A p : /\ Configure(p)[1] = PinWrite(p, "alt", p = "PWM_LEFT")
               /\ Configure(p)[2] = PinWrite(p, "output", p # "RIGHT_CC_1")
               /\ Configure(p)[3] = PinWrite(p, "out", "LOW")
    BY DEF Configure, InitialConfig
  <1>3. ASSUME NEW k \in 1 .. 9
        PROVE  /\ 3 * k - 2 \in 1 .. 27 /\ 3 * k - 1 \in 1 .. 27 /\ 3 * k \in 1 .. 27
               /\ 1 + ((3 * k - 2 - 1) \div 3) = k /\ 1 + ((3 * k - 2 - 1) % 3) = 1
               /\ 1 + ((3 * k - 1 - 1) \div 3) = k /\ 1 + ((3 * k - 1 - 1) % 3) = 2
               /\ 1 + ((3 * k - 1) \div 3) = k /\ 1 + ((3 * k - 1) % 3) = 3
    BY <1>3
  <1>4. ASSUME NEW k \in 1 .. 9
        PROVE  /\ IoInit[3 * k - 2] = PinWrite(Pins[k], "alt", Pins[k] = "PWM_LEFT")
               /\ IoInit[3 * k - 1] = PinWrite(Pins[k], "output", Pins[k] # "RIGHT_CC_1")
               /\ IoInit[3 * k] = PinWrite(Pins[k], "out", "LOW")
    <2>1. /\ PinOfWrite(3 * k - 2) = Pins[k] /\ StepOfWrite(3 * k - 2) = 1
          /\ PinOfWrite(3 * k - 1) = Pins[k] /\ StepOfWrite(3 * k - 1) = 2
          /\ PinOfWrite(3 * k) = Pins[k] /\ StepOfWrite(3 * k) = 3
      BY <1>3 DEF PinOfWrite, StepOfWrite
    <2>2. /\ IoInit[3 * k - 2] = Configure(Pins[k])[1]
          /\ IoInit[3 * k - 1] = Configure(Pins[k])[2]
          /\ IoInit[3 * k] = Configure(Pins[k])[3]
      BY <1>1, <1>3, <2>1
    <2> QED BY <1>2, <2>2
  <1>5. ASSUME NEW n \in 1 .. 27
        PROVE  \E k \in 1 .. 9 : n = 3 * k - 2 \/ n = 3 * k - 1 \/ n = 3 * k
    <2>1. 1 + ((n - 1) \div 3) \in 1 .. 9
      OBVIOUS
    <2> QED BY <2>1
  <1>6. ASSUME NEW n \in 1 .. 27
        PROVE  IoInit[n] \in Writes
    <2>1. PICK k \in 1 .. 9 : n = 3 * k - 2 \/ n = 3 * k - 1 \/ n = 3 * k
      BY <1>5
    <2>2. Pins[k] \in PinNames /\ (Pins[k] = "PWM_LEFT") \in BOOLEAN /\ (Pins[k] # "RIGHT_CC_1") \in BOOLEAN
      BY PinsAre, Zenon
    <2>3. /\ \A b \in BOOLEAN : \A r \in {"alt", "output"} : PinWrite(Pins[k], r, b) \in Writes
          /\ PinWrite(Pins[k], "out", "LOW") \in Writes
      BY <2>2 DEF PinWrite, Writes
    <2>4. /\ PinWrite(Pins[k], "alt", Pins[k] = "PWM_LEFT") \in Writes
          /\ PinWrite(Pins[k], "output", Pins[k] # "RIGHT_CC_1") \in Writes
      BY <2>2, <2>3, Zenon
    <2>5. IoInit[3 * k - 2] \in Writes /\ IoInit[3 * k - 1] \in Writes /\ IoInit[3 * k] \in Writes
      BY <1>4, <2>3, <2>4, Zenon
    <2> QED BY <2>1, <2>5
  <1>7. IoInit \in [1 .. 27 -> Writes]
    BY <1>1, <1>6
  <1>8. Len(IoInit) = 27 /\ IoInit \in Seq(Writes)
    <2>1. IoInit \in Seq(Writes)
      <3>1. [1 .. 27 -> Writes] \in {[1 .. n -> Writes] : n \in Nat}
        OBVIOUS
      <3> QED BY <1>7, <3>1, SeqDef, Zenon
    <2>2. DOMAIN IoInit = 1 .. Len(IoInit) /\ DOMAIN IoInit = 1 .. 27 /\ Len(IoInit) \in Nat
      BY <1>7, <2>1, LenProperties
    <2> DEFINE l == Len(IoInit)
    <2>3. 1 .. l = 1 .. 27 /\ l \in Nat
      BY <2>2, Zenon
    <2> HIDE DEF l
    <2>4. l = 27
      <3>1. 27 \in 1 .. 27
        OBVIOUS
      <3>2. 27 \in 1 .. l
        BY <2>3, <3>1, Zenon
      <3>3. l \in 1 .. l
        BY <2>3, <3>2
      <3>4. l \in 1 .. 27
        BY <2>3, <3>3, Zenon
      <3> QED BY <2>3, <3>2, <3>4
    <2> QED BY <2>1, <2>4 DEF l
  <1> QED BY <1>4, <1>8

(* What main writes is the sequence of its functions. *)
LEMMA WritesInIs ==
    /\ WritesIn("mcu_init") = IoInit /\ WritesIn("ir_remote_init_ta1") = IrRemoteInit
    /\ \A f \in {"trace_init", "drive_init", "wall_init", "state_machine_run"} : WritesIn(f) = <<>>
    /\ \A i \in 1 .. 6 : /\ WritesIn(BootOrder[i]) \in Seq(Writes)
                         /\ Len(WritesIn(BootOrder[i])) <= Len(IoInit)
    /\ IrRemoteInit \in Seq(Writes) /\ Len(IrRemoteInit) = 2
    /\ IrRemoteInit[1] = PinWrite("RIGHT_CC_1", "output", TRUE)
    /\ IrRemoteInit[2] = PinWrite("RIGHT_CC_1", "out", "LOW")
  <1>1. /\ WritesIn("mcu_init") = IoInit /\ WritesIn("ir_remote_init_ta1") = IrRemoteInit
        /\ \A f \in {"trace_init", "drive_init", "wall_init", "state_machine_run"} : WritesIn(f) = <<>>
    BY DEF WritesIn
  <1>2. PinWrite("RIGHT_CC_1", "output", TRUE) \in Writes /\ PinWrite("RIGHT_CC_1", "out", "LOW") \in Writes
    <2>1. "RIGHT_CC_1" \in PinNames
      BY PinsAre DEF MotorPins
    <2> QED BY <2>1 DEF PinWrite, Writes
  <1>3. /\ IrRemoteInit \in Seq(Writes) /\ Len(IrRemoteInit) = 2
        /\ IrRemoteInit[1] = PinWrite("RIGHT_CC_1", "output", TRUE)
        /\ IrRemoteInit[2] = PinWrite("RIGHT_CC_1", "out", "LOW")
    <2> DEFINE a == PinWrite("RIGHT_CC_1", "output", TRUE)
               b == PinWrite("RIGHT_CC_1", "out", "LOW")
    <2>1. IrRemoteInit = <<a, b>> /\ a \in Writes /\ b \in Writes
      BY <1>2 DEF IrRemoteInit
    <2> HIDE DEF a, b
    <2>2. <<a, b>> \in Seq(Writes) /\ Len(<<a, b>>) = 2 /\ <<a, b>>[1] = a /\ <<a, b>>[2] = b
      BY <2>1
    <2> QED BY <2>1, <2>2 DEF a, b
  <1>4. ASSUME NEW i \in 1 .. 6
        PROVE  WritesIn(BootOrder[i]) \in {IoInit, IrRemoteInit, <<>>}
    BY <1>1 DEF BootOrder
  <1>5. <<>> \in Seq(Writes) /\ Len(<<>>) = 0
    OBVIOUS
  <1>6. ASSUME NEW i \in 1 .. 6
        PROVE  WritesIn(BootOrder[i]) \in Seq(Writes) /\ Len(WritesIn(BootOrder[i])) <= Len(IoInit)
    <2>1. \A q \in {IoInit, IrRemoteInit, <<>>} : q \in Seq(Writes) /\ Len(q) <= Len(IoInit)
      <3>1. IoInit \in Seq(Writes) /\ Len(IoInit) = 27
        BY IoInitIs
      <3>2. Len(IrRemoteInit) <= Len(IoInit) /\ Len(<<>>) <= Len(IoInit) /\ Len(IoInit) <= Len(IoInit)
        BY <1>3, <1>5, <3>1
      <3> QED BY <1>3, <1>5, <3>1, <3>2, Zenon
    <2> QED BY <1>4, <2>1, Zenon
  <1> QED BY <1>1, <1>3, <1>6

(* Functions of main. *)
BootNames == {"mcu_init", "trace_init", "drive_init", "wall_init",
              "ir_remote_init_ta1", "state_machine_run"}

LEMMA BootIs ==
    /\ {BootOrder[i] : i \in DOMAIN BootOrder} = BootNames
    /\ Len(BootOrder) = 6 /\ \A i \in 1 .. 6 : BootOrder[i] \in BootNames
  BY DEF BootOrder, BootNames

LEMMA WritesLeft ==
    ASSUME StartupTypeOK, WritesAreRest
    PROVE  /\ boot \in BootNames /\ WritesIn(boot) \in Seq(Writes)
           /\ Len(writes) \in Nat /\ Len(WritesIn(boot)) \in Nat
           /\ Len(WritesIn(boot)) <= Len(IoInit)
           /\ Done \in Nat /\ Done <= Len(WritesIn(boot))
           /\ boot = "mcu_init" => Len(WritesIn(boot)) = 27
           /\ writes = <<>> => Done = Len(WritesIn(boot))
           /\ Done = Len(WritesIn(boot)) - Len(writes)
  <1>1. boot \in BootNames
    BY BootIs DEF StartupTypeOK
  <1>2. \E i \in 1 .. 6 : boot = BootOrder[i]
    <2>1. DOMAIN BootOrder = 1 .. 6
      BY DEF BootOrder
    <2> QED BY <2>1 DEF StartupTypeOK
  <1>3. WritesIn(boot) \in Seq(Writes) /\ Len(WritesIn(boot)) <= Len(IoInit)
    BY <1>2, WritesInIs
  <1>4. Len(writes) \in Nat /\ Len(WritesIn(boot)) \in Nat /\ Len(writes) <= Len(WritesIn(boot))
    BY <1>3, LenProperties DEF WritesAreRest
  <1>5. boot = "mcu_init" => Len(WritesIn(boot)) = 27
    BY WritesInIs, IoInitIs
  <1>6. writes = <<>> => Len(writes) = 0
    BY EmptySeq
  <1> QED BY <1>1, <1>3, <1>4, <1>5, <1>6 DEF Done

(* A write is the next one of the function main is in. *)
LEMMA WriteIsNext ==
    ASSUME StartupTypeOK, WritesAreRest, WriteRegister
    PROVE  /\ boot \in {"mcu_init", "ir_remote_init_ta1"} /\ boot' = boot
           /\ Done + 1 \in 1 .. Len(WritesIn(boot)) /\ Done' = Done + 1
           /\ Head(writes) = WritesIn(boot)[Done + 1] /\ Head(writes) \in Writes
           /\ Len(writes)' <= Len(IoInit)
           /\ WritesAreRest'
  <1>1. boot' = boot /\ writes' = Tail(writes) /\ writes # <<>>
    BY DEF WriteRegister
  <1>2. writes \in Seq(Writes) /\ Len(writes) <= Len(WritesIn(boot))
    BY DEF WritesAreRest
  <1>3. /\ Tail(writes) \in Seq(Writes) /\ Len(Tail(writes)) = Len(writes) - 1
        /\ Head(writes) \in Writes /\ Head(writes) = writes[1] /\ Len(writes) \in Nat \ {0}
        /\ \A n \in 1 .. Len(writes) - 1 : Tail(writes)[n] = writes[n + 1]
    BY <1>1, <1>2, HeadTailProperties, EmptySeq
  <1>4. Len(WritesIn(boot)) \in Nat /\ Len(WritesIn(boot)) <= Len(IoInit) /\ Len(IoInit) = 27
    BY WritesLeft, IoInitIs
  <1>5. boot \in {"mcu_init", "ir_remote_init_ta1"}
    <2>1. Len(WritesIn(boot)) > 0
      BY <1>2, <1>3, <1>4
    <2>2. boot \notin {"trace_init", "drive_init", "wall_init", "state_machine_run"}
      BY <2>1, WritesInIs, EmptySeq
    <2> QED BY <2>2, WritesLeft DEF BootNames
  <1>6. WritesIn(boot)' = WritesIn(boot)
    BY <1>1 DEF WritesIn
  <1>7. Done \in Nat /\ Done + 1 \in 1 .. Len(WritesIn(boot)) /\ Done' = Done + 1
    BY <1>1, <1>2, <1>3, <1>4, <1>6 DEF Done
  <1>8. Head(writes) = WritesIn(boot)[Done + 1]
    BY <1>3 DEF WritesAreRest
  <1>9. WritesAreRest'
    <2>1. \A n \in 1 .. Len(writes) - 1 : Tail(writes)[n] = WritesIn(boot)[(Done + 1) + n]
      <3> SUFFICES ASSUME NEW n \in 1 .. Len(writes) - 1
                   PROVE  Tail(writes)[n] = WritesIn(boot)[(Done + 1) + n]
        OBVIOUS
      <3>1. n + 1 \in 1 .. Len(writes) /\ Done + (n + 1) = (Done + 1) + n
        BY <1>3, <1>7
      <3>2. writes[n + 1] = WritesIn(boot)[Done + (n + 1)]
        BY <3>1 DEF WritesAreRest
      <3> QED BY <1>3, <3>1, <3>2
    <2>2. /\ writes' \in Seq(Writes) /\ Len(writes') = Len(writes) - 1
          /\ Len(writes') <= Len(WritesIn(boot))
      BY <1>1, <1>2, <1>3, <1>4
    <2>3. \A n \in 1 .. Len(writes') : writes'[n] = WritesIn(boot)'[Done' + n]
      BY <1>1, <1>6, <1>7, <2>1, <2>2
    <2> QED BY <1>6, <2>2, <2>3 DEF WritesAreRest
  <1>10. Len(writes)' <= Len(IoInit)
    BY <1>1, <1>2, <1>3, <1>4
  <1> QED BY <1>1, <1>3, <1>5, <1>7, <1>8, <1>9, <1>10

Ports == [PinNames -> [alt : BOOLEAN, output : BOOLEAN, out : {"LOW", "HIGH", "KEPT"}]]

(* One register of one pin is written.                                     *)
LEMMA PortWritten ==
    ASSUME NEW w \in Writes, port \in Ports,
           port' = [port EXCEPT ![w.pin] = [@ EXCEPT ![w.reg] = w.val]]
    PROVE  /\ port' \in Ports
           /\ \A p \in PinNames :
                 /\ port'[p].alt = IF p = w.pin /\ w.reg = "alt" THEN w.val ELSE port[p].alt
                 /\ port'[p].output = IF p = w.pin /\ w.reg = "output" THEN w.val ELSE port[p].output
                 /\ port'[p].out = IF p = w.pin /\ w.reg = "out" THEN w.val ELSE port[p].out
  <1>1. w.pin \in PinNames
    BY DEF Writes
  <1>2. CASE w.reg = "alt" /\ w.val \in BOOLEAN
    <2>1. port' = [port EXCEPT ![w.pin] = [@ EXCEPT !.alt = w.val]]
      BY <1>2
    <2> QED BY <1>1, <1>2, <2>1 DEF Ports
  <1>3. CASE w.reg = "output" /\ w.val \in BOOLEAN
    <2>1. port' = [port EXCEPT ![w.pin] = [@ EXCEPT !.output = w.val]]
      BY <1>3
    <2> QED BY <1>1, <1>3, <2>1 DEF Ports
  <1>4. CASE w.reg = "out" /\ w.val = "LOW"
    <2>1. port' = [port EXCEPT ![w.pin] = [@ EXCEPT !.out = w.val]]
      BY <1>4
    <2> QED BY <1>1, <1>4, <2>1 DEF Ports
  <1>5. (w.reg \in {"alt", "output"} /\ w.val \in BOOLEAN) \/ (w.reg = "out" /\ w.val = "LOW")
    BY DEF Writes
  <1> QED BY <1>2, <1>3, <1>4, <1>5

LEMMA WriteRegisterPorts ==
    ASSUME Inv, WriteRegister
    PROVE  /\ StartupTypeOK'
           /\ WritesAreRest' /\ PortAsWritten' /\ PortSettled' /\ HeldInStandby'
  <1> DEFINE w == Head(writes)
  <1>1. /\ StartupTypeOK /\ WritesAreRest /\ PortAsWritten /\ PortSettled /\ HeldInStandby
        /\ port \in Ports /\ sensor \in [Sensors -> Devices]
    BY DEF Inv, StartupTypeOK, TypeOK, Ports
  <1>2. /\ boot \in {"mcu_init", "ir_remote_init_ta1"} /\ boot' = boot
        /\ Done + 1 \in 1 .. Len(WritesIn(boot)) /\ Done' = Done + 1 /\ Done \in Nat
        /\ w = WritesIn(boot)[Done + 1] /\ w \in Writes
        /\ Len(writes)' <= Len(IoInit)
        /\ WritesAreRest'
    BY <1>1, WriteIsNext, WritesLeft
  <1>3. /\ port' = [port EXCEPT ![w.pin] = [@ EXCEPT ![w.reg] = w.val]]
        /\ sensor' = [s \in Sensors |-> IF DrivenLow(port'[Xshut[s]]) /\ boot = "mcu_init"
                                         THEN InStandby ELSE sensor[s]]
    BY DEF WriteRegister
  <1>4. /\ port' \in Ports
        /\ \A p \in PinNames :
              /\ port'[p].alt = IF p = w.pin /\ w.reg = "alt" THEN w.val ELSE port[p].alt
              /\ port'[p].output = IF p = w.pin /\ w.reg = "output" THEN w.val ELSE port[p].output
              /\ port'[p].out = IF p = w.pin /\ w.reg = "out" THEN w.val ELSE port[p].out
    <2> HIDE DEF w
    <2> QED BY <1>1, <1>2, <1>3, PortWritten
  <1> HIDE DEF w
  <1>5. StartupTypeOK'
    <2>1. sensor' \in [Sensors -> Devices]
      BY <1>1, <1>3, StandbyType
    <2>2. TypeOK'
      BY <1>1, <2>1 DEF StartupTypeOK, TypeOK, WriteRegister
    <2> QED BY <1>1, <1>2, <1>4, <2>2 DEF StartupTypeOK, Ports, WriteRegister
  <1>6. PortAsWritten'
    <2> SUFFICES ASSUME boot = "mcu_init", NEW k \in 1 .. 9
                 PROVE  /\ port'[Pins[k]].alt = (Done' >= 3 * k - 2 /\ Pins[k] = "PWM_LEFT")
                        /\ port'[Pins[k]].output = (Done' >= 3 * k - 1 /\ Pins[k] # "RIGHT_CC_1")
                        /\ Done' >= 3 * k => port'[Pins[k]].out = "LOW"
      BY <1>2 DEF PortAsWritten
    <2> DEFINE d == Done
    <2>1. d \in 0 .. 26
      <3>1. Len(WritesIn(boot)) = 27
        BY WritesInIs, IoInitIs
      <3>2. d + 1 \in 1 .. Len(WritesIn(boot)) /\ d \in Nat
        BY <1>2
      <3> HIDE DEF d
      <3>3. d + 1 \in 1 .. 27
        BY <3>1, <3>2, Zenon
      <3> QED BY ONLY <3>2, <3>3
    <2>2. PICK j \in 1 .. 9 : d + 1 = 3 * j - 2 \/ d + 1 = 3 * j - 1 \/ d + 1 = 3 * j
      <3> HIDE DEF d
      <3>1. 1 + (d \div 3) \in 1 .. 9
        BY <2>1
      <3> QED BY <2>1, <3>1
    <2>3. /\ port[Pins[k]].alt = (d >= 3 * k - 2 /\ Pins[k] = "PWM_LEFT")
          /\ port[Pins[k]].output = (d >= 3 * k - 1 /\ Pins[k] # "RIGHT_CC_1")
          /\ d >= 3 * k => port[Pins[k]].out = "LOW"
      BY <1>1 DEF PortAsWritten
    <2>4. Pins[k] \in PinNames /\ (Pins[k] = Pins[j] <=> k = j)
      BY PinsAre
    <2>5. w = IoInit[d + 1]
      BY <1>2, WritesInIs
    <2>6. Done' = d + 1
      BY <1>2
    <2> HIDE DEF d
    <2>7. CASE d + 1 = 3 * j - 2
      <3>1. w.pin = Pins[j] /\ w.reg = "alt" /\ w.val = (Pins[j] = "PWM_LEFT")
        <4>1. w = PinWrite(Pins[j], "alt", Pins[j] = "PWM_LEFT")
          BY <2>5, <2>7, IoInitIs
        <4> QED BY <4>1 DEF PinWrite
      <3>2. /\ port'[Pins[k]].alt = IF k = j THEN Pins[k] = "PWM_LEFT" ELSE port[Pins[k]].alt
            /\ port'[Pins[k]].output = port[Pins[k]].output /\ port'[Pins[k]].out = port[Pins[k]].out
        BY <1>4, <2>4, <3>1
      <3>3. /\ (d + 1 >= 3 * k - 2) <=> (k = j \/ d >= 3 * k - 2)
            /\ (d + 1 >= 3 * k - 1) <=> (d >= 3 * k - 1)
            /\ (d + 1 >= 3 * k) <=> (d >= 3 * k)
        BY <2>1, <2>7
      <3> QED BY <2>3, <2>6, <3>2, <3>3
    <2>8. CASE d + 1 = 3 * j - 1
      <3>1. w.pin = Pins[j] /\ w.reg = "output" /\ w.val = (Pins[j] # "RIGHT_CC_1")
        <4>1. w = PinWrite(Pins[j], "output", Pins[j] # "RIGHT_CC_1")
          BY <2>5, <2>8, IoInitIs
        <4> QED BY <4>1 DEF PinWrite
      <3>2. /\ port'[Pins[k]].output = IF k = j THEN Pins[k] # "RIGHT_CC_1" ELSE port[Pins[k]].output
            /\ port'[Pins[k]].alt = port[Pins[k]].alt /\ port'[Pins[k]].out = port[Pins[k]].out
        BY <1>4, <2>4, <3>1
      <3>3. /\ (d + 1 >= 3 * k - 2) <=> (d >= 3 * k - 2)
            /\ (d + 1 >= 3 * k - 1) <=> (k = j \/ d >= 3 * k - 1)
            /\ (d + 1 >= 3 * k) <=> (d >= 3 * k)
        BY <2>1, <2>8
      <3> QED BY <2>3, <2>6, <3>2, <3>3
    <2>9. CASE d + 1 = 3 * j
      <3>1. w.pin = Pins[j] /\ w.reg = "out" /\ w.val = "LOW"
        <4>1. w = PinWrite(Pins[j], "out", "LOW")
          BY <2>5, <2>9, IoInitIs
        <4> QED BY <4>1 DEF PinWrite
      <3>2. /\ port'[Pins[k]].out = IF k = j THEN "LOW" ELSE port[Pins[k]].out
            /\ port'[Pins[k]].alt = port[Pins[k]].alt /\ port'[Pins[k]].output = port[Pins[k]].output
        BY <1>4, <2>4, <3>1
      <3>3. /\ (d + 1 >= 3 * k - 2) <=> (d >= 3 * k - 2)
            /\ (d + 1 >= 3 * k - 1) <=> (d >= 3 * k - 1)
            /\ (d + 1 >= 3 * k) => (k = j \/ d >= 3 * k)
        BY <2>1, <2>9
      <3> QED BY <2>3, <2>6, <3>2, <3>3
    <2> QED BY <2>2, <2>7, <2>8, <2>9
  <1>7. PortSettled'
    <2> SUFFICES ASSUME boot = "ir_remote_init_ta1"
                 PROVE  /\ \A p \in PinNames \ {"RIGHT_CC_1"} : port'[p].output
                        /\ Done' > 0 => port'["RIGHT_CC_1"].output
                        /\ \A p \in MotorPins : port'[p].out = "LOW"
                        /\ port'["PWM_LEFT"].alt
      BY <1>2 DEF PortSettled, Running
    <2>1. /\ \A p \in PinNames \ {"RIGHT_CC_1"} : port[p].output
          /\ Done > 0 => port["RIGHT_CC_1"].output
          /\ \A p \in MotorPins : port[p].out = "LOW"
          /\ port["PWM_LEFT"].alt
      BY <1>1 DEF PortSettled
    <2>2. "RIGHT_CC_1" \in PinNames /\ "PWM_LEFT" \in PinNames /\ MotorPins \subseteq PinNames
      BY PinsAre DEF MotorPins
    <2>3. Done + 1 = 1 \/ Done + 1 = 2
      <3>1. Len(WritesIn(boot)) = 2
        BY WritesInIs
      <3> QED BY <1>2, <3>1
    <2>4. CASE Done + 1 = 1
      <3>1. w.pin = "RIGHT_CC_1" /\ w.reg = "output" /\ w.val = TRUE
        BY <1>2, <2>4, WritesInIs DEF PinWrite
      <3> QED BY <1>4, <2>1, <2>2, <3>1
    <2>5. CASE Done + 1 = 2
      <3>1. w.pin = "RIGHT_CC_1" /\ w.reg = "out" /\ w.val = "LOW"
        BY <1>2, <2>5, WritesInIs DEF PinWrite
      <3>2. Done > 0
        BY <1>2, <2>5
      <3> QED BY <1>4, <2>1, <2>2, <3>1, <3>2
    <2> QED BY <2>3, <2>4, <2>5
  <1>8. HeldInStandby'
    BY <1>2, <1>3 DEF HeldInStandby
  <1> QED BY <1>2, <1>5, <1>6, <1>7, <1>8

-----------------------------------------------------------------------------
(* Steps of main                                                           *)
DriverInv ==
    /\ BootInv /\ SpadsAreOutcome
    /\ AddressesInTurn /\ ConfiguredInTurn
    /\ SensorsInStep /\ ValuesInStep /\ RoundsInOrder

(* While the sensors are initialised nothing is claimed of measurements.   *)
LEMMA NotInLoop ==
    ASSUME ~InLoop
    PROVE  SensorsInStep /\ ValuesInStep /\ RoundsInOrder
  BY DEF SensorsInStep, ValuesInStep, RoundsInOrder

LEMMA DriverFrame ==
    ASSUME DriverInv, UNCHANGED <<vars, boot>>
    PROVE  DriverInv'
  <1>1. /\ pc' = pc /\ idx' = idx /\ spads' = spads /\ blocking' = blocking
        /\ status_multiple' = status_multiple /\ latest_ranges' = latest_ranges
        /\ returned' = returned /\ sensor' = sensor /\ configured' = configured
        /\ round' = round /\ faults' = faults /\ boot' = boot
    BY DEF vars
  <1>2. BootInv' /\ SpadsAreOutcome'
    BY <1>1 DEF DriverInv, BootInv, SpadsAreOutcome, BeforeSensors, Running
  <1>3. AddressesInTurn' /\ ConfiguredInTurn'
    BY <1>1 DEF DriverInv, AddressesInTurn, ConfiguredInTurn
  <1>4. SensorsInStep'
    BY <1>1 DEF DriverInv, SensorsInStep, InLoop, Idle, Busy, Reading, Current
  <1>5. ValuesInStep'
    BY <1>1 DEF DriverInv, ValuesInStep, InLoop, Reading
  <1>6. RoundsInOrder'
    BY <1>1 DEF DriverInv, RoundsInOrder, InLoop, Reading, NoFault, First
  <1> QED BY <1>2, <1>3, <1>4, <1>5, <1>6 DEF DriverInv

LEMMA InvParts ==
    Inv <=> /\ StartupTypeOK /\ WritesAreRest /\ PortAsWritten /\ PortSettled
            /\ HeldInStandby /\ DriverInv
  BY DEF Inv, DriverInv

LEMMA StartupInitInv == StartupInit => Inv
  <1> SUFFICES ASSUME StartupInit
               PROVE  Inv
    OBVIOUS
  <1>1. /\ pc = "address" /\ idx = 1 /\ status_multiple = "NOT_STARTED" /\ configured = {}
        /\ latest_ranges = NothingMeasured /\ returned = NothingReturned
        /\ boot = "mcu_init" /\ writes = IoInit
        /\ port = [p \in PinNames |-> [alt |-> FALSE, output |-> FALSE, out |-> "KEPT"]]
    BY DEF StartupInit, RamInit
  <1>2. WritesAreRest /\ Done = 0 /\ Len(writes) <= Len(IoInit)
    <2>1. WritesIn(boot) = IoInit /\ Len(IoInit) = 27 /\ IoInit \in Seq(Writes)
      BY <1>1, WritesInIs, IoInitIs
    <2>2. Done = 0
      BY <1>1, <2>1 DEF Done
    <2>3. \A n \in 1 .. 27 : Done + n = n
      BY <2>2
    <2>4. \A n \in 1 .. Len(writes) : writes[n] = WritesIn(boot)[Done + n]
      BY <1>1, <2>1, <2>3
    <2>5. /\ writes \in Seq(Writes) /\ Len(writes) <= Len(WritesIn(boot))
          /\ Len(writes) <= Len(IoInit)
      <3>1. Len(IoInit) <= Len(IoInit)
        BY <2>1
      <3> QED BY <1>1, <2>1, <3>1, Zenon
    <2> QED BY <2>2, <2>4, <2>5 DEF WritesAreRest
  <1>3. StartupTypeOK
    <2>1. sensor \in [Sensors -> Devices]
      <3>1. Floating(InStandby) \subseteq Devices
        BY StandbyType DEF Floating, Devices
      <3> QED BY <3>1 DEF StartupInit
    <2>2. spads \in [selected : SUBSET SpadIndices, ok : BOOLEAN, info : SpadInfos]
      BY NoSpadsType DEF StartupInit, RamInit
    <2>3. TypeOK
      <3>1. /\ latest_ranges \in [Sensors -> Values]
            /\ returned \in [ok : BOOLEAN, fresh : BOOLEAN, ranges : [Sensors -> Values]]
        BY <1>1, StandbyType
      <3>2. /\ pc \in InitPcs /\ idx \in 1 .. 3
            /\ status_multiple \in {"NOT_STARTED", "MEASURING", "DONE"}
            /\ configured \subseteq Sensors
        BY <1>1 DEF InitPcs
      <3>4. blocking = FALSE /\ isr_enabled = FALSE /\ irq = FALSE
        BY Zenon DEF StartupInit, RamInit
      <3>3. round \in Rounds /\ faults \in 0 .. MaxFaults
        BY Consts DEF StartupInit
      <3> QED BY <2>1, <2>2, <3>1, <3>2, <3>3, <3>4 DEF TypeOK
    <2>4. port \in Ports
      BY <1>1 DEF Ports
    <2> QED BY <1>1, <1>2, <2>3, <2>4, Consts, BootIs DEF StartupTypeOK, Ports, BootNames, StartupInit
  <1>4. PortAsWritten
    <2> SUFFICES ASSUME NEW k \in 1 .. 9
                 PROVE  /\ port[Pins[k]].alt = (Done >= 3 * k - 2 /\ Pins[k] = "PWM_LEFT")
                        /\ port[Pins[k]].output = (Done >= 3 * k - 1 /\ Pins[k] # "RIGHT_CC_1")
                        /\ Done >= 3 * k => port[Pins[k]].out = "LOW"
      BY DEF PortAsWritten
    <2>1. ~(Done >= 3 * k - 2) /\ ~(Done >= 3 * k - 1) /\ ~(Done >= 3 * k)
      BY <1>2
    <2>2. port[Pins[k]].alt = FALSE /\ port[Pins[k]].output = FALSE
      BY <1>1, PinsAre
    <2> QED BY <2>1, <2>2
  <1>5. PortSettled
    BY <1>1 DEF PortSettled
  <1>6. HeldInStandby
    <2>1. \A s \in Sensors : ~port[Xshut[s]].output
      BY <1>1, PinsAre
    <2> QED BY <1>1, <2>1 DEF HeldInStandby, DrivenLow
  <1>7. DriverInv
    <2>1. ~InLoop
      BY <1>1 DEF InLoop, InitPcs
    <2>2. BootInv
      BY <1>1 DEF BootInv, BeforeSensors, Running, InitPcs
    <2>3. SpadsAreOutcome /\ AddressesInTurn /\ ConfiguredInTurn
      BY <1>1 DEF SpadsAreOutcome, AddressesInTurn, ConfiguredInTurn, InitPcs
    <2> QED BY <2>1, <2>2, <2>3, NotInLoop DEF DriverInv
  <1> QED BY <1>2, <1>3, <1>4, <1>5, <1>6, <1>7, InvParts

LEMMA ResetKeeps == Inv /\ Reset => Inv'
  <1> SUFFICES ASSUME Inv, Reset
               PROVE  Inv'
    OBVIOUS
  <1>0. StartupTypeOK /\ port \in Ports /\ sensor \in [Sensors -> Devices]
    BY DEF Inv, StartupTypeOK, TypeOK, Ports
  <1>1. /\ pc' = "address" /\ idx' = 1 /\ status_multiple' = "NOT_STARTED" /\ configured' = {}
        /\ latest_ranges' = NothingMeasured /\ returned' = NothingReturned
        /\ boot' = "mcu_init" /\ writes' = IoInit
        /\ port' = [p \in PinNames |-> [alt |-> FALSE, output |-> FALSE,
                       out |-> IF Running /\ p \in MotorPins THEN "KEPT" ELSE port[p].out]]
    BY DEF Reset
  <1>2. WritesAreRest' /\ Done' = 0 /\ Len(writes)' <= Len(IoInit)
    <2>1. WritesIn(boot)' = IoInit /\ Len(IoInit) = 27 /\ IoInit \in Seq(Writes)
      BY <1>1, WritesInIs, IoInitIs
    <2>2. Done' = 0
      BY <1>1, <2>1 DEF Done
    <2>3. \A n \in 1 .. 27 : Done' + n = n
      BY <2>2
    <2>4. \A n \in 1 .. Len(writes') : writes'[n] = WritesIn(boot)'[Done' + n]
      BY <1>1, <2>1, <2>3
    <2>5. /\ writes' \in Seq(Writes) /\ Len(writes') <= Len(WritesIn(boot)')
          /\ Len(writes') <= Len(IoInit)
      <3>1. Len(IoInit) <= Len(IoInit)
        BY <2>1
      <3>2. writes' = IoInit
        BY <1>1
      <3> QED BY <2>1, <3>1, <3>2, Zenon
    <2> QED BY <2>2, <2>4, <2>5 DEF WritesAreRest
  <1>3. StartupTypeOK'
    <2>1. sensor' \in [Sensors -> Devices]
      <3>1. \A s \in Sensors : Floating(sensor[s]) \subseteq Devices
        BY <1>0 DEF Floating, Devices
      <3>2. UNION {Floating(sensor[s]) : s \in Sensors} \subseteq Devices
        BY <3>1
      <3>3. sensor' \in [Sensors -> UNION {Floating(sensor[s]) : s \in Sensors}]
        BY DEF Reset
      <3> QED BY <3>2, <3>3
    <2>2. spads' \in [selected : SUBSET SpadIndices, ok : BOOLEAN, info : SpadInfos]
      BY NoSpadsType DEF Reset
    <2>3. TypeOK'
      <3>1. /\ latest_ranges' \in [Sensors -> Values]
            /\ returned' \in [ok : BOOLEAN, fresh : BOOLEAN, ranges : [Sensors -> Values]]
        BY <1>1, StandbyType
      <3>2. /\ pc' \in InitPcs /\ idx' \in 1 .. 3
            /\ status_multiple' \in {"NOT_STARTED", "MEASURING", "DONE"}
            /\ configured' \subseteq Sensors
        BY <1>1 DEF InitPcs
      <3>4. blocking' = FALSE /\ isr_enabled' = FALSE /\ irq' = FALSE
        BY Zenon DEF Reset
      <3>3. round' \in Rounds /\ faults' \in 0 .. MaxFaults
        BY <1>0 DEF StartupTypeOK, TypeOK, Reset
      <3> QED BY <2>1, <2>2, <3>1, <3>2, <3>3, <3>4 DEF TypeOK
    <2>4. port' \in Ports
      <3>1. \A p \in PinNames : port[p].out \in {"LOW", "HIGH", "KEPT"}
        BY <1>0 DEF Ports
      <3> QED BY <1>1, <3>1 DEF Ports
    <2>5. resets' \in 0 .. MaxResets
      BY <1>0, Consts DEF StartupTypeOK, Reset
    <2> QED BY <1>1, <1>2, <2>3, <2>4, <2>5, BootIs DEF StartupTypeOK, Ports, BootNames
  <1>4. PortAsWritten'
    <2> SUFFICES ASSUME NEW k \in 1 .. 9
                 PROVE  /\ port'[Pins[k]].alt = (Done' >= 3 * k - 2 /\ Pins[k] = "PWM_LEFT")
                        /\ port'[Pins[k]].output = (Done' >= 3 * k - 1 /\ Pins[k] # "RIGHT_CC_1")
                        /\ Done' >= 3 * k => port'[Pins[k]].out = "LOW"
      BY DEF PortAsWritten
    <2>1. ~(Done' >= 3 * k - 2) /\ ~(Done' >= 3 * k - 1) /\ ~(Done' >= 3 * k)
      BY <1>2
    <2>2. port'[Pins[k]].alt = FALSE /\ port'[Pins[k]].output = FALSE
      BY <1>1, PinsAre
    <2> QED BY <2>1, <2>2
  <1>5. PortSettled'
    BY <1>1 DEF PortSettled
  <1>6. HeldInStandby'
    <2>1. \A s \in Sensors : ~port'[Xshut[s]].output
      BY <1>1, PinsAre
    <2> QED BY <1>1, <2>1 DEF HeldInStandby, DrivenLow
  <1>7. DriverInv'
    <2>1. ~InLoop'
      BY <1>1 DEF InLoop, InitPcs
    <2>2. BootInv'
      BY <1>1 DEF BootInv, BeforeSensors, Running, InitPcs
    <2>3. SpadsAreOutcome' /\ AddressesInTurn' /\ ConfiguredInTurn'
      BY <1>1 DEF SpadsAreOutcome, AddressesInTurn, ConfiguredInTurn, InitPcs
    <2>4. SensorsInStep' /\ ValuesInStep' /\ RoundsInOrder'
      BY <2>1 DEF SensorsInStep, ValuesInStep, RoundsInOrder
    <2> QED BY <2>2, <2>3, <2>4 DEF DriverInv
  <1>8. Inv' <=> /\ StartupTypeOK' /\ WritesAreRest' /\ PortAsWritten' /\ PortSettled'
                 /\ HeldInStandby' /\ DriverInv'
    BY DEF Inv, DriverInv
  <1> QED BY <1>2, <1>3, <1>4, <1>5, <1>6, <1>7, <1>8

LEMMA InvPartsNext ==
    ASSUME StartupTypeOK', WritesAreRest', PortAsWritten', PortSettled', HeldInStandby', DriverInv'
    PROVE  Inv'
  BY DEF Inv, DriverInv

LEMMA WriteRegisterKeeps == Inv /\ WriteRegister => Inv'
  <1> SUFFICES ASSUME Inv, WriteRegister
               PROVE  Inv'
    OBVIOUS
  <1>1. /\ StartupTypeOK' /\ WritesAreRest' /\ PortAsWritten' /\ PortSettled' /\ HeldInStandby'
    BY WriteRegisterPorts
  <1>2. StartupTypeOK /\ WritesAreRest /\ DriverInv /\ BootInv
    BY InvParts DEF DriverInv
  <1>3. boot \in {"mcu_init", "ir_remote_init_ta1"} /\ boot' = boot
    BY <1>2, WriteIsNext
  <1>4. CASE boot = "mcu_init"
    <2>1. /\ pc = "address" /\ pc' = pc /\ idx' = idx /\ status_multiple' = status_multiple
          /\ latest_ranges' = latest_ranges /\ returned' = returned /\ configured' = configured
          /\ faults' = faults /\ idx = 1
      BY <1>2, <1>4 DEF BootInv, BeforeSensors, WriteRegister
    <2>2. ~InLoop'
      BY <2>1 DEF InLoop, InitPcs
    <2>3. BootInv'
      BY <1>2, <1>3, <2>1 DEF BootInv, BeforeSensors, Running, InitPcs
    <2>4. SpadsAreOutcome' /\ AddressesInTurn' /\ ConfiguredInTurn'
      BY <1>3, <1>4, <2>1 DEF SpadsAreOutcome, AddressesInTurn, ConfiguredInTurn
    <2>5. SensorsInStep' /\ ValuesInStep' /\ RoundsInOrder'
      BY <2>2 DEF SensorsInStep, ValuesInStep, RoundsInOrder
    <2> QED BY <1>1, <2>3, <2>4, <2>5, InvPartsNext DEF DriverInv
  <1>5. CASE boot = "ir_remote_init_ta1"
    <2>1. sensor \in [Sensors -> Devices]
      BY <1>2 DEF StartupTypeOK, TypeOK
    <2>2. sensor' = [s \in Sensors |-> sensor[s]]
      BY <1>5 DEF WriteRegister
    <2>3. UNCHANGED <<vars, boot>>
      BY <2>1, <2>2 DEF WriteRegister, vars
    <2> QED BY <1>1, <1>2, <2>3, DriverFrame, InvPartsNext
  <1> QED BY <1>3, <1>4, <1>5

LEMMA NextFunctionKeeps == Inv /\ NextFunction => Inv'
  <1> SUFFICES ASSUME Inv, NextFunction
               PROVE  Inv'
    OBVIOUS
  <1>1. /\ StartupTypeOK /\ WritesAreRest /\ PortAsWritten /\ PortSettled /\ HeldInStandby
        /\ DriverInv /\ BootInv
    BY InvParts DEF DriverInv
  <1>2. /\ writes = <<>>
        /\ boot = "wall_init" => pc = "idle"
        /\ port' = port /\ resets' = resets
        /\ pc' = pc /\ idx' = idx /\ spads' = spads /\ blocking' = blocking
        /\ status_multiple' = status_multiple /\ latest_ranges' = latest_ranges
        /\ returned' = returned /\ sensor' = sensor /\ configured' = configured
        /\ isr_enabled' = isr_enabled /\ irq' = irq
        /\ round' = round /\ faults' = faults
    BY DEF NextFunction, vars
  <1>3. PICK i \in 1 .. 5 : /\ boot = BootOrder[i] /\ boot' = BootOrder[i + 1]
                            /\ writes' = WritesIn(BootOrder[i + 1])
    BY BootIs DEF NextFunction
  <1>4. i + 1 \in 1 .. 6 /\ writes' = WritesIn(boot)' /\ boot' # "mcu_init" /\ boot' \in BootNames
    <2>1. BootOrder[i + 1] # "mcu_init"
      BY DEF BootOrder
    <2> QED BY <1>3, <2>1, BootIs
  <1>5. /\ WritesIn(boot)' \in Seq(Writes) /\ Len(WritesIn(boot)') \in Nat
        /\ Len(WritesIn(boot)') <= Len(IoInit)
    BY <1>3, <1>4, WritesInIs, LenProperties
  <1>6. Done' = 0 /\ WritesAreRest'
    <2>1. Done' = 0
      BY <1>4, <1>5 DEF Done
    <2>2. \A n \in 1 .. Len(writes') : Done' + n = n
      BY <2>1, <1>4, <1>5
    <2>3. Len(writes') <= Len(WritesIn(boot)') /\ writes' \in Seq(Writes)
      BY <1>4, <1>5
    <2>4. \A n \in 1 .. Len(writes') : writes'[n] = WritesIn(boot)'[Done' + n]
      BY <1>4, <2>2
    <2> QED BY <2>1, <2>3, <2>4 DEF WritesAreRest
  <1>7. StartupTypeOK'
    <2>1. TypeOK'
      BY <1>1, <1>2 DEF StartupTypeOK, TypeOK
    <2>2. boot' \in {BootOrder[j] : j \in DOMAIN BootOrder} /\ Len(writes') <= Len(IoInit)
      BY <1>4, <1>5, BootIs
    <2> QED BY <1>1, <1>2, <2>1, <2>2 DEF StartupTypeOK
  <1>8. Done = Len(WritesIn(boot)) /\ boot \in BootNames
    BY <1>1, <1>2, WritesLeft
  <1>9. /\ boot = "mcu_init" => boot' = "trace_init"
        /\ boot = "trace_init" => boot' = "drive_init"
        /\ boot = "drive_init" => boot' = "wall_init"
        /\ boot = "wall_init" => boot' = "ir_remote_init_ta1"
        /\ boot = "ir_remote_init_ta1" => boot' = "state_machine_run"
        /\ boot # "state_machine_run"
    BY <1>3 DEF BootOrder
  <1>10. PortAsWritten'
    BY <1>4 DEF PortAsWritten
  <1>11. ASSUME boot = "mcu_init"
         PROVE  /\ \A p \in PinNames \ {"RIGHT_CC_1"} : port[p].output
                /\ \A p \in PinNames : port[p].out = "LOW"
                /\ port["PWM_LEFT"].alt
    <2>1. Done = 27
      BY <1>8, <1>11, WritesInIs, IoInitIs
    <2>2. \A k \in 1 .. 9 : Done >= 3 * k - 2 /\ Done >= 3 * k - 1 /\ Done >= 3 * k
      BY <2>1
    <2>3. \A k \in 1 .. 9 : /\ port[Pins[k]].alt = (Pins[k] = "PWM_LEFT")
                            /\ port[Pins[k]].output = (Pins[k] # "RIGHT_CC_1")
                            /\ port[Pins[k]].out = "LOW"
      BY <1>1, <1>11, <2>2 DEF PortAsWritten
    <2>4. \A p \in PinNames : /\ port[p].alt = (p = "PWM_LEFT")
                              /\ port[p].output = (p # "RIGHT_CC_1")
                              /\ port[p].out = "LOW"
      BY <2>3, PinsAre
    <2>5. "PWM_LEFT" \in PinNames
      BY PinsAre DEF MotorPins
    <2> QED BY <2>4, <2>5
  <1>12. PortSettled'
    <2>1. /\ \A p \in PinNames \ {"RIGHT_CC_1"} : port[p].output
          /\ \A p \in MotorPins : port[p].out = "LOW"
          /\ port["PWM_LEFT"].alt
      BY <1>1, <1>11, PinsAre DEF PortSettled
    <2>2. boot' = "state_machine_run" => port["RIGHT_CC_1"].output
      <3>1. boot' = "state_machine_run" => boot = "ir_remote_init_ta1"
        BY <1>8, <1>9 DEF BootNames
      <3>2. boot = "ir_remote_init_ta1" => Done > 0
        <4>1. boot = "ir_remote_init_ta1" => Len(WritesIn(boot)) = 2
          BY WritesInIs
        <4> QED BY <1>8, <4>1
      <3> QED BY <1>1, <3>1, <3>2 DEF PortSettled
    <2> QED BY <1>2, <1>6, <2>1, <2>2 DEF PortSettled, Running
  <1>13. HeldInStandby'
    <2>1. ASSUME boot = "mcu_init"
          PROVE  \A s \in Sensors : sensor[s] = InStandby
      <3>1. \A s \in Sensors : Xshut[s] \in PinNames \ {"RIGHT_CC_1"} /\ Xshut[s] \in PinNames
        BY PinsAre DEF MotorPins
      <3>2. \A s \in Sensors : DrivenLow(port[Xshut[s]])
        BY <1>11, <2>1, <3>1 DEF DrivenLow
      <3> QED BY <1>1, <2>1, <3>2 DEF HeldInStandby
    <2>2. boot' \in {"trace_init", "drive_init"} => boot \in {"mcu_init", "trace_init"}
      BY <1>8, <1>9 DEF BootNames
    <2> QED BY <1>1, <1>2, <1>4, <2>1, <2>2 DEF HeldInStandby
  <1>14. BootInv'
    <2>1. BeforeSensors' => BeforeSensors
      BY <1>8, <1>9 DEF BootNames, BeforeSensors
    <2>2. boot' = "wall_init" => BeforeSensors
      BY <1>8, <1>9 DEF BootNames, BeforeSensors
    <2>3. boot' = "ir_remote_init_ta1" => pc = "idle"
      BY <1>2, <1>8, <1>9 DEF BootNames
    <2>4. boot' = "state_machine_run" => pc = "idle"
      BY <1>1, <1>8, <1>9 DEF BootNames, BootInv
    <2>5. "idle" \notin InitPcs /\ "address" \in InitPcs
      BY DEF InitPcs
    <2> QED BY <1>1, <1>2, <2>1, <2>2, <2>3, <2>4, <2>5 DEF BootInv, Running
  <1>15. AddressesInTurn'
    <2> SUFFICES ASSUME boot' = "wall_init", pc \in {"address", "booted"}, NEW j \in 1 .. 3
                 PROVE  /\ Quiet(sensor[ReadOrder[j]])
                        /\ sensor[ReadOrder[j]].address = IF j < idx THEN "own"
                                          ELSE IF j = idx /\ pc = "booted" THEN "default"
                                          ELSE "standby"
      BY <1>2 DEF AddressesInTurn
    <2>1. boot = "drive_init"
      BY <1>8, <1>9 DEF BootNames
    <2>2. pc = "address" /\ idx = 1
      BY <1>1, <2>1 DEF BootInv, BeforeSensors
    <2>3. sensor[ReadOrder[j]] = InStandby
      BY <1>1, <2>1, Order DEF HeldInStandby
    <2>4. ~(j < idx) /\ pc # "booted"
      BY <2>2
    <2> QED BY <2>3, <2>4, StandbyType
  <1>16. SpadsAreOutcome' /\ ConfiguredInTurn'
    BY <1>1, <1>2 DEF DriverInv, SpadsAreOutcome, ConfiguredInTurn
  <1>17. SensorsInStep' /\ ValuesInStep' /\ RoundsInOrder'
    <2>1. SensorsInStep'
      BY <1>1, <1>2 DEF DriverInv, SensorsInStep, InLoop, Idle, Busy, Reading, Current
    <2>2. ValuesInStep'
      BY <1>1, <1>2 DEF DriverInv, ValuesInStep, InLoop, Reading
    <2>3. RoundsInOrder'
      BY <1>1, <1>2 DEF DriverInv, RoundsInOrder, InLoop, Reading, NoFault, First
    <2> QED BY <2>1, <2>2, <2>3
  <1> QED BY <1>6, <1>7, <1>10, <1>12, <1>13, <1>14, <1>15, <1>16, <1>17, InvPartsNext DEF DriverInv

-----------------------------------------------------------------------------
(* Steps of the driver: main stays where it is, and of the pins only those *)
(* of the sensors change.                                                  *)
LEMMA UsedWhen ==
    ASSUME Inv, SensorsAreUsed
    PROVE  /\ boot \in {"wall_init", "state_machine_run"}
           /\ pc \in InitPcs => boot = "wall_init"
           /\ pc \notin InitPcs => Running
  BY DEF SensorsAreUsed, Running, Inv, BootInv

LEMMA DriverPorts ==
    ASSUME Inv, SensorsAreUsed, UNCHANGED <<boot, writes, resets>>, TypeOK',
           port' = IF pc = "address" THEN [port EXCEPT ![Xshut[Current]].out = "HIGH"] ELSE port
    PROVE  /\ StartupTypeOK'
           /\ WritesAreRest' /\ PortAsWritten' /\ PortSettled' /\ HeldInStandby'
  <1>1. /\ StartupTypeOK /\ TypeOK /\ WritesAreRest /\ PortSettled /\ port \in Ports
    BY DEF Inv, StartupTypeOK, Ports
  <1>2. boot \in {"wall_init", "state_machine_run"} /\ boot' = boot /\ writes' = writes /\ resets' = resets
    BY UsedWhen
  <1>3. Xshut[Current] \in PinNames \ MotorPins
    BY <1>1, Order, PinsAre DEF TypeOK, Current
  <1>4. /\ port' \in Ports
        /\ \A p \in PinNames : port'[p].output = port[p].output /\ port'[p].alt = port[p].alt
        /\ \A p \in MotorPins : port'[p].out = port[p].out
    <2>1. CASE pc = "address"
      BY <1>1, <1>3, <2>1, PinsAre DEF Ports
    <2>2. CASE pc # "address"
      BY <1>1, <2>2, PinsAre
    <2> QED BY <2>1, <2>2
  <1>5. Done' = Done /\ WritesAreRest'
    BY <1>1, <1>2 DEF Done, WritesAreRest, WritesIn
  <1>6. PortAsWritten' /\ HeldInStandby'
    BY <1>2 DEF PortAsWritten, HeldInStandby
  <1>7. PortSettled'
    <2>1. "RIGHT_CC_1" \in PinNames /\ "PWM_LEFT" \in PinNames
      BY PinsAre DEF MotorPins
    <2> QED BY <1>1, <1>2, <1>4, <2>1, PinsAre DEF PortSettled, Running
  <1>8. StartupTypeOK'
    BY <1>1, <1>2, <1>4 DEF StartupTypeOK, Ports
  <1> QED BY <1>5, <1>6, <1>7, <1>8

(* Device and interrupt touch no pin of these, and a sensor in standby     *)
(* does nothing.                                                           *)
LEMMA OtherPorts ==
    ASSUME Inv, UNCHANGED bootVars, TypeOK',
           \A s \in Sensors : sensor[s] = InStandby => sensor'[s] = InStandby
    PROVE  /\ StartupTypeOK'
           /\ WritesAreRest' /\ PortAsWritten' /\ PortSettled' /\ HeldInStandby'
  <1>1. /\ StartupTypeOK /\ WritesAreRest /\ PortAsWritten /\ PortSettled /\ HeldInStandby
        /\ boot' = boot /\ writes' = writes /\ port' = port /\ resets' = resets
    BY DEF Inv, bootVars
  <1>2. Done' = Done /\ WritesAreRest'
    BY <1>1 DEF Done, WritesAreRest, WritesIn
  <1>3. PortAsWritten' /\ PortSettled'
    BY <1>1, <1>2 DEF PortAsWritten, PortSettled, Running
  <1>4. HeldInStandby'
    BY <1>1 DEF HeldInStandby, DrivenLow
  <1>5. StartupTypeOK'
    BY <1>1 DEF StartupTypeOK
  <1> QED BY <1>2, <1>3, <1>4, <1>5

(* The initialisation goes on. *)
LEMMA InitGoesOn ==
    ASSUME Inv, SensorsAreUsed, pc \in InitPcs, pc' \in InitPcs,
           UNCHANGED <<boot, status_multiple, latest_ranges, returned>>,
           configured' = IF pc' \in {"address", "booted"} THEN {}
                         ELSE {ReadOrder[i] : i \in 1 .. idx' - 1}
    PROVE  BootInv' /\ SensorsInStep' /\ ValuesInStep' /\ RoundsInOrder'
  <1>1. boot = "wall_init" /\ boot' = boot /\ status_multiple' = status_multiple
        /\ latest_ranges' = latest_ranges /\ returned' = returned
    BY UsedWhen
  <1>2. /\ status_multiple # "MEASURING" /\ latest_ranges = NothingMeasured
        /\ returned = NothingReturned
    BY DEF Inv, BootInv
  <1>3. BootInv'
    BY <1>1, <1>2 DEF BootInv, BeforeSensors, Running
  <1>4. ~InLoop'
    BY DEF InLoop
  <1> QED BY <1>3, <1>4 DEF SensorsInStep, ValuesInStep, RoundsInOrder

(* The initialisation gives up: not every sensor is configured. *)
LEMMA InitGivesUp ==
    ASSUME Inv, SensorsAreUsed, pc \in InitPcs, pc' = "idle", faults' = faults + 1,
           UNCHANGED <<boot, status_multiple, latest_ranges, returned, configured>>
    PROVE  DriverInv'
  <1>1. boot = "wall_init" /\ boot' = boot /\ configured' = configured
    BY UsedWhen
  <1>2. TypeOK /\ idx \in 1 .. 3 /\ faults \in 0 .. MaxFaults
    BY DEF Inv, StartupTypeOK, TypeOK
  <1>3. configured # Sensors
    <2>1. configured \subseteq {ReadOrder[i] : i \in 1 .. idx - 1}
      BY DEF Inv, BootInv
    <2>2. ReadOrder[3] \notin {ReadOrder[i] : i \in 1 .. idx - 1}
      <3>1. \A i \in 1 .. idx - 1 : i \in 1 .. 3 /\ i # 3
        BY <1>2
      <3>2. 3 \in 1 .. 3
        OBVIOUS
      <3> QED BY <3>1, <3>2, Order
    <2>3. ReadOrder[3] \in Sensors
      BY Order
    <2> QED BY <2>1, <2>2, <2>3
  <1>4. faults' > 0
    BY <1>2
  <1>5. BootInv'
    BY <1>1, <1>4 DEF BootInv, BeforeSensors, Running, InitPcs
  <1>6. SpadsAreOutcome' /\ AddressesInTurn' /\ ConfiguredInTurn'
    BY DEF SpadsAreOutcome, AddressesInTurn, ConfiguredInTurn, InitPcs
  <1>7. ~InLoop'
    BY <1>1, <1>3 DEF InLoop
  <1>8. SensorsInStep' /\ ValuesInStep' /\ RoundsInOrder'
    BY <1>7 DEF SensorsInStep, ValuesInStep, RoundsInOrder
  <1> QED BY <1>5, <1>6, <1>8 DEF DriverInv

(* The main loop goes on. *)
LEMMA LoopGoesOn ==
    ASSUME Inv, SensorsAreUsed, pc \notin InitPcs, pc' \notin InitPcs,
           boot' = boot, configured' = configured, faults' \in {faults, faults + 1}
    PROVE  /\ Running /\ (InLoop' <=> InLoop)
           /\ BootInv' /\ SpadsAreOutcome' /\ AddressesInTurn' /\ ConfiguredInTurn'
  <1>1. Running
    BY UsedWhen
  <1>2. faults \in Nat /\ (configured # Sensors => faults > 0)
    BY DEF Inv, StartupTypeOK, TypeOK, BootInv
  <1>3. configured' # Sensors => faults' > 0
    BY <1>2
  <1>4. BootInv'
    BY <1>1, <1>3 DEF BootInv, BeforeSensors, Running
  <1>5. SpadsAreOutcome' /\ AddressesInTurn' /\ ConfiguredInTurn'
    BY DEF SpadsAreOutcome, AddressesInTurn, ConfiguredInTurn, InitPcs
  <1> QED BY <1>1, <1>4, <1>5 DEF InLoop

-----------------------------------------------------------------------------
(* The initialisation of the sensors                                       *)
LEMMA InitKnown ==
    ASSUME Inv
    PROVE  /\ TypeOK /\ BootInv /\ SpadsAreOutcome /\ AddressesInTurn /\ ConfiguredInTurn
           /\ idx \in 1 .. 3 /\ Current = ReadOrder[idx] /\ Current \in Sensors
           /\ sensor[Current] \in Devices /\ sensor \in [Sensors -> Devices]
           /\ round \in Rounds
           /\ \A i \in 1 .. 3 : sensor[ReadOrder[i]] \in Devices
  BY Order DEF Inv, StartupTypeOK, TypeOK, Current

LEMMA WakeSensorKeeps ==
    ASSUME Inv, SensorsAreUsed, boot' = boot, WakeSensor
    PROVE  TypeOK' /\ DriverInv'
  <1>1. /\ pc = "address" /\ pc' = "booted" /\ idx' = idx /\ configured' = configured
        /\ UNCHANGED <<spads, status_multiple, latest_ranges, returned>>
        /\ sensor' = [sensor EXCEPT ![Current].address = IF @ = "standby" THEN "default" ELSE @]
    BY DEF WakeSensor
  <1>2. boot = "wall_init" /\ configured = {}
    BY <1>1, InitKnown, UsedWhen DEF InitPcs, BootInv
  <1>3. \A i \in 1 .. 3 : /\ Quiet(sensor[ReadOrder[i]])
                          /\ sensor[ReadOrder[i]].address = IF i < idx THEN "own" ELSE "standby"
    BY <1>1, <1>2, InitKnown DEF AddressesInTurn
  <1> DEFINE d == [sensor[Current] EXCEPT !.address = "default"]
  <1>4. /\ d \in Devices /\ d.address = "default" /\ (Quiet(sensor[Current]) => Quiet(d))
    BY InitKnown DEF Devices, Quiet
  <1>5. sensor[Current].address = "standby" /\ sensor' = [sensor EXCEPT ![Current] = d]
    <2>1. sensor[Current].address = "standby"
      BY <1>3, InitKnown
    <2> QED BY <1>1, <2>1
  <1> HIDE DEF d
  <1>6. /\ sensor' \in [Sensors -> Devices]
        /\ \A i \in 1 .. 3 : sensor'[ReadOrder[i]] = IF i = idx THEN d ELSE sensor[ReadOrder[i]]
    BY <1>4, <1>5, InitKnown, CurrentChanges
  <1>7. TypeOK'
    BY <1>6, InitKnown DEF TypeOK, WakeSensor, InitPcs
  <1>8. AddressesInTurn'
    <2> SUFFICES ASSUME NEW i \in 1 .. 3
                 PROVE  /\ Quiet(sensor'[ReadOrder[i]])
                        /\ sensor'[ReadOrder[i]].address = IF i < idx THEN "own"
                                          ELSE IF i = idx THEN "default" ELSE "standby"
      BY <1>1 DEF AddressesInTurn
    <2>1. CASE i = idx
      BY <1>3, <1>4, <1>6, <2>1, InitKnown
    <2>2. CASE i # idx
      BY <1>3, <1>6, <2>2
    <2> QED BY <2>1, <2>2
  <1>9. ConfiguredInTurn' /\ SpadsAreOutcome'
    BY <1>1 DEF ConfiguredInTurn, SpadsAreOutcome
  <1>10. pc \in InitPcs /\ pc' \in InitPcs
    BY <1>1 DEF InitPcs
  <1> QED BY <1>1, <1>2, <1>7, <1>8, <1>9, <1>10, InitGoesOn DEF DriverInv

LEMMA SetAddressKeeps ==
    ASSUME Inv, SensorsAreUsed, boot' = boot, SetAddress
    PROVE  TypeOK' /\ DriverInv'
  <1>1. /\ pc = "booted" /\ pc' = (IF idx < 3 THEN "address" ELSE "config")
        /\ idx' = (IF idx < 3 THEN idx + 1 ELSE 1) /\ configured' = configured
        /\ UNCHANGED <<spads, status_multiple, latest_ranges, returned>>
        /\ sensor' = [sensor EXCEPT ![Current].address = "own"]
    BY DEF SetAddress
  <1>2. boot = "wall_init" /\ configured = {}
    BY <1>1, InitKnown, UsedWhen DEF InitPcs, BootInv
  <1>3. \A i \in 1 .. 3 : /\ Quiet(sensor[ReadOrder[i]])
                          /\ sensor[ReadOrder[i]].address = IF i < idx THEN "own"
                                       ELSE IF i = idx THEN "default" ELSE "standby"
    BY <1>1, <1>2, InitKnown DEF AddressesInTurn
  <1> DEFINE d == [sensor[Current] EXCEPT !.address = "own"]
  <1>4. d \in Devices /\ d.address = "own" /\ (Quiet(sensor[Current]) => Quiet(d))
    BY InitKnown DEF Devices, Quiet
  <1>5. sensor' = [sensor EXCEPT ![Current] = d]
    BY <1>1
  <1> HIDE DEF d
  <1>6. /\ sensor' \in [Sensors -> Devices]
        /\ \A i \in 1 .. 3 : sensor'[ReadOrder[i]] = IF i = idx THEN d ELSE sensor[ReadOrder[i]]
    BY <1>4, <1>5, InitKnown, CurrentChanges
  <1>7. TypeOK'
    <2>1. idx' \in 1 .. 3 /\ pc' \in InitPcs
      BY <1>1, InitKnown DEF InitPcs
    <2> QED BY <1>6, <2>1, InitKnown DEF TypeOK, SetAddress
  <1>8. \A i \in 1 .. 3 : /\ Quiet(sensor'[ReadOrder[i]])
                          /\ sensor'[ReadOrder[i]].address = IF i <= idx THEN "own" ELSE "standby"
    <2> SUFFICES ASSUME NEW i \in 1 .. 3
                 PROVE  /\ Quiet(sensor'[ReadOrder[i]])
                        /\ sensor'[ReadOrder[i]].address = IF i <= idx THEN "own" ELSE "standby"
      OBVIOUS
    <2>1. CASE i = idx
      BY <1>3, <1>4, <1>6, <2>1, InitKnown
    <2>2. CASE i # idx
      <3>1. i < idx <=> i <= idx
        BY <2>2, InitKnown
      <3> QED BY <1>3, <1>6, <2>2, <3>1
    <2> QED BY <2>1, <2>2
  <1>9. pc \in InitPcs /\ pc' \in InitPcs
    BY <1>1 DEF InitPcs
  <1>10. configured' = IF pc' \in {"address", "booted"} THEN {}
                       ELSE {ReadOrder[i] : i \in 1 .. idx' - 1}
    <2>1. CASE idx < 3
      BY <1>1, <1>2, <2>1
    <2>2. CASE ~(idx < 3)
      <3>1. 1 .. idx' - 1 = {}
        BY <1>1, <2>2
      <3> QED BY <1>1, <1>2, <3>1
    <2> QED BY <2>1, <2>2
  <1>11. AddressesInTurn'
    <2> SUFFICES ASSUME pc' \in {"address", "booted"}, NEW i \in 1 .. 3
                 PROVE  /\ Quiet(sensor'[ReadOrder[i]])
                        /\ sensor'[ReadOrder[i]].address = IF i < idx' THEN "own"
                                          ELSE IF i = idx' /\ pc' = "booted" THEN "default"
                                          ELSE "standby"
      BY DEF AddressesInTurn
    <2>1. idx < 3 /\ idx' = idx + 1 /\ pc' = "address"
      BY <1>1
    <2>2. i < idx' <=> i <= idx
      BY <2>1, InitKnown
    <2> QED BY <1>8, <2>1, <2>2
  <1>12. ConfiguredInTurn'
    <2> SUFFICES ASSUME pc' = "config", NEW i \in 1 .. 3
                 PROVE  sensor'[ReadOrder[i]].address = "own" /\ Quiet(sensor'[ReadOrder[i]])
      BY <1>1 DEF ConfiguredInTurn
    <2>1. i <= idx
      BY <1>1, InitKnown
    <2> QED BY <1>8, <2>1
  <1>13. SpadsAreOutcome'
    BY <1>1 DEF SpadsAreOutcome
  <1> QED BY <1>1, <1>7, <1>9, <1>10, <1>11, <1>12, <1>13, InitGoesOn DEF DriverInv

(* A step of the configuration of one sensor. *)
LEMMA ConfigGoesOn ==
    ASSUME Inv, SensorsAreUsed, pc \in InitPcs \ {"address", "booted"},
           pc' \in InitPcs \ {"address", "booted"},
           UNCHANGED <<boot, idx, blocking, status_multiple, latest_ranges, returned,
                       configured, isr_enabled, irq, round, faults>>,
           NEW d \in Devices, sensor' = [sensor EXCEPT ![Current] = d], d.address = "own",
           pc' \in {"config", "select", "tune"} => Quiet(d),
           pc' = "strobe" => ~d.measuring /\ ~d.ready,
           pc' \in {"vhv", "phase"} => d.main_page /\ ~d.fetching /\ d.measuring # d.ready,
           spads' \in [selected : SUBSET SpadIndices, ok : BOOLEAN, info : SpadInfos],
           SpadsAreOutcome'
    PROVE  TypeOK' /\ DriverInv'
  <1>1. /\ sensor' \in [Sensors -> Devices]
        /\ \A i \in 1 .. 3 : sensor'[ReadOrder[i]] = IF i = idx THEN d ELSE sensor[ReadOrder[i]]
    BY InitKnown, CurrentChanges
  <1>2. /\ boot' = boot /\ idx' = idx /\ blocking' = blocking /\ status_multiple' = status_multiple
        /\ latest_ranges' = latest_ranges /\ returned' = returned /\ configured' = configured
        /\ isr_enabled' = isr_enabled /\ irq' = irq /\ round' = round /\ faults' = faults
    OBVIOUS
  <1>3. pc \in InitPcs /\ pc' \in InitPcs
    OBVIOUS
  <1>4. TypeOK'
    BY <1>1, <1>2, <1>3, InitKnown DEF TypeOK
  <1>5. ConfiguredInTurn'
    <2> SUFFICES ASSUME NEW i \in 1 .. 3
                 PROVE  LET dev == sensor'[ReadOrder[i]]
                        IN /\ dev.address = "own"
                           /\ i # idx \/ pc' \in {"config", "select", "tune"} => Quiet(dev)
                           /\ i = idx /\ pc' = "strobe" => ~dev.measuring /\ ~dev.ready
                           /\ i = idx /\ pc' \in {"vhv", "phase"} =>
                                 dev.main_page /\ ~dev.fetching /\ dev.measuring # dev.ready
      BY <1>2 DEF ConfiguredInTurn
    <2>1. CASE i = idx
      BY <1>1, <2>1
    <2>2. CASE i # idx
      <3>1. sensor[ReadOrder[i]].address = "own" /\ Quiet(sensor[ReadOrder[i]])
        BY <2>2, InitKnown DEF ConfiguredInTurn
      <3> QED BY <1>1, <2>2, <3>1
    <2> QED BY <2>1, <2>2
  <1>6. AddressesInTurn'
    BY DEF AddressesInTurn
  <1>7. configured' = IF pc' \in {"address", "booted"} THEN {}
                      ELSE {ReadOrder[i] : i \in 1 .. idx' - 1}
    BY <1>2, <1>3, InitKnown DEF BootInv
  <1> QED BY <1>2, <1>3, <1>4, <1>5, <1>6, <1>7, InitGoesOn DEF DriverInv

LEMMA CurrentConfigured ==
    ASSUME Inv, pc \in InitPcs \ {"address", "booted"}
    PROVE  LET dev == sensor[Current]
           IN /\ dev \in Devices /\ dev.address = "own"
              /\ pc \in {"config", "select", "tune"} => Quiet(dev)
              /\ pc = "strobe" => ~dev.measuring /\ ~dev.ready
              /\ pc \in {"vhv", "phase"} =>
                    dev.main_page /\ ~dev.fetching /\ dev.measuring # dev.ready
  <1>1. idx \in 1 .. 3 /\ Current = ReadOrder[idx] /\ ConfiguredInTurn /\ sensor[Current] \in Devices
    BY InitKnown
  <1> QED BY <1>1 DEF ConfiguredInTurn

LEMMA OpenNvmKeeps ==
    ASSUME Inv, SensorsAreUsed, boot' = boot, OpenNvm
    PROVE  TypeOK' /\ DriverInv'
  <1> DEFINE d == [OnPage(sensor[Current], FALSE) EXCEPT !.fetching = TRUE]
  <1>1. /\ pc = "config" /\ pc' = "strobe" /\ spads' = spads
        /\ sensor' = [sensor EXCEPT ![Current] = d]
        /\ UNCHANGED <<boot, idx, blocking, status_multiple, latest_ranges, returned,
                       configured, isr_enabled, irq, round, faults>>
    BY DEF OpenNvm
  <1>2. sensor[Current] \in Devices /\ sensor[Current].address = "own" /\ Quiet(sensor[Current])
    BY <1>1, CurrentConfigured DEF InitPcs
  <1>3. d \in Devices /\ d.address = "own" /\ ~d.measuring /\ ~d.ready
    BY <1>2 DEF OnPage, Devices, Quiet
  <1>4. spads' \in [selected : SUBSET SpadIndices, ok : BOOLEAN, info : SpadInfos]
    BY <1>1, InitKnown DEF TypeOK
  <1>5. SpadsAreOutcome'
    BY <1>1 DEF SpadsAreOutcome
  <1> HIDE DEF d
  <1> QED BY <1>1, <1>3, <1>4, <1>5, ConfigGoesOn DEF InitPcs

LEMMA SpadOutcomesType ==
    SpadOutcomes \subseteq [selected : SUBSET SpadIndices, ok : BOOLEAN, info : SpadInfos]
  <1> SUFFICES ASSUME NEW info \in SpadInfos
               PROVE  [selected |-> SelectedSpads(info), ok |-> SelectionSucceeds(info), info |-> info]
                          \in [selected : SUBSET SpadIndices, ok : BOOLEAN, info : SpadInfos]
    BY DEF SpadOutcomes
  <1>1. SelectedSpads(info) \subseteq SpadIndices
    BY SelectionIs
  <1>2. SelectionSucceeds(info) \in BOOLEAN
    BY DEF SelectionSucceeds
  <1> QED BY <1>1, <1>2

LEMMA SelectSpadsKeeps ==
    ASSUME Inv, SensorsAreUsed, boot' = boot, SelectSpads
    PROVE  TypeOK' /\ DriverInv'
  <1> DEFINE d == OnPage(sensor[Current], TRUE)
  <1>1. /\ pc = "strobe" /\ pc' = "select" /\ ~sensor[Current].fetching
        /\ sensor' = [sensor EXCEPT ![Current] = d]
        /\ UNCHANGED <<boot, idx, blocking, status_multiple, latest_ranges, returned,
                       configured, isr_enabled, irq, round, faults>>
        /\ spads' \in SpadOutcomes /\ (spads'.ok \/ faults < MaxFaults)
    BY DEF SelectSpads
  <1>2. /\ sensor[Current] \in Devices /\ sensor[Current].address = "own"
        /\ ~sensor[Current].measuring /\ ~sensor[Current].ready
    BY <1>1, CurrentConfigured DEF InitPcs
  <1>3. d \in Devices /\ d.address = "own" /\ Quiet(d)
    BY <1>1, <1>2 DEF OnPage, Devices, Quiet
  <1>4. spads' \in [selected : SUBSET SpadIndices, ok : BOOLEAN, info : SpadInfos]
    BY <1>1, SpadOutcomesType
  <1>5. SpadsAreOutcome'
    BY <1>1 DEF SpadsAreOutcome
  <1> HIDE DEF d
  <1> QED BY <1>1, <1>3, <1>4, <1>5, ConfigGoesOn DEF InitPcs

LEMMA WriteSpadsKeeps ==
    ASSUME Inv, SensorsAreUsed, boot' = boot, WriteSpads
    PROVE  TypeOK' /\ DriverInv'
  <1> DEFINE d == sensor[Current]
  <1>1. /\ pc = "select" /\ pc' = "tune" /\ spads' = NoSpads /\ sensor' = sensor
        /\ UNCHANGED <<boot, idx, blocking, status_multiple, latest_ranges, returned,
                       configured, isr_enabled, irq, round, faults>>
    BY DEF WriteSpads
  <1>2. d \in Devices /\ d.address = "own" /\ Quiet(d)
    BY <1>1, CurrentConfigured DEF InitPcs
  <1>3. sensor' = [sensor EXCEPT ![Current] = d]
    BY <1>1, InitKnown
  <1>4. spads' \in [selected : SUBSET SpadIndices, ok : BOOLEAN, info : SpadInfos]
    BY <1>1, NoSpadsType
  <1>5. SpadsAreOutcome'
    BY <1>1 DEF SpadsAreOutcome
  <1> HIDE DEF d
  <1> QED BY <1>1, <1>2, <1>3, <1>4, <1>5, ConfigGoesOn DEF InitPcs

LEMMA StartVhvCalibrationKeeps ==
    ASSUME Inv, SensorsAreUsed, boot' = boot, StartVhvCalibration
    PROVE  TypeOK' /\ DriverInv'
  <1> DEFINE d == Measuring(Cleared(sensor[Current]))
  <1>1. /\ pc = "tune" /\ pc' = "vhv" /\ spads' = spads
        /\ sensor' = [sensor EXCEPT ![Current] = d]
        /\ UNCHANGED <<boot, idx, blocking, status_multiple, latest_ranges, returned,
                       configured, isr_enabled, irq, round, faults>>
    BY DEF StartVhvCalibration
  <1>2. sensor[Current] \in Devices /\ sensor[Current].address = "own" /\ Quiet(sensor[Current])
    BY <1>1, CurrentConfigured DEF InitPcs
  <1>3. d \in Devices /\ d.address = "own" /\ d.main_page /\ ~d.fetching /\ d.measuring /\ ~d.ready
    <2> DEFINE dev == sensor[Current]
               c == Cleared(dev)
    <2>1. dev \in Devices /\ round \in Rounds
      BY <1>2, InitKnown
    <2>2. /\ c \in Devices /\ c.address = dev.address /\ c.fetching = dev.fetching
          /\ c.ready = (dev.ready /\ ~dev.main_page)
      <3> HIDE DEF dev
      <3> QED BY <2>1, DeviceOps
    <2>3. c.address = "own" /\ ~c.fetching /\ ~c.ready
      BY <1>2, <2>2 DEF Quiet
    <2> HIDE DEF c
    <2>4. /\ Measuring(c) \in Devices /\ Measuring(c).address = "own" /\ Measuring(c).main_page
          /\ ~Measuring(c).fetching /\ Measuring(c).measuring /\ ~Measuring(c).ready
      BY <2>1, <2>2, <2>3, DeviceOps
    <2> QED BY <2>4 DEF c
  <1>4. spads' \in [selected : SUBSET SpadIndices, ok : BOOLEAN, info : SpadInfos]
    BY <1>1, InitKnown DEF TypeOK
  <1>5. SpadsAreOutcome'
    BY <1>1 DEF SpadsAreOutcome
  <1> HIDE DEF d
  <1> QED BY <1>1, <1>3, <1>4, <1>5, ConfigGoesOn DEF InitPcs

LEMMA StartPhaseCalibrationKeeps ==
    ASSUME Inv, SensorsAreUsed, boot' = boot, StartPhaseCalibration
    PROVE  TypeOK' /\ DriverInv'
  <1> DEFINE d == Measuring(Cleared(sensor[Current]))
  <1>1. /\ pc = "vhv" /\ pc' = "phase" /\ spads' = spads /\ sensor[Current].ready
        /\ sensor' = [sensor EXCEPT ![Current] = d]
        /\ UNCHANGED <<boot, idx, blocking, status_multiple, latest_ranges, returned,
                       configured, isr_enabled, irq, round, faults>>
    BY DEF StartPhaseCalibration
  <1>2. /\ sensor[Current] \in Devices /\ sensor[Current].address = "own"
        /\ sensor[Current].main_page /\ ~sensor[Current].fetching
    BY <1>1, CurrentConfigured DEF InitPcs
  <1>3. d \in Devices /\ d.address = "own" /\ d.main_page /\ ~d.fetching /\ d.measuring /\ ~d.ready
    <2> DEFINE dev == sensor[Current]
               c == Cleared(dev)
    <2>1. dev \in Devices /\ round \in Rounds
      BY <1>2, InitKnown
    <2>2. /\ c \in Devices /\ c.address = dev.address /\ c.fetching = dev.fetching
          /\ c.ready = (dev.ready /\ ~dev.main_page)
      <3> HIDE DEF dev
      <3> QED BY <2>1, DeviceOps
    <2>3. c.address = "own" /\ ~c.fetching /\ ~c.ready
      BY <1>2, <2>2 DEF Quiet
    <2> HIDE DEF c
    <2>4. /\ Measuring(c) \in Devices /\ Measuring(c).address = "own" /\ Measuring(c).main_page
          /\ ~Measuring(c).fetching /\ Measuring(c).measuring /\ ~Measuring(c).ready
      BY <2>1, <2>2, <2>3, DeviceOps
    <2> QED BY <2>4 DEF c
  <1>4. spads' \in [selected : SUBSET SpadIndices, ok : BOOLEAN, info : SpadInfos]
    BY <1>1, InitKnown DEF TypeOK
  <1>5. SpadsAreOutcome'
    BY <1>1 DEF SpadsAreOutcome
  <1> HIDE DEF d
  <1> QED BY <1>1, <1>3, <1>4, <1>5, ConfigGoesOn DEF InitPcs

LEMMA HalfConfiguredType ==
    ASSUME Inv, pc \in InitPcs \ {"address"}
    PROVE  HalfConfigured(sensor[Current]) \subseteq Devices
  <1> DEFINE dev == sensor[Current]
  <1>1. dev \in Devices /\ round \in Rounds
    BY InitKnown
  <1> HIDE DEF dev
  <1>2. Cleared(dev) \in Devices /\ OnPage(dev, FALSE) \in Devices /\ OnPage(dev, TRUE) \in Devices
    BY <1>1, DeviceOps
  <1>3. Measuring(Cleared(dev)) \in Devices
    <2> DEFINE c == Cleared(dev)
    <2> HIDE DEF c
    <2>1. c \in Devices
      BY <1>2 DEF c
    <2>2. Measuring(c) \in Devices
      BY <1>1, <2>1, DeviceOps
    <2> QED BY <2>2 DEF c
  <1>4. /\ [dev EXCEPT !.address = "own"] \in Devices
        /\ [OnPage(dev, FALSE) EXCEPT !.fetching = TRUE] \in Devices
    BY <1>1, <1>2 DEF Devices
  <1>5. HalfConfigured(dev) \subseteq Devices
    BY <1>1, <1>2, <1>3, <1>4 DEF HalfConfigured, InitPcs
  <1> QED BY <1>5 DEF dev

LEMMA RefuseSpadsKeeps ==
    ASSUME Inv, SensorsAreUsed, boot' = boot, RefuseSpads
    PROVE  TypeOK' /\ DriverInv'
  <1>1. /\ pc = "select" /\ pc' = "idle" /\ idx' = 1 /\ spads' = NoSpads /\ ~spads.ok
        /\ faults' = faults + 1 /\ sensor' = sensor
        /\ UNCHANGED <<blocking, status_multiple, latest_ranges, returned, configured,
                       isr_enabled, irq, round>>
    BY DEF RefuseSpads
  <1>2. faults' \in 0 .. MaxFaults
    BY <1>1, InitKnown, Consts DEF SpadsAreOutcome, TypeOK
  <1>3. TypeOK'
    BY <1>1, <1>2, InitKnown, NoSpadsType DEF TypeOK
  <1>4. pc \in InitPcs
    BY <1>1 DEF InitPcs
  <1> QED BY <1>1, <1>3, <1>4, InitGivesUp

LEMMA BootFailsKeeps ==
    ASSUME Inv, SensorsAreUsed, boot' = boot, BootFails
    PROVE  TypeOK' /\ DriverInv'
  <1>1. /\ pc \in InitPcs \ {"address"} /\ pc' = "idle" /\ idx' = 1 /\ spads' = NoSpads
        /\ faults < MaxFaults /\ faults' = faults + 1
        /\ UNCHANGED <<blocking, status_multiple, latest_ranges, returned, configured,
                       isr_enabled, irq, round>>
    BY DEF BootFails
  <1>2. faults' \in 0 .. MaxFaults
    BY <1>1, InitKnown, Consts DEF TypeOK
  <1>3. sensor' \in [Sensors -> Devices]
    <2>1. PICK dev \in HalfConfigured(sensor[Current]) : sensor' = [sensor EXCEPT ![Current] = dev]
      BY DEF BootFails
    <2>2. dev \in Devices
      BY <1>1, HalfConfiguredType
    <2> QED BY <2>1, <2>2, InitKnown
  <1>4. TypeOK'
    BY <1>1, <1>2, <1>3, InitKnown, NoSpadsType DEF TypeOK
  <1> QED BY <1>1, <1>4, InitGivesUp

LEMMA FinishConfigKeeps ==
    ASSUME Inv, SensorsAreUsed, boot' = boot, FinishConfig
    PROVE  TypeOK' /\ DriverInv'
  <1> DEFINE dev == sensor[Current]
             d == Cleared(dev)
  <1>1. /\ pc = "phase" /\ pc' = (IF idx < 3 THEN "config" ELSE "idle") /\ sensor[Current].ready
        /\ idx' = (IF idx < 3 THEN idx + 1 ELSE 1) /\ configured' = configured \cup {Current}
        /\ sensor' = [sensor EXCEPT ![Current] = d]
        /\ UNCHANGED <<spads, blocking, status_multiple, latest_ranges, returned, round, faults>>
    BY DEF FinishConfig
  <1>2. /\ sensor[Current] \in Devices /\ sensor[Current].address = "own" /\ sensor[Current].main_page
        /\ ~sensor[Current].fetching /\ sensor[Current].measuring # sensor[Current].ready
    BY <1>1, CurrentConfigured DEF InitPcs
  <1>3. d \in Devices /\ d.address = "own" /\ Quiet(d)
    <2>1. dev \in Devices /\ round \in Rounds /\ ~dev.measuring
      BY <1>1, <1>2, InitKnown
    <2>2. /\ d \in Devices /\ d.address = dev.address /\ d.fetching = dev.fetching
          /\ d.main_page = dev.main_page /\ d.measuring = dev.measuring
          /\ d.ready = (dev.ready /\ ~dev.main_page)
      <3> HIDE DEF dev
      <3> QED BY <2>1, DeviceOps
    <2> QED BY <1>2, <2>1, <2>2 DEF Quiet
  <1> HIDE DEF d
  <1>4. /\ sensor' \in [Sensors -> Devices]
        /\ \A i \in 1 .. 3 : sensor'[ReadOrder[i]] = IF i = idx THEN d ELSE sensor[ReadOrder[i]]
    BY <1>1, <1>3, InitKnown, CurrentChanges
  <1>5. \A i \in 1 .. 3 : sensor'[ReadOrder[i]].address = "own" /\ Quiet(sensor'[ReadOrder[i]])
    <2> SUFFICES ASSUME NEW i \in 1 .. 3
                 PROVE  sensor'[ReadOrder[i]].address = "own" /\ Quiet(sensor'[ReadOrder[i]])
      OBVIOUS
    <2>1. CASE i = idx
      BY <1>3, <1>4, <2>1
    <2>2. CASE i # idx
      <3>1. sensor[ReadOrder[i]].address = "own" /\ Quiet(sensor[ReadOrder[i]])
        BY <1>1, <2>2, InitKnown DEF ConfiguredInTurn, InitPcs
      <3> QED BY <1>4, <2>2, <3>1
    <2> QED BY <2>1, <2>2
  <1>6. TypeOK'
    <2>1. idx' \in 1 .. 3 /\ pc' \in InitPcs \cup {"idle"} /\ configured' \subseteq Sensors
      BY <1>1, InitKnown DEF TypeOK, InitPcs
    <2>2. isr_enabled' = (isr_enabled \/ Current = "FRONT") /\ irq' = (irq /\ Current # "FRONT")
      BY DEF FinishConfig, EnableFrontInterrupt
    <2>3. isr_enabled' \in BOOLEAN /\ irq' \in BOOLEAN
      BY <2>2, Zenon
    <2> QED BY <1>1, <1>4, <2>1, <2>3, InitKnown DEF TypeOK
  <1>7. configured = {ReadOrder[i] : i \in 1 .. idx - 1}
    BY <1>1, InitKnown DEF BootInv, InitPcs
  <1>8. configured' = {ReadOrder[i] : i \in 1 .. idx}
    <2>1. 1 .. idx = (1 .. idx - 1) \cup {idx}
      BY InitKnown
    <2> QED BY <1>1, <1>7, <2>1, InitKnown
  <1>9. boot = "wall_init" /\ pc \in InitPcs
    BY <1>1, UsedWhen DEF InitPcs
  <1>10. CASE idx < 3
    <2>1. pc' = "config" /\ idx' = idx + 1
      BY <1>1, <1>10
    <2>2. idx' - 1 = idx /\ pc' \in InitPcs
      BY <2>1, InitKnown DEF InitPcs
    <2>3. configured' = IF pc' \in {"address", "booted"} THEN {}
                        ELSE {ReadOrder[i] : i \in 1 .. idx' - 1}
      BY <1>8, <2>1, <2>2
    <2>4. ConfiguredInTurn' /\ AddressesInTurn' /\ SpadsAreOutcome'
      BY <1>5, <2>1 DEF ConfiguredInTurn, AddressesInTurn, SpadsAreOutcome
    <2> QED BY <1>1, <1>6, <1>9, <2>2, <2>3, <2>4, InitGoesOn DEF DriverInv
  <1>11. CASE ~(idx < 3)
    <2>1. pc' = "idle" /\ idx = 3
      BY <1>1, <1>11, InitKnown
    <2>2. configured' = Sensors
      <3>1. Sensors \subseteq {ReadOrder[i] : i \in 1 .. 3}
        BY Order
      <3>2. {ReadOrder[i] : i \in 1 .. 3} \subseteq Sensors
        BY Order
      <3> QED BY <1>8, <2>1, <3>1, <3>2
    <2>3. ConfiguredInTurn' /\ AddressesInTurn' /\ SpadsAreOutcome'
      BY <2>1 DEF ConfiguredInTurn, AddressesInTurn, SpadsAreOutcome, InitPcs
    <2>4. BootInv'
      BY <1>9, <2>1, <2>2 DEF BootInv, BeforeSensors, Running, InitPcs
    <2>5. /\ status_multiple' # "MEASURING" /\ latest_ranges' = NothingMeasured
          /\ returned' = NothingReturned
      BY <1>1, <1>9, InitKnown DEF BootInv
    <2>6. \A s \in Sensors : sensor'[s].address = "own" /\ Quiet(sensor'[s])
      BY <1>5, Order
    <2>7. SensorsInStep'
      BY <2>1, <2>6 DEF SensorsInStep, Quiet, Idle, Reading
    <2>8. ValuesInStep'
      BY <2>1, <2>5, StandbyType DEF ValuesInStep, Reading
    <2>9. RoundsInOrder'
      BY <2>1, <2>5, <2>6, StandbyType DEF RoundsInOrder, Reading, First, Quiet
    <2> QED BY <1>6, <2>3, <2>4, <2>7, <2>8, <2>9 DEF DriverInv
  <1> QED BY <1>10, <1>11

-----------------------------------------------------------------------------
(* The main loop                                                           *)
LEMMA LoopKeeps ==
    ASSUME Inv, SensorsAreUsed, pc \notin InitPcs, pc' \notin InitPcs,
           boot' = boot, configured' = configured, faults' \in {faults, faults + 1},
           InLoop => SensorsInStep' /\ ValuesInStep' /\ RoundsInOrder'
    PROVE  DriverInv'
  <1>1. /\ (InLoop' <=> InLoop)
        /\ BootInv' /\ SpadsAreOutcome' /\ AddressesInTurn' /\ ConfiguredInTurn'
    BY LoopGoesOn
  <1>2. ~InLoop => SensorsInStep' /\ ValuesInStep' /\ RoundsInOrder'
    BY <1>1 DEF SensorsInStep, ValuesInStep, RoundsInOrder
  <1> QED BY <1>1, <1>2 DEF DriverInv

LEMMA LoopKnown ==
    ASSUME Inv
    PROVE  /\ TypeOK /\ SensorsInStep /\ ValuesInStep /\ RoundsInOrder
           /\ idx \in 1 .. 3 /\ Current = ReadOrder[idx] /\ Current \in Sensors
           /\ sensor[Current] \in Devices /\ sensor \in [Sensors -> Devices]
           /\ latest_ranges \in [Sensors -> Values] /\ round \in Rounds
           /\ faults \in Nat /\ faults \in 0 .. MaxFaults
           /\ pc \in InitPcs \cup {"idle", "begin", "start", "wait", "poll", "read", "clear"}
           /\ returned \in [ok : BOOLEAN, fresh : BOOLEAN, ranges : [Sensors -> Values]]
  BY InitKnown, Consts DEF Inv, TypeOK

LEMMA CallCachedKeeps ==
    ASSUME Inv, SensorsAreUsed, boot' = boot, CallCached
    PROVE  TypeOK' /\ DriverInv'
  <1>1. /\ pc = "idle" /\ status_multiple = "MEASURING" /\ pc' = "idle"
        /\ returned' = [ok |-> TRUE, fresh |-> FALSE, ranges |-> latest_ranges]
        /\ UNCHANGED <<idx, blocking, status_multiple, latest_ranges, sensor, spads, configured,
                       isr_enabled, irq, round, faults>>
    BY DEF CallCached, Return
  <1>2. TypeOK'
    <2>1. returned' \in [ok : BOOLEAN, fresh : BOOLEAN, ranges : [Sensors -> Values]]
      BY <1>1, LoopKnown
    <2> QED BY <1>1, <2>1, LoopKnown DEF TypeOK
  <1>3. pc \notin InitPcs /\ pc' \notin InitPcs
    BY <1>1 DEF InitPcs
  <1>4. ASSUME InLoop
        PROVE  SensorsInStep' /\ ValuesInStep' /\ RoundsInOrder'
    <2>1. SensorsInStep'
      BY <1>1, <1>4, LoopKnown DEF SensorsInStep, Idle, Busy, Reading
    <2>2. ValuesInStep'
      BY <1>1, <1>4, LoopKnown DEF ValuesInStep, Reading
    <2>3. RoundsInOrder'
      BY <1>1, <1>4, LoopKnown DEF RoundsInOrder, Reading, NoFault, First
    <2> QED BY <2>1, <2>2, <2>3
  <1> QED BY <1>1, <1>2, <1>3, <1>4, LoopKeeps

LEMMA CallWorkKeeps ==
    ASSUME Inv, SensorsAreUsed, boot' = boot, CallWork
    PROVE  TypeOK' /\ DriverInv'
  <1>1. /\ pc = "idle" /\ status_multiple # "MEASURING" /\ idx' = 1
        /\ pc' = (IF status_multiple = "NOT_STARTED" THEN "begin" ELSE "poll")
        /\ UNCHANGED <<status_multiple, latest_ranges, returned, sensor, spads, configured,
                       isr_enabled, irq, round, faults>>
    BY DEF CallWork
  <1>2. blocking' = (status_multiple = "NOT_STARTED")
    BY DEF CallWork
  <1>3. blocking' \in BOOLEAN
    BY <1>2, Zenon
  <1>4. TypeOK'
    <2>1. idx' \in 1 .. 3 /\ pc' \in InitPcs \cup {"idle", "begin", "start", "wait", "poll", "read", "clear"}
      BY <1>1
    <2> QED BY <1>1, <1>3, <2>1, LoopKnown DEF TypeOK
  <1>5. pc \notin InitPcs /\ pc' \notin InitPcs
    BY <1>1 DEF InitPcs
  <1>6. ASSUME InLoop
        PROVE  SensorsInStep' /\ ValuesInStep' /\ RoundsInOrder'
    <2>1. CASE status_multiple = "NOT_STARTED"
      <3>1. pc' = "begin"
        BY <1>1, <2>1
      <3>2. SensorsInStep'
        BY <1>1, <1>6, <2>1, <3>1, LoopKnown DEF SensorsInStep, Idle, Busy, Reading
      <3>3. ValuesInStep'
        BY <1>1, <1>6, <2>1, <3>1, LoopKnown DEF ValuesInStep, Reading
      <3>4. RoundsInOrder'
        BY <1>1, <1>2, <1>6, <2>1, <3>1, LoopKnown DEF RoundsInOrder, Reading, NoFault, First
      <3> QED BY <3>2, <3>3, <3>4
    <2>2. CASE status_multiple # "NOT_STARTED"
      <3>1. pc' = "poll" /\ status_multiple = "DONE" /\ ~blocking'
        BY <1>1, <1>2, <2>2, LoopKnown DEF TypeOK
      <3>2. 1 .. idx' - 1 = {}
        BY <1>1
      <3>3. SensorsInStep'
        BY <1>1, <1>6, <2>2, <3>1, <3>2, LoopKnown DEF SensorsInStep, Idle, Busy, Reading
      <3>4. ValuesInStep'
        BY <1>1, <1>6, <3>1, <3>2, LoopKnown DEF ValuesInStep, Reading
      <3>5. RoundsInOrder'
        BY <1>1, <1>6, <3>1, <3>2, LoopKnown DEF RoundsInOrder, Reading, NoFault, First
      <3> QED BY <3>3, <3>4, <3>5
    <2> QED BY <2>1, <2>2
  <1> QED BY <1>1, <1>4, <1>5, <1>6, LoopKeeps

LEMMA BeginStartKeeps ==
    ASSUME Inv, SensorsAreUsed, boot' = boot, BeginStart
    PROVE  TypeOK' /\ DriverInv'
  <1>1. /\ pc = "begin" /\ pc' = "start" /\ idx' = 1 /\ status_multiple' = "MEASURING"
        /\ round' = NextRound(round)
        /\ UNCHANGED <<blocking, latest_ranges, returned, sensor, spads, configured,
                       isr_enabled, irq, faults>>
    BY DEF BeginStart, NextRound
  <1>2. round' \in Rounds
    <2>1. round \in Nat /\ round + 1 \in Nat /\ MaxRounds \in Nat /\ MaxRounds > 0
      BY LoopKnown, Consts DEF Rounds
    <2>2. (round + 1) % MaxRounds \in 0 .. MaxRounds - 1
      BY <2>1
    <2> QED BY <1>1, <2>2 DEF Rounds, NextRound
  <1>3. TypeOK'
    BY <1>1, <1>2, LoopKnown DEF TypeOK
  <1>4. pc \notin InitPcs /\ pc' \notin InitPcs
    BY <1>1 DEF InitPcs
  <1>5. ASSUME InLoop
        PROVE  SensorsInStep' /\ ValuesInStep' /\ RoundsInOrder'
    <2>1. \A s \in Sensors : Idle(s) /\ sensor[s].address = "own" /\ ~sensor[s].fetching
      BY <1>1, <1>5, LoopKnown DEF SensorsInStep
    <2>2. SensorsInStep'
      <3>1. \A i \in idx' .. 3 : ReadOrder[i] \in Sensors
        BY <1>1, Order
      <3> QED BY <1>1, <2>1, <3>1 DEF SensorsInStep, Idle, Reading
    <2>3. ValuesInStep'
      BY <1>1, <1>5, LoopKnown DEF ValuesInStep, Reading
    <2>4. RoundsInOrder'
      BY <1>1, <1>5, LoopKnown DEF RoundsInOrder, Reading, NoFault, First
    <2> QED BY <2>2, <2>3, <2>4
  <1> QED BY <1>1, <1>3, <1>4, <1>5, LoopKeeps

LEMMA WaitFirstKeeps ==
    ASSUME Inv, SensorsAreUsed, boot' = boot, WaitFirst
    PROVE  TypeOK' /\ DriverInv'
  <1>1. /\ pc = "wait" /\ status_multiple = "DONE" /\ blocking' = FALSE /\ pc' = "poll" /\ idx' = 1
        /\ UNCHANGED <<status_multiple, latest_ranges, returned, sensor,
                       spads, configured, isr_enabled, irq, round, faults>>
    BY DEF WaitFirst
  <1>2. TypeOK'
    <2>1. blocking' \in BOOLEAN
      BY <1>1, Zenon
    <2>2. idx' \in 1 .. 3 /\ pc' \in InitPcs \cup {"idle", "begin", "start", "wait", "poll", "read", "clear"}
      BY <1>1
    <2> QED BY <1>1, <2>1, <2>2, LoopKnown DEF TypeOK
  <1>3. pc \notin InitPcs /\ pc' \notin InitPcs
    BY <1>1 DEF InitPcs
  <1>4. ASSUME InLoop
        PROVE  SensorsInStep' /\ ValuesInStep' /\ RoundsInOrder'
    <2>1. 1 .. idx' - 1 = {}
      BY <1>1
    <2>2. SensorsInStep'
      BY <1>1, <1>4, <2>1, LoopKnown DEF SensorsInStep, Idle, Busy, Reading
    <2>3. ValuesInStep'
      BY <1>1, <1>4, <2>1, LoopKnown DEF ValuesInStep, Reading
    <2>4. RoundsInOrder'
      BY <1>1, <1>4, <2>1, LoopKnown DEF RoundsInOrder, Reading, NoFault, First
    <2> QED BY <2>2, <2>3, <2>4
  <1> QED BY <1>1, <1>2, <1>3, <1>4, LoopKeeps

LEMMA SpinKeeps ==
    ASSUME Inv, boot' = boot, UNCHANGED vars
    PROVE  TypeOK' /\ DriverInv'
  <1>1. TypeOK'
    BY LoopKnown DEF TypeOK, vars
  <1> QED BY <1>1, InvParts, DriverFrame

(* One sensor is changed, the others are not. *)
LEMMA SensorChanges ==
    ASSUME Inv, NEW s \in Sensors, NEW d \in Devices, sensor' = [sensor EXCEPT ![s] = d]
    PROVE  /\ sensor' \in [Sensors -> Devices] /\ sensor'[s] = d
           /\ \A t \in Sensors : t # s => sensor'[t] = sensor[t]
  BY LoopKnown

LEMMA StartSensorKeeps ==
    ASSUME Inv, SensorsAreUsed, boot' = boot, StartSensor
    PROVE  TypeOK' /\ DriverInv'
  <1> DEFINE dev == sensor[Current]
             d == Measuring(dev)
  <1>1. /\ pc = "start" /\ dev.address = "own" /\ AfterStart
        /\ sensor' = [sensor EXCEPT ![Current] = d]
        /\ UNCHANGED <<blocking, status_multiple, latest_ranges, spads, configured,
                       isr_enabled, irq, round, faults>>
    BY DEF StartSensor
  <1>2. dev \in Devices /\ round \in Rounds
    BY LoopKnown
  <1>3. /\ d \in Devices /\ d.address = "own" /\ d.main_page /\ d.fetching = dev.fetching
        /\ d.measuring /\ d.ready = dev.ready /\ d.started = round
    <2> HIDE DEF dev
    <2> QED BY <1>1, <1>2, DeviceOps
  <1> HIDE DEF d
  <1>4. /\ sensor' \in [Sensors -> Devices] /\ sensor'[Current] = d
        /\ \A t \in Sensors : t # Current => sensor'[t] = sensor[t]
    BY <1>1, <1>3, LoopKnown, SensorChanges
  <1>5. \/ idx < 3 /\ idx' = idx + 1 /\ pc' = "start" /\ returned' = returned
        \/ idx = 3 /\ blocking /\ pc' = "wait" /\ idx' = idx /\ returned' = returned
        \/ /\ idx = 3 /\ ~blocking /\ pc' = "idle" /\ idx' = idx
           /\ returned' = [ok |-> TRUE, fresh |-> TRUE, ranges |-> latest_ranges]
    BY <1>1 DEF AfterStart, Return
  <1>6. TypeOK'
    <2>1. idx' \in 1 .. 3 /\ pc' \in InitPcs \cup {"idle", "begin", "start", "wait", "poll", "read", "clear"}
      BY <1>5, LoopKnown
    <2>2. returned' \in [ok : BOOLEAN, fresh : BOOLEAN, ranges : [Sensors -> Values]]
      <3>1. [ok |-> TRUE, fresh |-> TRUE, ranges |-> latest_ranges]
                \in [ok : BOOLEAN, fresh : BOOLEAN, ranges : [Sensors -> Values]]
        BY LoopKnown
      <3> QED BY <1>5, <3>1, LoopKnown
    <2> QED BY <1>1, <1>4, <2>1, <2>2, LoopKnown DEF TypeOK
  <1>7. pc \notin InitPcs /\ pc' \notin InitPcs
    BY <1>1, <1>5 DEF InitPcs
  <1>8. ASSUME InLoop
        PROVE  SensorsInStep' /\ ValuesInStep' /\ RoundsInOrder'
    <2>1. /\ status_multiple # "NOT_STARTED" /\ \A i \in idx .. 3 : Idle(ReadOrder[i])
          /\ \A s \in Sensors : /\ sensor[s].address = "own" /\ ~sensor[s].fetching
                                /\ Idle(s) \/ Busy(s)
      BY <1>1, <1>8, LoopKnown DEF SensorsInStep
    <2>2. ~dev.measuring /\ ~dev.ready /\ ~dev.fetching
      <3>1. idx \in idx .. 3 /\ Current = ReadOrder[idx] /\ Current \in Sensors
        BY LoopKnown
      <3> QED BY <2>1, <3>1 DEF Idle
    <2>3. \A s \in Sensors : /\ sensor'[s].address = "own" /\ ~sensor'[s].fetching
                             /\ Idle(s)' \/ Busy(s)'
      <3> SUFFICES ASSUME NEW s \in Sensors
                   PROVE  /\ sensor'[s].address = "own" /\ ~sensor'[s].fetching
                          /\ Idle(s)' \/ Busy(s)'
        OBVIOUS
      <3>1. CASE s = Current
        BY <1>1, <1>3, <1>4, <2>2, <3>1 DEF Busy
      <3>2. CASE s # Current
        BY <1>1, <1>4, <2>1, <3>2 DEF Busy, Idle
      <3> QED BY <3>1, <3>2
    <2>4. pc' = "start" => \A i \in idx' .. 3 : Idle(ReadOrder[i])'
      <3> SUFFICES ASSUME pc' = "start", NEW i \in idx' .. 3
                   PROVE  Idle(ReadOrder[i])'
        OBVIOUS
      <3>1. i \in idx .. 3 /\ i \in 1 .. 3 /\ i # idx
        BY <1>5, LoopKnown
      <3>2. ReadOrder[i] # Current /\ ReadOrder[i] \in Sensors
        BY <3>1, Order, LoopKnown
      <3> QED BY <1>4, <2>1, <3>1, <3>2 DEF Idle
    <2>5. SensorsInStep'
      BY <1>1, <1>5, <2>1, <2>3, <2>4 DEF SensorsInStep, Reading
    <2>6. ValuesInStep'
      <3>1. OfOneRound(latest_ranges) /\ (returned.ok => OfOneRound(returned.ranges))
        BY <1>1, <1>8, LoopKnown DEF ValuesInStep
      <3>2. returned'.ok => OfOneRound(returned'.ranges)
        BY <1>5, <3>1
      <3>3. ~Reading'
        BY <1>5 DEF Reading
      <3> QED BY <1>1, <3>1, <3>2, <3>3 DEF ValuesInStep, OfOneRound
    <2>7. RoundsInOrder'
      <3> SUFFICES ASSUME NoFault
                   PROVE  RoundsInOrder'
        BY <1>1 DEF RoundsInOrder, NoFault
      <3>1. /\ \A s \in Sensors : sensor[s].main_page
            /\ blocking => First
            /\ First \/ NextRound(returned.ranges["FRONT"]) = latest_ranges["FRONT"]
            /\ ~blocking => NextRound(latest_ranges["FRONT"]) = round
        BY <1>1, <1>8, LoopKnown DEF RoundsInOrder
      <3>2. \A s \in Sensors : sensor'[s].main_page
        BY <1>3, <1>4, <3>1
      <3>3. ~Reading' /\ status_multiple' # "NOT_STARTED" /\ pc' # "begin"
        BY <1>1, <1>5, <2>1 DEF Reading
      <3>4. CASE pc' = "start"
        BY <1>1, <1>5, <3>1, <3>2, <3>3, <3>4 DEF RoundsInOrder, First
      <3>5. CASE pc' = "wait"
        BY <1>1, <1>5, <3>1, <3>2, <3>3, <3>5 DEF RoundsInOrder, First
      <3>6. CASE pc' = "idle"
        <4>1. returned'.ranges = latest_ranges /\ NextRound(latest_ranges["FRONT"]) = round
          BY <1>5, <3>1, <3>6
        <4> QED BY <1>1, <1>5, <3>2, <3>3, <3>6, <4>1 DEF RoundsInOrder, First
      <3> QED BY <1>5, <3>4, <3>5, <3>6
    <2> QED BY <2>5, <2>6, <2>7
  <1> QED BY <1>1, <1>6, <1>7, <1>8, LoopKeeps

LEMMA StartNackedKeeps ==
    ASSUME Inv, SensorsAreUsed, boot' = boot, StartNacked
    PROVE  TypeOK' /\ DriverInv'
  <1>1. /\ pc = "start" /\ sensor[Current].address # "own" /\ pc' = "idle"
        /\ returned' = [ok |-> FALSE, fresh |-> FALSE, ranges |-> returned.ranges]
        /\ UNCHANGED <<idx, blocking, status_multiple, latest_ranges, sensor, spads, configured,
                       isr_enabled, irq, round, faults>>
    BY DEF StartNacked, Return
  <1>2. TypeOK'
    <2>1. returned' \in [ok : BOOLEAN, fresh : BOOLEAN, ranges : [Sensors -> Values]]
      BY <1>1, LoopKnown
    <2> QED BY <1>1, <2>1, LoopKnown DEF TypeOK
  <1>3. pc \notin InitPcs /\ pc' \notin InitPcs
    BY <1>1 DEF InitPcs
  <1>4. ~InLoop
    BY <1>1, LoopKnown DEF SensorsInStep
  <1> QED BY <1>1, <1>2, <1>3, <1>4, LoopKeeps

LEMMA StartFailsKeeps ==
    ASSUME Inv, SensorsAreUsed, boot' = boot, StartFails
    PROVE  TypeOK' /\ DriverInv'
  <1> DEFINE dev == sensor[Current]
  <1>1. /\ pc = "start" /\ dev.address = "own" /\ pc' = "idle"
        /\ faults < MaxFaults /\ faults' = faults + 1
        /\ returned' = [ok |-> FALSE, fresh |-> FALSE, ranges |-> returned.ranges]
        /\ UNCHANGED <<idx, blocking, status_multiple, latest_ranges, spads, configured,
                       isr_enabled, irq, round>>
    BY DEF StartFails, Fail, Return
  <1>2. PICK d \in {dev, OnPage(dev, FALSE), OnPage(dev, TRUE), Measuring(dev)} :
           sensor' = [sensor EXCEPT ![Current] = d]
    BY DEF StartFails
  <1>3. dev \in Devices /\ round \in Rounds
    BY LoopKnown
  <1>4. /\ d \in Devices /\ d.address = "own" /\ d.fetching = dev.fetching /\ d.ready = dev.ready
        /\ d.measuring => dev.measuring \/ (d.main_page /\ d.started = round)
    <2> HIDE DEF dev
    <2>1. CASE d = dev
      BY <1>1, <1>3, <2>1
    <2>2. ASSUME NEW b \in BOOLEAN, d = OnPage(dev, b)
          PROVE  /\ d \in Devices /\ d.address = "own" /\ d.fetching = dev.fetching
                 /\ d.ready = dev.ready /\ d.measuring = dev.measuring
      <3>1. OnPage(dev, b) \in Devices /\ SameButPage(OnPage(dev, b), dev)
        BY <1>3, DeviceOps
      <3> QED BY <1>1, <2>2, <3>1 DEF SameButPage
    <2>3. CASE d = Measuring(dev)
      BY <1>1, <1>3, <2>3, DeviceOps
    <2> QED BY <1>2, <2>1, <2>2, <2>3
  <1>5. /\ sensor' \in [Sensors -> Devices] /\ sensor'[Current] = d
        /\ \A t \in Sensors : t # Current => sensor'[t] = sensor[t]
    BY <1>2, <1>4, LoopKnown, SensorChanges
  <1>6. TypeOK'
    <2>1. returned' \in [ok : BOOLEAN, fresh : BOOLEAN, ranges : [Sensors -> Values]]
      BY <1>1, LoopKnown
    <2>2. faults' \in 0 .. MaxFaults
      BY <1>1, LoopKnown, Consts
    <2> QED BY <1>1, <1>5, <2>1, <2>2, LoopKnown DEF TypeOK
  <1>7. pc \notin InitPcs /\ pc' \notin InitPcs
    BY <1>1 DEF InitPcs
  <1>8. ASSUME InLoop
        PROVE  SensorsInStep' /\ ValuesInStep' /\ RoundsInOrder'
    <2>1. /\ status_multiple # "NOT_STARTED" /\ \A i \in idx .. 3 : Idle(ReadOrder[i])
          /\ \A s \in Sensors : /\ sensor[s].address = "own" /\ ~sensor[s].fetching
                                /\ Idle(s) \/ Busy(s)
      BY <1>1, <1>8, LoopKnown DEF SensorsInStep
    <2>2. ~dev.measuring /\ ~dev.ready /\ ~dev.fetching
      <3>1. idx \in idx .. 3 /\ Current = ReadOrder[idx] /\ Current \in Sensors
        BY LoopKnown
      <3> QED BY <2>1, <3>1 DEF Idle
    <2>3. \A s \in Sensors : /\ sensor'[s].address = "own" /\ ~sensor'[s].fetching
                             /\ Idle(s)' \/ Busy(s)'
      <3> SUFFICES ASSUME NEW s \in Sensors
                   PROVE  /\ sensor'[s].address = "own" /\ ~sensor'[s].fetching
                          /\ Idle(s)' \/ Busy(s)'
        OBVIOUS
      <3>1. CASE s = Current
        BY <1>1, <1>4, <1>5, <2>2, <3>1 DEF Busy, Idle
      <3>2. CASE s # Current
        BY <1>1, <1>5, <2>1, <3>2 DEF Busy, Idle
      <3> QED BY <3>1, <3>2
    <2>4. SensorsInStep'
      BY <1>1, <2>1, <2>3 DEF SensorsInStep, Reading
    <2>5. ValuesInStep'
      <3>1. OfOneRound(latest_ranges)
        BY <1>1, <1>8, LoopKnown DEF ValuesInStep
      <3> QED BY <1>1, <3>1 DEF ValuesInStep, OfOneRound, Reading
    <2>6. ~NoFault'
      BY <1>1, LoopKnown DEF NoFault
    <2> QED BY <2>4, <2>5, <2>6 DEF RoundsInOrder
  <1> QED BY <1>1, <1>6, <1>7, <1>8, LoopKeeps

(* While a round is read, what is known of the sensor being read. *)
LEMMA ReadingKnown ==
    ASSUME Inv, InLoop, Reading
    PROVE  /\ status_multiple = "DONE" /\ ~blocking
           /\ \A s \in Sensors : /\ sensor[s].address = "own" /\ ~sensor[s].fetching
                                 /\ Idle(s) \/ Busy(s)
           /\ \A i \in 1 .. idx - 1 : Idle(ReadOrder[i]) /\ latest_ranges[ReadOrder[i]] \in {round, OFF_PAGE}
           /\ pc \in {"read", "clear"} => ~sensor[Current].measuring
           /\ pc = "read" => sensor[Current].ready \/ ~sensor[Current].main_page
           /\ pc = "clear" => latest_ranges[Current] \in {round, OFF_PAGE}
           /\ returned.ok => OfOneRound(returned.ranges)
           /\ NoFault => /\ \A s \in Sensors : sensor[s].main_page
                         /\ \A i \in 1 .. idx - 1 : latest_ranges[ReadOrder[i]] = round
                         /\ pc = "clear" => latest_ranges[Current] = round
                         /\ First \/ NextRound(returned.ranges["FRONT"]) = round
  <1>1. SensorsInStep /\ ValuesInStep /\ RoundsInOrder /\ idx \in 1 .. 3 /\ Current = ReadOrder[idx]
    BY LoopKnown
  <1>2. pc # "start"
    BY DEF Reading
  <1>3. \A i \in 1 .. idx - 1 : i \in 1 .. IF pc = "clear" THEN idx ELSE idx - 1
    BY <1>1
  <1>4. pc = "clear" => idx \in 1 .. IF pc = "clear" THEN idx ELSE idx - 1
    BY <1>1
  <1>5. /\ status_multiple = "DONE" /\ ~blocking
        /\ \A i \in 1 .. idx - 1 : latest_ranges[ReadOrder[i]] \in {round, OFF_PAGE}
        /\ pc = "clear" => latest_ranges[Current] \in {round, OFF_PAGE}
        /\ returned.ok => OfOneRound(returned.ranges)
    BY <1>1, <1>3, <1>4 DEF ValuesInStep
  <1>6. /\ \A s \in Sensors : /\ sensor[s].address = "own" /\ ~sensor[s].fetching
                              /\ Idle(s) \/ Busy(s)
        /\ \A i \in 1 .. idx - 1 : Idle(ReadOrder[i])
        /\ pc \in {"read", "clear"} => ~sensor[Current].measuring
        /\ pc = "read" => sensor[Current].ready \/ ~sensor[Current].main_page
    BY <1>1 DEF SensorsInStep
  <1>7. NoFault => /\ \A s \in Sensors : sensor[s].main_page
                   /\ \A i \in 1 .. idx - 1 : latest_ranges[ReadOrder[i]] = round
                   /\ pc = "clear" => latest_ranges[Current] = round
                   /\ First \/ NextRound(returned.ranges["FRONT"]) = round
    BY <1>1, <1>2, <1>3, <1>4 DEF RoundsInOrder
  <1> QED BY <1>5, <1>6, <1>7

LEMMA PollWaitKeeps ==
    ASSUME Inv, SensorsAreUsed, boot' = boot, PollWait
    PROVE  TypeOK' /\ DriverInv'
  <1>1. /\ pc = "poll" /\ MaySayReady /\ pc' = "read"
        /\ UNCHANGED <<idx, blocking, status_multiple, latest_ranges, returned, sensor,
                       spads, configured, isr_enabled, irq, round, faults>>
    BY DEF PollWait
  <1>2. TypeOK'
    BY <1>1, LoopKnown DEF TypeOK
  <1>3. pc \notin InitPcs /\ pc' \notin InitPcs
    BY <1>1 DEF InitPcs
  <1>4. ASSUME InLoop
        PROVE  SensorsInStep' /\ ValuesInStep' /\ RoundsInOrder'
    <2>1. Reading
      BY <1>1 DEF Reading
    <2>2. sensor[Current].ready \/ ~sensor[Current].main_page
      BY <1>1 DEF MaySayReady
    <2>3. ~sensor[Current].measuring
      BY <1>4, <2>1, <2>2, ReadingKnown, LoopKnown DEF Idle, Busy
    <2>4. SensorsInStep'
      BY <1>1, <1>4, <2>1, <2>2, <2>3, ReadingKnown DEF SensorsInStep, Idle, Busy, Reading, Current
    <2>5. ValuesInStep'
      BY <1>1, <1>4, <2>1, ReadingKnown DEF ValuesInStep, Reading, OfOneRound
    <2>6. RoundsInOrder'
      BY <1>1, <1>4, <2>1, ReadingKnown DEF RoundsInOrder, Reading, NoFault, First
    <2> QED BY <2>4, <2>5, <2>6
  <1> QED BY <1>1, <1>2, <1>3, <1>4, LoopKeeps

LEMMA ReadRangeKeeps ==
    ASSUME Inv, SensorsAreUsed, boot' = boot, ReadRange
    PROVE  TypeOK' /\ DriverInv'
  <1> DEFINE v == IF sensor[Current].main_page THEN sensor[Current].sample ELSE OFF_PAGE
  <1>1. /\ pc = "read" /\ pc' = "clear" /\ latest_ranges' = [latest_ranges EXCEPT ![Current] = v]
        /\ UNCHANGED <<idx, blocking, status_multiple, returned, sensor, spads, configured,
                       isr_enabled, irq, round, faults>>
    BY DEF ReadRange
  <1>2. v \in Values
    BY LoopKnown, Consts DEF Devices
  <1>3. InLoop => v \in {round, OFF_PAGE} /\ (sensor[Current].main_page => v = round)
    <2> SUFFICES ASSUME InLoop
                 PROVE  v \in {round, OFF_PAGE} /\ (sensor[Current].main_page => v = round)
      OBVIOUS
    <2>1. Reading
      BY <1>1 DEF Reading
    <2>2. CASE sensor[Current].main_page
      BY <1>1, <2>1, <2>2, ReadingKnown, LoopKnown DEF Idle, Busy
    <2>3. CASE ~sensor[Current].main_page
      BY <2>3
    <2> QED BY <2>2, <2>3
  <1> HIDE DEF v
  <1>4. /\ latest_ranges' \in [Sensors -> Values] /\ latest_ranges'[Current] = v
        /\ \A s \in Sensors : s # Current => latest_ranges'[s] = latest_ranges[s]
    BY <1>1, <1>2, LoopKnown
  <1>5. TypeOK'
    BY <1>1, <1>4, LoopKnown DEF TypeOK
  <1>6. pc \notin InitPcs /\ pc' \notin InitPcs
    BY <1>1 DEF InitPcs
  <1>7. ASSUME InLoop
        PROVE  SensorsInStep' /\ ValuesInStep' /\ RoundsInOrder'
    <2>1. Reading
      BY <1>1 DEF Reading
    <2>2. SensorsInStep'
      BY <1>1, <1>7, <2>1, ReadingKnown DEF SensorsInStep, Idle, Busy, Reading, Current
    <2>3. \A i \in 1 .. idx : i = idx \/ (i \in 1 .. idx - 1 /\ ReadOrder[i] # Current /\ ReadOrder[i] \in Sensors)
      <3> SUFFICES ASSUME NEW i \in 1 .. idx, i # idx
                   PROVE  i \in 1 .. idx - 1 /\ ReadOrder[i] # Current /\ ReadOrder[i] \in Sensors
        OBVIOUS
      <3>1. i \in 1 .. idx - 1 /\ i \in 1 .. 3
        BY LoopKnown
      <3> QED BY <3>1, Order, LoopKnown
    <2>4. \A i \in 1 .. idx : latest_ranges'[ReadOrder[i]] \in {round, OFF_PAGE}
      BY <1>3, <1>4, <1>7, <2>1, <2>3, ReadingKnown, LoopKnown
    <2>5. ValuesInStep'
      BY <1>1, <1>7, <2>1, <2>4, ReadingKnown DEF ValuesInStep, Reading
    <2>6. NoFault => \A i \in 1 .. idx : latest_ranges'[ReadOrder[i]] = round
      BY <1>3, <1>4, <1>7, <2>1, <2>3, ReadingKnown, LoopKnown
    <2>7. RoundsInOrder'
      BY <1>1, <1>7, <2>1, <2>6, ReadingKnown DEF RoundsInOrder, Reading, NoFault, First
    <2> QED BY <2>2, <2>5, <2>7
  <1> QED BY <1>1, <1>5, <1>6, <1>7, LoopKeeps

(* The result of the sensor being read is cleared, if that reaches it. *)
LEMMA ClearedCurrent ==
    ASSUME Inv, sensor' = [sensor EXCEPT ![Current] = Cleared(@)]
    PROVE  /\ sensor' \in [Sensors -> Devices]
           /\ \A t \in Sensors : t # Current => sensor'[t] = sensor[t]
           /\ \A t \in Sensors : sensor'[t].main_page = sensor[t].main_page
           /\ InLoop /\ pc = "clear" =>
                 \A t \in Sensors : /\ sensor'[t].address = "own" /\ ~sensor'[t].fetching
                                    /\ t = Current => ~sensor'[t].measuring /\ ~sensor'[t].ready
  <1> DEFINE dev == sensor[Current]
             d == Cleared(dev)
  <1>1. dev \in Devices /\ round \in Rounds
    BY LoopKnown
  <1>2. /\ d \in Devices /\ d.address = dev.address /\ d.main_page = dev.main_page
        /\ d.fetching = dev.fetching /\ d.measuring = dev.measuring
        /\ d.ready = (dev.ready /\ ~dev.main_page)
    <2> HIDE DEF dev
    <2> QED BY <1>1, DeviceOps
  <1>3. sensor' = [sensor EXCEPT ![Current] = d]
    OBVIOUS
  <1> HIDE DEF d
  <1>4. /\ sensor' \in [Sensors -> Devices] /\ sensor'[Current] = d
        /\ \A t \in Sensors : t # Current => sensor'[t] = sensor[t]
    BY <1>2, <1>3, LoopKnown, SensorChanges
  <1>5. ASSUME InLoop, pc = "clear"
        PROVE  \A t \in Sensors : /\ sensor'[t].address = "own" /\ ~sensor'[t].fetching
                                  /\ t = Current => ~sensor'[t].measuring /\ ~sensor'[t].ready
    <2>1. Reading
      BY <1>5 DEF Reading
    <2>2. ~dev.measuring /\ (dev.ready => dev.main_page)
      BY <1>5, <2>1, ReadingKnown, LoopKnown DEF Idle, Busy
    <2>3. \A t \in Sensors : sensor[t].address = "own" /\ ~sensor[t].fetching
      BY <1>5, <2>1, ReadingKnown
    <2>4. d.address = "own" /\ ~d.fetching /\ ~d.measuring /\ ~d.ready
      BY <1>2, <2>2, <2>3, LoopKnown
    <2> QED BY <1>4, <2>3, <2>4
  <1>6. \A t \in Sensors : sensor'[t].main_page = sensor[t].main_page
    BY <1>2, <1>4
  <1> QED BY <1>4, <1>5, <1>6

LEMMA ClearRangeKeeps ==
    ASSUME Inv, SensorsAreUsed, boot' = boot, ClearRange
    PROVE  TypeOK' /\ DriverInv'
  <1>1. /\ pc = "clear" /\ sensor' = [sensor EXCEPT ![Current] = Cleared(@)]
        /\ idx' = (IF idx < 3 THEN idx + 1 ELSE 1) /\ pc' = (IF idx < 3 THEN "poll" ELSE "begin")
        /\ UNCHANGED <<blocking, status_multiple, latest_ranges, returned, spads, configured,
                       isr_enabled, irq, round, faults>>
    BY DEF ClearRange
  <1>2. /\ sensor' \in [Sensors -> Devices]
        /\ \A t \in Sensors : t # Current => sensor'[t] = sensor[t]
        /\ \A t \in Sensors : sensor'[t].main_page = sensor[t].main_page
        /\ InLoop => \A t \in Sensors : /\ sensor'[t].address = "own" /\ ~sensor'[t].fetching
                                        /\ t = Current => ~sensor'[t].measuring /\ ~sensor'[t].ready
    BY <1>1, ClearedCurrent
  <1>3. TypeOK'
    <2>1. idx' \in 1 .. 3 /\ pc' \in {"poll", "begin"}
      BY <1>1, LoopKnown
    <2> QED BY <1>1, <1>2, <2>1, LoopKnown DEF TypeOK
  <1>4. pc \notin InitPcs /\ pc' \notin InitPcs
    BY <1>1 DEF InitPcs
  <1>5. ASSUME InLoop
        PROVE  SensorsInStep' /\ ValuesInStep' /\ RoundsInOrder'
    <2>1. Reading
      BY <1>1 DEF Reading
    <2>2. \A i \in 1 .. idx : Idle(ReadOrder[i])'
      <3> SUFFICES ASSUME NEW i \in 1 .. idx
                   PROVE  Idle(ReadOrder[i])'
        OBVIOUS
      <3>1. CASE i = idx
        BY <1>2, <1>5, <3>1, LoopKnown DEF Idle
      <3>2. CASE i # idx
        <4>1. i \in 1 .. idx - 1 /\ i \in 1 .. 3
          BY <3>2, LoopKnown
        <4>2. ReadOrder[i] # Current /\ ReadOrder[i] \in Sensors
          BY <3>2, <4>1, Order, LoopKnown
        <4> QED BY <1>2, <1>5, <2>1, <4>1, <4>2, ReadingKnown DEF Idle
      <3> QED BY <3>1, <3>2
    <2>3. \A s \in Sensors : Idle(s)' \/ Busy(s)'
      <3> SUFFICES ASSUME NEW s \in Sensors
                   PROVE  Idle(s)' \/ Busy(s)'
        OBVIOUS
      <3>1. CASE s = Current
        BY <1>2, <1>5, <3>1 DEF Idle
      <3>2. CASE s # Current
        BY <1>1, <1>2, <1>5, <2>1, <3>2, ReadingKnown DEF Idle, Busy
      <3> QED BY <3>1, <3>2
    <2>4. \A i \in 1 .. idx : i = idx \/ i \in 1 .. idx - 1
      BY LoopKnown
    <2>5. \A i \in 1 .. idx : latest_ranges[ReadOrder[i]] \in {round, OFF_PAGE}
      BY <1>1, <1>5, <2>1, <2>4, ReadingKnown, LoopKnown
    <2>6. NoFault => \A i \in 1 .. idx : latest_ranges[ReadOrder[i]] = round
      BY <1>1, <1>5, <2>1, <2>4, ReadingKnown, LoopKnown
    <2>7. CASE idx < 3
      <3>1. idx' - 1 = idx /\ pc' = "poll"
        BY <1>1, <2>7, LoopKnown
      <3>2. SensorsInStep'
        BY <1>1, <1>2, <1>5, <2>1, <2>2, <2>3, <3>1, ReadingKnown DEF SensorsInStep, Reading
      <3>3. ValuesInStep'
        BY <1>1, <1>5, <2>1, <2>5, <3>1, ReadingKnown DEF ValuesInStep, Reading
      <3>4. RoundsInOrder'
        BY <1>1, <1>2, <1>5, <2>1, <2>6, <3>1, ReadingKnown DEF RoundsInOrder, Reading, NoFault, First
      <3> QED BY <3>2, <3>3, <3>4
    <2>8. CASE ~(idx < 3)
      <3>1. idx = 3 /\ pc' = "begin"
        BY <1>1, <2>8, LoopKnown
      <3>2. \A s \in Sensors : Idle(s)'
        BY <2>2, <3>1, Order
      <3>3. SensorsInStep'
        BY <1>1, <1>2, <1>5, <2>1, <3>1, <3>2, ReadingKnown DEF SensorsInStep, Reading
      <3>4. OfOneRound(latest_ranges)
        <4>1. round \in 0 .. MaxRounds
          BY LoopKnown, Consts DEF Rounds
        <4>2. \A s \in Sensors : latest_ranges[s] \in {round, OFF_PAGE}
          BY <2>5, <3>1, Order
        <4> QED BY <4>1, <4>2 DEF OfOneRound
      <3>5. ValuesInStep'
        BY <1>1, <1>5, <2>1, <3>1, <3>4, ReadingKnown DEF ValuesInStep, Reading, OfOneRound
      <3>6. NoFault => latest_ranges["FRONT"] = round
        <4>1. 1 \in 1 .. idx /\ ReadOrder[1] = "FRONT"
          BY <3>1, Order
        <4> QED BY <2>6, <4>1
      <3>7. RoundsInOrder'
        BY <1>1, <1>2, <1>5, <2>1, <3>1, <3>6, ReadingKnown DEF RoundsInOrder, Reading, NoFault, First
      <3> QED BY <3>3, <3>5, <3>7
    <2> QED BY <2>7, <2>8
  <1> QED BY <1>1, <1>3, <1>4, <1>5, LoopKeeps

LEMMA ReadFailsKeeps ==
    ASSUME Inv, SensorsAreUsed, boot' = boot, ReadFails
    PROVE  TypeOK' /\ DriverInv'
  <1>1. /\ pc \in {"poll", "read", "clear"} /\ pc' = "idle"
        /\ faults < MaxFaults /\ faults' = faults + 1
        /\ returned' = [ok |-> FALSE, fresh |-> FALSE, ranges |-> returned.ranges]
        /\ \/ latest_ranges' = latest_ranges
           \/ latest_ranges' = [latest_ranges EXCEPT ![Current] = TORN]
        /\ \/ sensor' = sensor
           \/ pc = "clear" /\ sensor' = [sensor EXCEPT ![Current] = Cleared(@)]
        /\ UNCHANGED <<idx, blocking, status_multiple, spads, configured, isr_enabled, irq, round>>
    BY DEF ReadFails, Fail, Return
  <1>2. TypeOK'
    <2>1. returned' \in [ok : BOOLEAN, fresh : BOOLEAN, ranges : [Sensors -> Values]]
      BY <1>1, LoopKnown
    <2>2. faults' \in 0 .. MaxFaults
      BY <1>1, LoopKnown, Consts
    <2>3. latest_ranges' \in [Sensors -> Values]
      BY <1>1, LoopKnown, Consts
    <2>4. sensor' \in [Sensors -> Devices]
      BY <1>1, LoopKnown, ClearedCurrent
    <2> QED BY <1>1, <2>1, <2>2, <2>3, <2>4, LoopKnown DEF TypeOK
  <1>3. pc \notin InitPcs /\ pc' \notin InitPcs
    BY <1>1 DEF InitPcs
  <1>4. ASSUME InLoop
        PROVE  SensorsInStep' /\ ValuesInStep' /\ RoundsInOrder'
    <2>1. Reading
      BY <1>1 DEF Reading
    <2>2. \A s \in Sensors : /\ sensor'[s].address = "own" /\ ~sensor'[s].fetching
                             /\ Idle(s)' \/ Busy(s)'
      <3> SUFFICES ASSUME NEW s \in Sensors
                   PROVE  /\ sensor'[s].address = "own" /\ ~sensor'[s].fetching
                          /\ Idle(s)' \/ Busy(s)'
        OBVIOUS
      <3>1. CASE sensor'[s] = sensor[s]
        BY <1>1, <1>4, <2>1, <3>1, ReadingKnown DEF Idle, Busy
      <3>2. CASE sensor'[s] # sensor[s]
        <4>1. pc = "clear" /\ sensor' = [sensor EXCEPT ![Current] = Cleared(@)]
          BY <1>1, <3>2
        <4>2. s = Current
          BY <3>2, <4>1, ClearedCurrent
        <4> QED BY <1>4, <4>1, <4>2, ClearedCurrent DEF Idle
      <3> QED BY <3>1, <3>2
    <2>3. status_multiple' = "DONE"
      BY <1>1, <1>4, <2>1, ReadingKnown
    <2>4. SensorsInStep'
      BY <1>1, <2>2, <2>3 DEF SensorsInStep, Reading
    <2>5. ValuesInStep'
      BY <1>1, <2>3 DEF ValuesInStep, Reading
    <2>6. ~NoFault'
      BY <1>1, LoopKnown DEF NoFault
    <2> QED BY <2>4, <2>5, <2>6 DEF RoundsInOrder
  <1> QED BY <1>1, <1>2, <1>3, <1>4, LoopKeeps

-----------------------------------------------------------------------------
(* The interrupt and the devices                                           *)
LEMMA FrontIsrKeeps ==
    ASSUME Inv, boot' = boot, FrontIsr
    PROVE  TypeOK' /\ DriverInv'
  <1>1. /\ irq' = FALSE /\ status_multiple' = "DONE"
        /\ pc' = pc /\ idx' = idx /\ spads' = spads /\ blocking' = blocking
        /\ latest_ranges' = latest_ranges /\ returned' = returned /\ sensor' = sensor
        /\ configured' = configured /\ isr_enabled' = isr_enabled
        /\ round' = round /\ faults' = faults
    BY DEF FrontIsr
  <1>2. TypeOK'
    <2>1. irq' \in BOOLEAN
      BY <1>1, Zenon
    <2> QED BY <1>1, <2>1, LoopKnown DEF TypeOK
  <1>3. DriverInv
    BY InvParts
  <1>4. BootInv' /\ SpadsAreOutcome'
    BY <1>1, <1>3 DEF DriverInv, BootInv, SpadsAreOutcome, BeforeSensors, Running
  <1>5. AddressesInTurn' /\ ConfiguredInTurn'
    BY <1>1, <1>3 DEF DriverInv, AddressesInTurn, ConfiguredInTurn
  <1>6. SensorsInStep'
    BY <1>1, <1>3 DEF DriverInv, SensorsInStep, InLoop, Idle, Busy, Reading, Current
  <1>7. ValuesInStep'
    BY <1>1, <1>3 DEF DriverInv, ValuesInStep, InLoop, Reading
  <1>8. RoundsInOrder'
    BY <1>1, <1>3 DEF DriverInv, RoundsInOrder, InLoop, Reading, NoFault, First
  <1> QED BY <1>2, <1>4, <1>5, <1>6, <1>7, <1>8 DEF DriverInv

(* Only what the invariant says of this sensor is left to check.           *)
LEMMA DeviceKeeps ==
    ASSUME Inv, boot' = boot, NEW s \in Sensors, NEW d \in Devices,
           sensor' = [sensor EXCEPT ![s] = d],
           UNCHANGED <<pc, idx, blocking, status_multiple, latest_ranges, returned,
                       spads, configured, isr_enabled, round, faults>>,
           d.address = sensor[s].address, d.main_page = sensor[s].main_page,
           ~Quiet(sensor[s]), irq' \in BOOLEAN,
           pc = "strobe" /\ s = Current /\ ~sensor[s].measuring => ~d.measuring /\ ~d.ready,
           ~sensor[s].fetching => ~d.fetching,
           sensor[s].measuring # sensor[s].ready /\ ~sensor[s].fetching => d.measuring # d.ready,
           InLoop => /\ sensor[s].measuring /\ ~d.measuring /\ d.ready /\ d.sample = sensor[s].started
    PROVE  TypeOK' /\ DriverInv'
  <1>1. /\ pc' = pc /\ idx' = idx /\ spads' = spads /\ blocking' = blocking
        /\ status_multiple' = status_multiple /\ latest_ranges' = latest_ranges
        /\ returned' = returned /\ configured' = configured /\ isr_enabled' = isr_enabled
        /\ round' = round /\ faults' = faults
    OBVIOUS
  <1>2. /\ sensor' \in [Sensors -> Devices] /\ sensor'[s] = d
        /\ \A t \in Sensors : t # s => sensor'[t] = sensor[t]
    BY SensorChanges
  <1>3. TypeOK'
    BY <1>1, <1>2, LoopKnown DEF TypeOK
  <1>4. DriverInv
    BY InvParts
  <1>5. BootInv' /\ SpadsAreOutcome'
    BY <1>1, <1>4 DEF DriverInv, BootInv, SpadsAreOutcome, BeforeSensors, Running
  <1>6. AddressesInTurn'
    <2> SUFFICES ASSUME boot = "wall_init", pc \in {"address", "booted"}
                 PROVE  FALSE
      BY <1>1 DEF AddressesInTurn
    <2>1. \A i \in 1 .. 3 : Quiet(sensor[ReadOrder[i]])
      BY <1>4 DEF DriverInv, AddressesInTurn
    <2> QED BY <2>1, Order
  <1>7. ConfiguredInTurn'
    <2> SUFFICES ASSUME pc \in InitPcs \ {"address", "booted"}, NEW i \in 1 .. 3
                 PROVE  LET dev == sensor'[ReadOrder[i]]
                        IN /\ dev.address = "own"
                           /\ i # idx \/ pc \in {"config", "select", "tune"} => Quiet(dev)
                           /\ i = idx /\ pc = "strobe" => ~dev.measuring /\ ~dev.ready
                           /\ i = idx /\ pc \in {"vhv", "phase"} =>
                                 dev.main_page /\ ~dev.fetching /\ dev.measuring # dev.ready
      BY <1>1 DEF ConfiguredInTurn
    <2>1. LET dev == sensor[ReadOrder[i]]
          IN /\ dev.address = "own"
             /\ i # idx \/ pc \in {"config", "select", "tune"} => Quiet(dev)
             /\ i = idx /\ pc = "strobe" => ~dev.measuring /\ ~dev.ready
             /\ i = idx /\ pc \in {"vhv", "phase"} =>
                   dev.main_page /\ ~dev.fetching /\ dev.measuring # dev.ready
      BY <1>4 DEF DriverInv, ConfiguredInTurn
    <2>2. CASE ReadOrder[i] # s
      <3>1. sensor'[ReadOrder[i]] = sensor[ReadOrder[i]]
        BY <1>2, <2>2, Order
      <3> QED BY <2>1, <3>1
    <2>3. CASE ReadOrder[i] = s
      <3>1. i = idx /\ pc \notin {"config", "select", "tune"} /\ s = Current
        BY <2>1, <2>3, LoopKnown
      <3> QED BY <1>2, <2>1, <2>3, <3>1
    <2> QED BY <2>2, <2>3
  <1>8. ASSUME InLoop
        PROVE  SensorsInStep' /\ ValuesInStep' /\ RoundsInOrder'
    <2>1. ~Idle(s)
      BY <1>8 DEF Idle
    <2>2. Busy(s) /\ sensor[s].address = "own" /\ ~sensor[s].fetching
      BY <1>8, <2>1, LoopKnown DEF SensorsInStep
    <2>3. sensor'[s].address = "own" /\ ~sensor'[s].fetching /\ Busy(s)'
      BY <1>1, <1>2, <1>8, <2>2 DEF Busy
    <2>4. \A t \in Sensors : t # s =>
             /\ sensor'[t] = sensor[t]
             /\ (Idle(t)' <=> Idle(t)) /\ (Busy(t)' <=> Busy(t))
      BY <1>1, <1>2 DEF Idle, Busy
    <2>5. \A t \in Sensors : Idle(t) => Idle(t)'
      BY <2>1, <2>4
    <2>6. /\ pc # "begin" /\ status_multiple # "NOT_STARTED"
          /\ pc \in {"read", "clear"} => s # Current
      BY <1>8, <2>1, LoopKnown DEF SensorsInStep
    <2>7. SensorsInStep'
      <3>1. \A t \in Sensors : /\ sensor'[t].address = "own" /\ ~sensor'[t].fetching
                               /\ Idle(t)' \/ Busy(t)'
        BY <1>8, <2>3, <2>4, LoopKnown DEF SensorsInStep
      <3>2. pc = "start" => \A i \in idx .. 3 : Idle(ReadOrder[i])'
        <4>1. \A i \in idx .. 3 : ReadOrder[i] \in Sensors
          <5>1. \A i \in idx .. 3 : i \in 1 .. 3
            BY LoopKnown
          <5> QED BY <5>1, Order
        <4> QED BY <1>8, <2>5, <4>1, LoopKnown DEF SensorsInStep
      <3>3. Reading => \A i \in 1 .. idx - 1 : Idle(ReadOrder[i])'
        <4>1. \A i \in 1 .. idx - 1 : ReadOrder[i] \in Sensors
          <5>1. \A i \in 1 .. idx - 1 : i \in 1 .. 3
            BY LoopKnown
          <5> QED BY <5>1, Order
        <4> QED BY <1>8, <2>5, <4>1, LoopKnown DEF SensorsInStep
      <3>4. /\ pc \in {"read", "clear"} => ~sensor'[Current].measuring
            /\ pc = "read" => sensor'[Current].ready \/ ~sensor'[Current].main_page
        BY <1>2, <1>8, <2>6, LoopKnown DEF SensorsInStep
      <3>5. Current' = Current /\ Reading' = Reading
        BY <1>1 DEF Current, Reading
      <3> QED BY <1>1, <2>6, <3>1, <3>2, <3>3, <3>4, <3>5 DEF SensorsInStep
    <2>8. ValuesInStep'
      BY <1>1, <1>4 DEF DriverInv, ValuesInStep, InLoop, Reading
    <2>9. RoundsInOrder'
      <3>1. \A t \in Sensors : sensor'[t].main_page = sensor[t].main_page
        BY <1>2
      <3> QED BY <1>1, <1>4, <3>1 DEF DriverInv, RoundsInOrder, InLoop, Reading, NoFault, First
    <2> QED BY <2>7, <2>8, <2>9
  <1>9. ~InLoop => SensorsInStep' /\ ValuesInStep' /\ RoundsInOrder'
    BY <1>1 DEF SensorsInStep, ValuesInStep, RoundsInOrder, InLoop
  <1> QED BY <1>3, <1>5, <1>6, <1>7, <1>8, <1>9 DEF DriverInv

LEMMA SensorDoneKeeps ==
    ASSUME Inv, boot' = boot, NEW s \in Sensors, SensorDone(s)
    PROVE  TypeOK' /\ DriverInv'
  <1> DEFINE dev == sensor[s]
             d == Finished(dev)
  <1>1. /\ dev.measuring /\ sensor' = [sensor EXCEPT ![s] = d]
        /\ UNCHANGED <<pc, idx, blocking, status_multiple, latest_ranges, returned,
                       spads, configured, isr_enabled, round, faults>>
    BY DEF SensorDone
  <1>2. dev \in Devices /\ round \in Rounds /\ ~Quiet(dev)
    BY <1>1, LoopKnown DEF Quiet
  <1>3. /\ d \in Devices /\ d.address = dev.address /\ d.main_page = dev.main_page
        /\ d.fetching = dev.fetching /\ ~d.measuring /\ d.ready /\ d.sample = dev.started
    <2> HIDE DEF dev
    <2> QED BY <1>2, DeviceOps
  <1>4. irq' \in BOOLEAN
    <2>1. irq' = (irq \/ (s = "FRONT" /\ ~sensor[s].ready))
      BY DEF SensorDone
    <2> QED BY <2>1, Zenon
  <1> HIDE DEF d
  <1> QED BY <1>1, <1>2, <1>3, <1>4, DeviceKeeps

LEMMA NvmDoneKeeps ==
    ASSUME Inv, boot' = boot, NEW s \in Sensors, NvmDone(s)
    PROVE  TypeOK' /\ DriverInv'
  <1> DEFINE dev == sensor[s]
             d == [dev EXCEPT !.fetching = FALSE]
  <1>1. /\ dev.fetching /\ sensor' = [sensor EXCEPT ![s] = d]
        /\ UNCHANGED <<pc, idx, blocking, status_multiple, latest_ranges, returned,
                       spads, configured, isr_enabled, irq, round, faults>>
    BY DEF NvmDone
  <1>2. dev \in Devices /\ irq \in BOOLEAN /\ ~Quiet(dev)
    BY <1>1, LoopKnown DEF Quiet, TypeOK
  <1>3. /\ d \in Devices /\ d.address = dev.address /\ d.main_page = dev.main_page
        /\ ~d.fetching /\ d.measuring = dev.measuring /\ d.ready = dev.ready
    BY <1>2 DEF Devices
  <1>4. ~InLoop
    BY <1>1, LoopKnown DEF SensorsInStep
  <1>5. pc = "strobe" /\ s = Current => ~d.measuring /\ ~d.ready
    <2> SUFFICES ASSUME pc = "strobe", s = Current
                 PROVE  ~dev.measuring /\ ~dev.ready
      BY <1>3
    <2> QED BY CurrentConfigured DEF InitPcs
  <1> HIDE DEF d
  <1> QED BY <1>1, <1>2, <1>3, <1>4, <1>5, DeviceKeeps

-----------------------------------------------------------------------------
(* The whole *)
LEMMA CallDriverKeeps == Inv /\ CallDriver => Inv'
  <1> SUFFICES ASSUME Inv, CallDriver
               PROVE  Inv'
    OBVIOUS
  <1>1. /\ SensorsAreUsed /\ boot' = boot /\ UNCHANGED <<boot, writes, resets>>
        /\ port' = IF pc = "address" THEN [port EXCEPT ![Xshut[Current]].out = "HIGH"] ELSE port
    BY DEF CallDriver
  <1>2. TypeOK' /\ DriverInv'
    <2>1. CASE WakeSensor BY <1>1, <2>1, WakeSensorKeeps
    <2>2. CASE SetAddress BY <1>1, <2>2, SetAddressKeeps
    <2>3. CASE OpenNvm BY <1>1, <2>3, OpenNvmKeeps
    <2>4. CASE SelectSpads BY <1>1, <2>4, SelectSpadsKeeps
    <2>5. CASE WriteSpads BY <1>1, <2>5, WriteSpadsKeeps
    <2>6. CASE RefuseSpads BY <1>1, <2>6, RefuseSpadsKeeps
    <2>7. CASE StartVhvCalibration BY <1>1, <2>7, StartVhvCalibrationKeeps
    <2>8. CASE StartPhaseCalibration BY <1>1, <2>8, StartPhaseCalibrationKeeps
    <2>9. CASE FinishConfig BY <1>1, <2>9, FinishConfigKeeps
    <2>10. CASE CallCached BY <1>1, <2>10, CallCachedKeeps
    <2>11. CASE CallWork BY <1>1, <2>11, CallWorkKeeps
    <2>12. CASE BeginStart BY <1>1, <2>12, BeginStartKeeps
    <2>13. CASE StartSensor BY <1>1, <2>13, StartSensorKeeps
    <2>14. CASE StartNacked BY <1>1, <2>14, StartNackedKeeps
    <2>15. CASE Spin BY <1>1, <2>15, SpinKeeps DEF Spin
    <2>16. CASE WaitFirst BY <1>1, <2>16, WaitFirstKeeps
    <2>17. CASE PollWait BY <1>1, <2>17, PollWaitKeeps
    <2>18. CASE ReadRange BY <1>1, <2>18, ReadRangeKeeps
    <2>19. CASE ClearRange BY <1>1, <2>19, ClearRangeKeeps
    <2>20. Driver
      BY DEF CallDriver
    <2> QED BY <2>1, <2>2, <2>3, <2>4, <2>5, <2>6, <2>7, <2>8, <2>9, <2>10, <2>11, <2>12,
               <2>13, <2>14, <2>15, <2>16, <2>17, <2>18, <2>19, <2>20 DEF Driver
  <1>3. StartupTypeOK' /\ WritesAreRest' /\ PortAsWritten' /\ PortSettled' /\ HeldInStandby'
    BY <1>1, <1>2, DriverPorts
  <1> QED BY <1>2, <1>3, InvPartsNext

LEMMA DriverFailsKeeps == Inv /\ DriverFails => Inv'
  <1> SUFFICES ASSUME Inv, DriverFails
               PROVE  Inv'
    OBVIOUS
  <1>1. SensorsAreUsed /\ Failure /\ boot' = boot /\ UNCHANGED bootVars
    BY DEF DriverFails, bootVars
  <1>2. TypeOK' /\ DriverInv'
    <2>1. CASE BootFails BY <1>1, <2>1, BootFailsKeeps
    <2>2. CASE StartFails BY <1>1, <2>2, StartFailsKeeps
    <2>3. CASE ReadFails BY <1>1, <2>3, ReadFailsKeeps
    <2> QED BY <1>1, <2>1, <2>2, <2>3 DEF Failure
  <1>3. StartupTypeOK' /\ WritesAreRest' /\ PortAsWritten' /\ PortSettled' /\ HeldInStandby'
    <2>1. pc # "address"
      BY <1>1 DEF Failure, BootFails, StartFails, ReadFails
    <2>2. /\ UNCHANGED <<boot, writes, resets>>
          /\ port' = IF pc = "address" THEN [port EXCEPT ![Xshut[Current]].out = "HIGH"] ELSE port
      BY <1>1, <2>1 DEF bootVars
    <2> QED BY <1>1, <1>2, <2>2, DriverPorts
  <1> QED BY <1>2, <1>3, InvPartsNext

LEMMA InterruptKeeps == Inv /\ Interrupt => Inv'
  <1> SUFFICES ASSUME Inv, Interrupt
               PROVE  Inv'
    OBVIOUS
  <1>1. FrontIsr /\ boot' = boot /\ UNCHANGED bootVars /\ sensor' = sensor
    BY DEF Interrupt, FrontIsr, bootVars
  <1>2. TypeOK' /\ DriverInv'
    BY <1>1, FrontIsrKeeps
  <1>3. StartupTypeOK' /\ WritesAreRest' /\ PortAsWritten' /\ PortSettled' /\ HeldInStandby'
    BY <1>1, <1>2, OtherPorts
  <1> QED BY <1>2, <1>3, InvPartsNext

LEMMA DeviceStepKeeps == ASSUME Inv, NEW s \in Sensors, DeviceStep(s) PROVE Inv'
  <1>1. (SensorDone(s) \/ NvmDone(s)) /\ boot' = boot /\ UNCHANGED bootVars
    BY DEF DeviceStep, Device, bootVars
  <1>2. TypeOK' /\ DriverInv'
    BY <1>1, SensorDoneKeeps, NvmDoneKeeps
  <1>3. \A t \in Sensors : sensor[t] = InStandby => sensor'[t] = InStandby
    <2>1. sensor[s].measuring \/ sensor[s].fetching
      BY <1>1 DEF SensorDone, NvmDone
    <2>2. sensor[s] # InStandby
      BY <2>1 DEF InStandby
    <2>3. \A t \in Sensors : t # s => sensor'[t] = sensor[t]
      BY <1>1, LoopKnown DEF SensorDone, NvmDone
    <2> QED BY <2>2, <2>3
  <1>4. StartupTypeOK' /\ WritesAreRest' /\ PortAsWritten' /\ PortSettled' /\ HeldInStandby'
    BY <1>1, <1>2, <1>3, OtherPorts
  <1> QED BY <1>2, <1>4, InvPartsNext

LEMMA StepKeeps == Inv /\ [StartupNext]_allVars => Inv'
  <1> SUFFICES ASSUME Inv, [StartupNext]_allVars
               PROVE  Inv'
    OBVIOUS
  <1>1. CASE Reset BY <1>1, ResetKeeps
  <1>2. CASE WriteRegister BY <1>2, WriteRegisterKeeps
  <1>3. CASE NextFunction BY <1>3, NextFunctionKeeps
  <1>4. CASE CallDriver BY <1>4, CallDriverKeeps
  <1>5. CASE DriverFails BY <1>5, DriverFailsKeeps
  <1>6. CASE Interrupt BY <1>6, InterruptKeeps
  <1>7. ASSUME NEW s \in Sensors, DeviceStep(s)
        PROVE  Inv'
    BY <1>7, DeviceStepKeeps
  <1>8. CASE UNCHANGED allVars
    <2>1. UNCHANGED vars /\ UNCHANGED bootVars /\ boot' = boot /\ sensor' = sensor
      BY <1>8 DEF allVars, vars, bootVars
    <2>2. TypeOK' /\ DriverInv'
      BY <2>1, SpinKeeps
    <2>3. StartupTypeOK' /\ WritesAreRest' /\ PortAsWritten' /\ PortSettled' /\ HeldInStandby'
      BY <2>1, <2>2, OtherPorts
    <2> QED BY <2>2, <2>3, InvPartsNext
  <1> QED BY <1>1, <1>2, <1>3, <1>4, <1>5, <1>6, <1>7, <1>8 DEF StartupNext

(* Whatever resets and failed exchanges there are, the invariant holds.    *)
THEOREM InvCorrect == StartupSpec => []Inv
  <1>1. StartupInit => Inv
    BY StartupInitInv
  <1>2. Inv /\ [StartupNext]_allVars => Inv'
    BY StepKeeps
  <1> QED BY <1>1, <1>2, PTL DEF StartupSpec

(* The types of StartupTypeOK are those of every state. *)
THEOREM TypeCorrect == StartupSpec => []StartupTypeOK
  <1>1. Inv => StartupTypeOK
    BY DEF Inv
  <1> QED BY <1>1, InvCorrect, PTL

(* For every map of SPADs with enough good ones of the type asked for,     *)
(* exactly the first ones of that type are enabled, and the selection is   *)
(* refused only at the end of the map; too few aperture SPADs are refused  *)
(* (vl53l0x.c:289-349).                                                    *)
THEOREM SpadsCorrect == StartupSpec => []SpadsAsCalibrated
  <1>1. Inv => SpadsAsCalibrated
    <2> SUFFICES ASSUME Inv, pc = "select"
                 PROVE  LET info == spads.info
                            usable == OfType(info)
                            wanted == {i \in usable : Cardinality({j \in usable : j < i}) < info.count}
                        IN /\ Cardinality(usable) >= info.count =>
                                 /\ spads.selected = wanted
                                 /\ spads.ok <=> (SPAD_MAX_COUNT - 1 \in wanted =>
                                                     SPAD_MAX_COUNT % SPAD_ROW_SIZE = 0)
                           /\ info.aperture /\ Cardinality(usable) < info.count => ~spads.ok
      BY DEF SpadsAsCalibrated
    <2>1. PICK info \in SpadInfos : spads = [selected |-> SelectedSpads(info),
                                             ok |-> SelectionSucceeds(info), info |-> info]
      BY DEF Inv, SpadsAreOutcome, SpadOutcomes
    <2>2. spads.info = info /\ spads.selected = SelectedSpads(info) /\ spads.ok = SelectionSucceeds(info)
      BY <2>1
    <2> QED BY <2>2, SelectionOfType
  <1> QED BY <1>1, InvCorrect, PTL

(* After any reset, exactly the sensor just woken has the default address  *)
(* (vl53l0x.c:554-556, 578-582).                                           *)
THEOREM AddressCorrect == StartupSpec => []OneSensorAnswers
  <1>1. Inv => OneSensorAnswers
    <2> SUFFICES ASSUME Inv, pc = "booted"
                 PROVE  {s \in Sensors : sensor[s].address = "default"} = {Current}
      BY DEF OneSensorAnswers
    <2>1. boot = "wall_init"
      <3>1. boot \in BootNames
        BY BootIs DEF Inv, StartupTypeOK
      <3> QED BY <3>1 DEF Inv, BootInv, BeforeSensors, BootNames, Running, InitPcs
    <2>2. \A i \in 1 .. 3 : sensor[ReadOrder[i]].address = IF i < idx THEN "own"
                                          ELSE IF i = idx THEN "default" ELSE "standby"
      BY <2>1, InitKnown DEF AddressesInTurn
    <2>3. \A i \in 1 .. 3 : sensor[ReadOrder[i]].address = "default" <=> i = idx
      BY <2>2, InitKnown
    <2> QED BY <2>3, Order, InitKnown
  <1> QED BY <1>1, InvCorrect, PTL

(* No wheel turns while the robot starts, whatever levels a reset left,    *)
(* and every pin of the motor driver is driven once the main loop runs     *)
(* (io.c:95-111, 157-163, ir_remote_ta1.c:129-130).                        *)
THEOREM MotorsCorrect == StartupSpec => []MotorsReady
  <1>1. Inv => MotorsReady
    <2> SUFFICES ASSUME Inv
                 PROVE  MotorsReady
      OBVIOUS
    <2>1. StartupTypeOK /\ WritesAreRest /\ PortAsWritten /\ PortSettled
      BY DEF Inv
    <2>2. /\ \A p \in MotorPins : p \in PinNames /\ (p # "RIGHT_CC_1" => p \in PinNames \ {"RIGHT_CC_1"})
          /\ {"RIGHT_CC_1", "RIGHT_CC_2", "LEFT_CC_1", "LEFT_CC_2", "PWM_LEFT", "PWM_RIGHT"} = MotorPins
      BY PinsAre DEF MotorPins
    <2>3. CASE Running
      <3>1. boot # "mcu_init"
        BY <2>3 DEF Running
      <3>2. \A p \in MotorPins : port[p].output
        BY <2>1, <2>2, <2>3, <3>1 DEF PortSettled
      <3> QED BY <2>3, <3>2 DEF MotorsReady
    <2>4. CASE ~Running /\ boot # "mcu_init"
      <3>1. port["PWM_RIGHT"].out = "LOW" /\ port["PWM_LEFT"].out = "LOW"
        BY <2>1, <2>2, <2>4 DEF PortSettled
      <3> QED BY <2>4, <3>1 DEF MotorsReady, MayTurn, MayBeHigh
    <2>5. CASE boot = "mcu_init"
      <3>1. /\ Pins[1] = "RIGHT_CC_1" /\ Pins[2] = "RIGHT_CC_2" /\ Pins[7] = "PWM_RIGHT"
            /\ Pins[9] = "PWM_LEFT"
        BY DEF Pins
      <3> DEFINE n == Done
      <3>2. n \in Nat
        BY <2>1, WritesLeft
      <3>3. \A k \in {1, 2, 7, 9} :
                /\ port[Pins[k]].alt = (n >= 3 * k - 2 /\ Pins[k] = "PWM_LEFT")
                /\ port[Pins[k]].output = (n >= 3 * k - 1 /\ Pins[k] # "RIGHT_CC_1")
                /\ n >= 3 * k => port[Pins[k]].out = "LOW"
        BY <2>1, <2>5 DEF PortAsWritten
      <3> HIDE DEF n
      <3>4. ~port["RIGHT_CC_1"].output
        BY <3>1, <3>3
      <3>5. n >= 3 * 2 => port["RIGHT_CC_2"].out = "LOW"
        BY <3>1, <3>3
      <3>6. port["PWM_RIGHT"].output => n >= 3 * 7 - 1
        BY <3>1, <3>3
      <3>7. /\ port["PWM_LEFT"].output => n >= 3 * 9 - 1
            /\ n >= 3 * 9 - 2 => port["PWM_LEFT"].alt
        BY <3>1, <3>3
      <3>8. port["PWM_RIGHT"].output => port["RIGHT_CC_2"].out = "LOW"
        BY <3>2, <3>5, <3>6
      <3>9. port["PWM_LEFT"].output => port["PWM_LEFT"].alt
        BY <3>2, <3>7
      <3> QED BY <2>5, <3>4, <3>8, <3>9 DEF MotorsReady, MayTurn, MayBeHigh, Running
    <2> QED BY <2>3, <2>4, <2>5
  <1> QED BY <1>1, InvCorrect, PTL

(* Without a fault every sensor is configured. *)
LEMMA InLoopWhen ==
    ASSUME Inv, pc \notin InitPcs, NoFault \/ configured = Sensors
    PROVE  InLoop
  BY DEF Inv, BootInv, InLoop, NoFault

(* Until an exchange fails, a sensor is started only when it is idle and   *)
(* its last result was read (vl53l0x.c:739-768, 827-830).                  *)
THEOREM StartCorrect == StartupSpec => []StartedWhenIdle
  <1>1. Inv => StartedWhenIdle
    <2> SUFFICES ASSUME Inv, NoFault, pc = "start"
                 PROVE  \A i \in idx .. 3 : Idle(ReadOrder[i])
      BY DEF StartedWhenIdle, Idle
    <2>1. InLoop
      BY InLoopWhen DEF InitPcs
    <2> QED BY <2>1, LoopKnown DEF SensorsInStep
  <1> QED BY <1>1, InvCorrect, PTL

(* However many exchanges fail once the sensors are initialised, the       *)
(* measurements handed out belong to one round (vl53l0x.c:806-842).        *)
THEOREM RoundCorrect == StartupSpec => []ValuesOfOneRound
  <1>1. Inv => ValuesOfOneRound
    <2> SUFFICES ASSUME Inv, configured = Sensors, returned.ok, NEW s \in Sensors, NEW t \in Sensors
                 PROVE  /\ returned.ranges[s] # TORN
                        /\ OFF_PAGE \in {returned.ranges[s], returned.ranges[t]}
                              \/ returned.ranges[s] = returned.ranges[t]
      BY DEF ValuesOfOneRound
    <2>1. pc \notin InitPcs
      BY StandbyType DEF Inv, BootInv
    <2>2. OfOneRound(returned.ranges)
      BY <2>1, InLoopWhen, LoopKnown DEF ValuesInStep
    <2>3. PICK r \in 0 .. MaxRounds : \A u \in Sensors : returned.ranges[u] \in {r, OFF_PAGE}
      BY <2>2 DEF OfOneRound
    <2> QED BY <2>3, Consts
  <1> QED BY <1>1, InvCorrect, PTL

(* Until an exchange fails, no measurement is skipped and none is handed   *)
(* out twice as fresh (vl53l0x.c:827-834).                                 *)
THEOREM OrderCorrect == StartupSpec => FreshRoundsInOrder
  <1> DEFINE InOrder ==
          NoFault' /\ pc # "idle" /\ pc' = "idle" /\ returned'.ok =>
              \/ returned.ranges = NothingMeasured
              \/ returned'.ranges["FRONT"] = (returned.ranges["FRONT"] + 1) % MaxRounds
  <1>1. ASSUME Inv, Inv', [StartupNext]_allVars
        PROVE  [InOrder]_vars
    <2> SUFFICES ASSUME faults' = 0, pc # "idle", pc' = "idle", returned'.ok
                 PROVE  \/ returned.ranges = NothingMeasured
                        \/ returned'.ranges["FRONT"] = (returned.ranges["FRONT"] + 1) % MaxRounds
      BY DEF NoFault
    <2>1. faults \in Nat
      BY <1>1, LoopKnown
    <2>2. CASE StartSensor
      <3>1. /\ pc = "start" /\ faults' = faults
            /\ returned' = [ok |-> TRUE, fresh |-> TRUE, ranges |-> latest_ranges]
        BY <2>2 DEF StartSensor, AfterStart, Return
      <3>2. InLoop /\ NoFault
        BY <1>1, <3>1, InLoopWhen DEF NoFault, InitPcs
      <3>3. First \/ NextRound(returned.ranges["FRONT"]) = latest_ranges["FRONT"]
        BY <1>1, <3>1, <3>2, LoopKnown DEF RoundsInOrder
      <3> QED BY <3>1, <3>3 DEF First, NextRound
    <2>3. CASE FinishConfig
      <3>1. returned' = returned /\ pc \in InitPcs
        BY <2>3 DEF FinishConfig, InitPcs
      <3> QED BY <1>1, <3>1, StandbyType DEF Inv, BootInv
    <2>4. CASE Driver /\ ~StartSensor /\ ~FinishConfig
      BY <2>1, <2>4 DEF Driver, WakeSensor, SetAddress, OpenNvm, SelectSpads, WriteSpads,
         RefuseSpads, StartVhvCalibration, StartPhaseCalibration, CallCached, CallWork,
         BeginStart, StartNacked, Return, Spin, vars, WaitFirst, PollWait, ReadRange, ClearRange
    <2>5. CASE Failure
      <3>1. faults' = faults + 1
        BY <2>5, Zenon DEF Failure, BootFails, StartFails, ReadFails, Fail
      <3> QED BY <2>1, <3>1
    <2>6. CASE Reset \/ WriteRegister \/ NextFunction
      BY <2>6 DEF Reset, WriteRegister, NextFunction, vars
    <2>7. CASE FrontIsr
      BY <2>7 DEF FrontIsr
    <2>8. ASSUME NEW s \in Sensors, Device(s)
          PROVE  FALSE
      BY <2>8 DEF Device, SensorDone, NvmDone
    <2>9. CASE UNCHANGED allVars
      BY <2>9 DEF allVars, vars
    <2> QED BY <1>1, <2>2, <2>3, <2>4, <2>5, <2>6, <2>7, <2>8, <2>9
            DEF StartupNext, CallDriver, DriverFails, Interrupt, DeviceStep
  <1> QED BY <1>1, InvCorrect, PTL DEF FreshRoundsInOrder, StartupSpec
=============================================================================
