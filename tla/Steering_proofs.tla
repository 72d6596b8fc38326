--------------------------- MODULE Steering_proofs ---------------------------
(***************************************************************************)
(* Proofs about app/drive.c on drivers/tb6612fng.c, and about the way from *)
(* the sensors to the wheels on top of them, for every set of readings.    *)
(***************************************************************************)
EXTENDS Steering, SequenceTheorems, TLAPS

(* The mode and the speed a command asks of a wheel. *)
CommandMode(command, wheel) ==
    IF command = Stop THEN "STOP" ELSE ModeOfWheel(command.dir, wheel)

CommandSpeed(command, wheel) ==
    IF command = Stop THEN "STOP" ELSE SpeedOfWheel(command, wheel)

(* The n-th register write of a command. *)
NthWrite(command, n) ==
    CASE n = 1 -> PinWrite("LEFT", "cc1", CommandMode(command, "LEFT") = "FORWARD")
      [] n = 2 -> PinWrite("LEFT", "cc2", CommandMode(command, "LEFT") = "REVERSE")
      [] n = 3 -> PinWrite("RIGHT", "cc1", CommandMode(command, "RIGHT") = "FORWARD")
      [] n = 4 -> PinWrite("RIGHT", "cc2", CommandMode(command, "RIGHT") = "REVERSE")
      [] n = 5 -> PwmWrite("LEFT", CommandSpeed(command, "LEFT"))
      [] OTHER -> PwmWrite("RIGHT", CommandSpeed(command, "RIGHT"))

Done == 6 - Len(writes)

(* What remains to be written is the end of the command under way. *)
WritesAreRest ==
    \A n \in 1 .. Len(writes) : writes[n] = NthWrite(asked, Done + n)

(* The command a pin is set for once n writes are done. *)
Owner(n) == IF Done >= n THEN asked ELSE before

(* The pins written show this command, the others the one before.          *)
PinsAsWritten ==
    /\ cc["LEFT"].cc1 = (CommandMode(Owner(1), "LEFT") = "FORWARD")
    /\ cc["LEFT"].cc2 = (CommandMode(Owner(2), "LEFT") = "REVERSE")
    /\ cc["RIGHT"].cc1 = (CommandMode(Owner(3), "RIGHT") = "FORWARD")
    /\ cc["RIGHT"].cc2 = (CommandMode(Owner(4), "RIGHT") = "REVERSE")

(* So do the speeds, which a stop leaves as they are.                      *)
SpeedsAsWritten ==
    asked # Stop =>
        /\ Done >= 5 => pwm["LEFT"] = SpeedOfWheel(asked, "LEFT")
        /\ Done >= 6 => pwm["RIGHT"] = SpeedOfWheel(asked, "RIGHT")

(* The inductive invariant of Drive. *)
DriveInv ==
    /\ TypeOK
    /\ WritesAreRest
    /\ PinsAsWritten
    /\ SpeedsAsWritten

-----------------------------------------------------------------------------
LEMMA SpeedOfWheelType ==
    ASSUME NEW c \in DriveCommands, c # Stop, NEW w \in Wheels
    PROVE  SpeedOfWheel(c, w) \in PwmSpeeds \ {"STOP"}
  <1>1. c.dir \in DriveDirections /\ c.speed \in DriveSpeeds
    BY DEF DriveCommands
  <1>2. Primary(c.dir) \in {"FORWARD", "ROTATE_LEFT", "ARCTURN_SHARP_LEFT",
                            "ARCTURN_MID_LEFT", "ARCTURN_WIDE_LEFT"}
    BY <1>1 DEF Primary, DriveDirections, LeftTurns, RightTurns
  <1>3. \A i \in {1, 2} : PrimarySpeeds[Primary(c.dir)][c.speed][i] \in PwmSpeeds \ {"STOP"}
    BY <1>1, <1>2 DEF PrimarySpeeds, DriveSpeeds, PwmSpeeds
  <1> QED BY <1>3 DEF SpeedOfWheel

LEMMA NthWriteIs ==
    ASSUME NEW c
    PROVE  /\ NthWrite(c, 1) = PinWrite("LEFT", "cc1", CommandMode(c, "LEFT") = "FORWARD")
           /\ NthWrite(c, 2) = PinWrite("LEFT", "cc2", CommandMode(c, "LEFT") = "REVERSE")
           /\ NthWrite(c, 3) = PinWrite("RIGHT", "cc1", CommandMode(c, "RIGHT") = "FORWARD")
           /\ NthWrite(c, 4) = PinWrite("RIGHT", "cc2", CommandMode(c, "RIGHT") = "REVERSE")
           /\ NthWrite(c, 5) = PwmWrite("LEFT", CommandSpeed(c, "LEFT"))
           /\ NthWrite(c, 6) = PwmWrite("RIGHT", CommandSpeed(c, "RIGHT"))
  BY DEF NthWrite

LEMMA NthWriteType ==
    ASSUME NEW c \in DriveCommands, NEW n \in 1 .. 6
    PROVE  NthWrite(c, n) \in Writes
  <1>1. \A w \in Wheels : CommandSpeed(c, w) \in PwmSpeeds
    BY SpeedOfWheelType DEF CommandSpeed, PwmSpeeds
  <1>2. "LEFT" \in Wheels /\ "RIGHT" \in Wheels
    BY DEF Wheels
  <1>3. \A w \in Wheels, pin \in {"cc1", "cc2"}, high \in BOOLEAN : PinWrite(w, pin, high) \in Writes
    BY DEF Writes
  <1>4. \A w \in Wheels, speed \in PwmSpeeds : PwmWrite(w, speed) \in Writes
    BY DEF Writes
  <1>5. \A m : \A w \in Wheels, pin \in {"cc1", "cc2"} : PinWrite(w, pin, CommandMode(c, w) = m) \in Writes
    <2> SUFFICES ASSUME NEW m, NEW w \in Wheels, NEW pin \in {"cc1", "cc2"}
                 PROVE  PinWrite(w, pin, CommandMode(c, w) = m) \in Writes
      OBVIOUS
    <2>1. (CommandMode(c, w) = m) \in BOOLEAN
      BY Zenon
    <2> QED BY <2>1, <1>3, Zenon
  <1>6. /\ NthWrite(c, 1) \in Writes /\ NthWrite(c, 2) \in Writes
        /\ NthWrite(c, 3) \in Writes /\ NthWrite(c, 4) \in Writes
    <2>1. "cc1" \in {"cc1", "cc2"} /\ "cc2" \in {"cc1", "cc2"}
      OBVIOUS
    <2>2. /\ PinWrite("LEFT", "cc1", CommandMode(c, "LEFT") = "FORWARD") \in Writes
          /\ PinWrite("LEFT", "cc2", CommandMode(c, "LEFT") = "REVERSE") \in Writes
          /\ PinWrite("RIGHT", "cc1", CommandMode(c, "RIGHT") = "FORWARD") \in Writes
          /\ PinWrite("RIGHT", "cc2", CommandMode(c, "RIGHT") = "REVERSE") \in Writes
      BY <1>2, <1>5, <2>1, Zenon
    <2> QED BY <2>2, NthWriteIs, Zenon
  <1>7. NthWrite(c, 5) \in Writes /\ NthWrite(c, 6) \in Writes
    BY <1>1, <1>2, <1>4, NthWriteIs
  <1>8. n \in {1, 2, 3, 4, 5, 6}
    OBVIOUS
  <1> QED BY <1>6, <1>7, <1>8

(* drive_set and drive_stop: four pins, then two speeds.                   *)
LEMMA WritesOfCommand ==
    ASSUME NEW c \in DriveCommands
    PROVE  /\ WritesOf(c) \in Seq(Writes) /\ Len(WritesOf(c)) = 6
           /\ \A n \in 1 .. 6 : WritesOf(c)[n] = NthWrite(c, n)
  <1>1. \A w, m : /\ Len(ModeWrites(w, m)) = 2
                  /\ ModeWrites(w, m)[1] = PinWrite(w, "cc1", m = "FORWARD")
                  /\ ModeWrites(w, m)[2] = PinWrite(w, "cc2", m = "REVERSE")
    BY DEF ModeWrites
  <1> DEFINE left == ModeWrites("LEFT", CommandMode(c, "LEFT"))
             right == ModeWrites("RIGHT", CommandMode(c, "RIGHT"))
             speeds == <<PwmWrite("LEFT", CommandSpeed(c, "LEFT")),
                         PwmWrite("RIGHT", CommandSpeed(c, "RIGHT"))>>
  <1>2. WritesOf(c) = (left \o right) \o speeds
    BY DEF WritesOf, CommandMode, CommandSpeed
  <1>3. /\ Len(WritesOf(c)) = 6
        /\ WritesOf(c)[1] = left[1] /\ WritesOf(c)[2] = left[2]
        /\ WritesOf(c)[3] = right[1] /\ WritesOf(c)[4] = right[2]
        /\ WritesOf(c)[5] = speeds[1] /\ WritesOf(c)[6] = speeds[2]
    BY <1>2 DEF ModeWrites
  <1>4. \A n \in 1 .. 6 : WritesOf(c)[n] = NthWrite(c, n)
    BY <1>1, <1>3 DEF NthWrite
  <1>5. WritesOf(c) \in Seq(Writes)
    <2>1. left \in Seq(Writes) /\ right \in Seq(Writes) /\ speeds \in Seq(Writes)
      BY <1>1, NthWriteType DEF NthWrite, ModeWrites
    <2> QED BY <1>2, <2>1
  <1> QED BY <1>3, <1>4, <1>5

-----------------------------------------------------------------------------
LEMMA DriveInitInv == Init => DriveInv
  <1> SUFFICES ASSUME Init
               PROVE  DriveInv
    OBVIOUS
  <1>1. TypeOK
    BY DEF Init, TypeOK, DriveCommands, Wheels, PwmSpeeds
  <1>2. WritesAreRest /\ Done = 6
    BY DEF Init, WritesAreRest, Done
  <1>3. PinsAsWritten
    BY <1>2 DEF Init, PinsAsWritten, Owner, CommandMode, Wheels
  <1> QED BY <1>1, <1>2, <1>3 DEF DriveInv, SpeedsAsWritten, Init

LEMMA CallInv ==
    ASSUME NEW c \in DriveCommands
    PROVE  DriveInv /\ Call(c) => DriveInv'
  <1> SUFFICES ASSUME DriveInv, Call(c)
               PROVE  DriveInv'
    OBVIOUS
  <1>1. /\ writes = <<>> /\ asked' = c /\ before' = asked /\ writes' = WritesOf(c)
        /\ cc' = cc /\ pwm' = pwm
    BY DEF Call
  <1>2. /\ writes' \in Seq(Writes) /\ Len(writes') = 6 /\ Done' = 0 /\ Done = 6
        /\ \A n \in 1 .. 6 : writes'[n] = NthWrite(c, n)
    BY <1>1, WritesOfCommand DEF Done
  <1>3. TypeOK'
    BY <1>1, <1>2 DEF DriveInv, TypeOK
  <1>4. WritesAreRest'
    BY <1>1, <1>2 DEF WritesAreRest
  <1>5. PinsAsWritten'
    BY <1>1, <1>2 DEF DriveInv, PinsAsWritten, Owner
  <1>6. SpeedsAsWritten'
    BY <1>2 DEF SpeedsAsWritten
  <1> QED BY <1>3, <1>4, <1>5, <1>6 DEF DriveInv

(* The next write is the one after those done, and then one more is done.  *)
LEMMA WriteTakesNext ==
    ASSUME DriveInv, Write
    PROVE  /\ Done' \in 1 .. 6 /\ Done = Done' - 1
           /\ Head(writes) = NthWrite(asked, Done')
           /\ Head(writes) \in Writes
           /\ writes' \in Seq(Writes) /\ Len(writes') <= 6
           /\ WritesAreRest'
           /\ asked' = asked
           /\ before' = IF Done' = 6 THEN asked ELSE before
  <1>1. writes # <<>> /\ writes \in Seq(Writes) /\ Len(writes) <= 6
    BY DEF DriveInv, TypeOK, Write
  <1>2. /\ Len(writes) \in 1 .. 6
        /\ Head(writes) = writes[1] /\ Head(writes) \in Writes
        /\ Tail(writes) \in Seq(Writes) /\ Len(Tail(writes)) = Len(writes) - 1
        /\ \A n \in 1 .. Len(Tail(writes)) : Tail(writes)[n] = writes[n + 1]
    <2>1. Len(writes) \in 1 .. 6
      <3>1. Len(writes) \in Nat \ {0}
        BY <1>1, EmptySeq, Zenon
      <3>2. \A n \in Nat \ {0} : n <= 6 => n \in 1 .. 6
        OBVIOUS
      <3> QED BY <1>1, <3>1, <3>2, Zenon
    <2>2. Head(writes) = writes[1] /\ writes[1] \in Writes
      BY <1>1, <2>1, ElementOfSeq
    <2>3. /\ Tail(writes) \in Seq(Writes) /\ Len(Tail(writes)) = Len(writes) - 1
          /\ \A n \in 1 .. Len(Tail(writes)) : Tail(writes)[n] = writes[n + 1]
      BY <1>1, <2>1, HeadTailProperties
    <2> QED BY <2>1, <2>2, <2>3
  <1>3. /\ writes' = Tail(writes) /\ asked' = asked
        /\ before' = IF writes' = <<>> THEN asked ELSE before
    BY DEF Write
  <1>4. writes' = <<>> <=> Len(writes') = 0
    BY <1>2, <1>3, EmptySeq, LenProperties
  <1>5. Done' \in 1 .. 6 /\ Done = Done' - 1
    <2> DEFINE m == Len(writes)
    <2>1. m \in 1 .. 6
      BY <1>2
    <2>2. Done = 6 - m /\ Done' = 6 - (m - 1)
      BY <1>2, <1>3 DEF Done
    <2> HIDE DEF m
    <2>3. 6 - (m - 1) \in 1 .. 6 /\ 6 - m = (6 - (m - 1)) - 1
      BY ONLY <2>1
    <2> QED BY ONLY <2>2, <2>3, Zenon
  <1>6. \A n \in 1 .. Len(writes) : writes[n] = NthWrite(asked, Done + n)
    BY DEF DriveInv, WritesAreRest
  <1>7. Head(writes) = NthWrite(asked, Done')
    BY <1>2, <1>5, <1>6
  <1>8. WritesAreRest'
    <2> SUFFICES ASSUME NEW n \in 1 .. Len(writes')
                 PROVE  writes'[n] = NthWrite(asked', Done' + n)
      BY DEF WritesAreRest
    <2>1. writes'[n] = NthWrite(asked, Done + (n + 1))
      <3>1. n \in 1 .. Len(writes) - 1
        BY <1>2, <1>3
      <3>2. n + 1 \in 1 .. Len(writes)
        BY <1>2, <3>1
      <3> QED BY <1>2, <1>3, <1>6, <3>1, <3>2
    <2>2. Done + (n + 1) = Done' + n
      BY <1>2, <1>5
    <2> QED BY <2>1, <2>2, <1>3
  <1>9. writes' = <<>> <=> Done' = 6
    <2>1. Done' = 6 - Len(writes') /\ Len(writes') \in Nat
      BY <1>2, <1>3 DEF Done
    <2> QED BY ONLY <1>4, <2>1
  <1>10. writes' \in Seq(Writes) /\ Len(writes') <= 6
    <2>1. Len(Tail(writes)) <= 6
      BY ONLY <1>2
    <2> QED BY <1>2, <1>3, <2>1
  <1>11. before' = IF Done' = 6 THEN asked ELSE before
    BY <1>3, <1>9
  <1> QED BY <1>2, <1>3, <1>5, <1>7, <1>8, <1>10, <1>11

LEMMA WriteInv == DriveInv /\ Write => DriveInv'
  <1> SUFFICES ASSUME DriveInv, Write
               PROVE  DriveInv'
    OBVIOUS
  <1>1. /\ Done' \in 1 .. 6 /\ Done = Done' - 1
        /\ Head(writes) = NthWrite(asked, Done')
        /\ Head(writes) \in Writes
        /\ writes' \in Seq(Writes) /\ Len(writes') <= 6
        /\ WritesAreRest'
        /\ asked' = asked
        /\ before' = IF Done' = 6 THEN asked ELSE before
    BY WriteTakesNext
  <1>2. /\ cc \in [Wheels -> [cc1 : BOOLEAN, cc2 : BOOLEAN]]
        /\ pwm \in [Wheels -> PwmSpeeds]
        /\ asked \in DriveCommands /\ before \in DriveCommands
    BY DEF DriveInv, TypeOK
  <1>3. "LEFT" \in Wheels /\ "RIGHT" \in Wheels /\ "LEFT" # "RIGHT"
    BY DEF Wheels
  <1> DEFINE w == Head(writes)
  <1>4. /\ w.what = "cc1" => cc' = [cc EXCEPT ![w.wheel].cc1 = w.value] /\ pwm' = pwm
        /\ w.what = "cc2" => cc' = [cc EXCEPT ![w.wheel].cc2 = w.value] /\ pwm' = pwm
        /\ w.what = "pwm" => /\ pwm' = IF w.value = "STOP" THEN pwm
                                       ELSE [pwm EXCEPT ![w.wheel] = w.value]
                             /\ cc' = cc
    BY DEF Write
  <1>5. TypeOK'
    <2>1. CASE w.what \in {"cc1", "cc2"}
      <3>1. w.wheel \in Wheels /\ w.value \in BOOLEAN
        BY <1>1, <2>1 DEF Writes, PinWrite, PwmWrite
      <3>2. cc' \in [Wheels -> [cc1 : BOOLEAN, cc2 : BOOLEAN]] /\ pwm' = pwm
        BY <1>2, <1>4, <2>1, <3>1
      <3> QED BY <1>1, <1>2, <3>2 DEF TypeOK
    <2>2. CASE w.what = "pwm"
      <3>1. w.wheel \in Wheels /\ w.value \in PwmSpeeds
        BY <1>1, <2>2 DEF Writes, PinWrite, PwmWrite
      <3>2. pwm' \in [Wheels -> PwmSpeeds] /\ cc' = cc
        BY <1>2, <1>4, <2>2, <3>1
      <3> QED BY <1>1, <1>2, <3>2 DEF TypeOK
    <2> QED BY <1>1, <2>1, <2>2 DEF Writes, PinWrite, PwmWrite
  <1>6. PinsAsWritten' /\ SpeedsAsWritten'
    <2>1. CASE Done' = 1
      <3>1. w = PinWrite("LEFT", "cc1", CommandMode(asked, "LEFT") = "FORWARD")
        BY <1>1, <2>1, NthWriteIs
      <3>2. cc' = [cc EXCEPT !["LEFT"].cc1 = (CommandMode(asked, "LEFT") = "FORWARD")]
        BY <1>4, <3>1 DEF PinWrite
      <3>3. PinsAsWritten'
        BY <1>1, <1>2, <1>3, <2>1, <3>2 DEF DriveInv, PinsAsWritten, Owner
      <3>4. SpeedsAsWritten'
        BY <1>1, <2>1 DEF SpeedsAsWritten
      <3> QED BY <3>3, <3>4
    <2>2. CASE Done' = 2
      <3>1. w = PinWrite("LEFT", "cc2", CommandMode(asked, "LEFT") = "REVERSE")
        BY <1>1, <2>2, NthWriteIs
      <3>2. cc' = [cc EXCEPT !["LEFT"].cc2 = (CommandMode(asked, "LEFT") = "REVERSE")]
        BY <1>4, <3>1 DEF PinWrite
      <3>3. PinsAsWritten'
        BY <1>1, <1>2, <1>3, <2>2, <3>2 DEF DriveInv, PinsAsWritten, Owner
      <3>4. SpeedsAsWritten'
        BY <1>1, <2>2 DEF SpeedsAsWritten
      <3> QED BY <3>3, <3>4
    <2>3. CASE Done' = 3
      <3>1. w = PinWrite("RIGHT", "cc1", CommandMode(asked, "RIGHT") = "FORWARD")
        BY <1>1, <2>3, NthWriteIs
      <3>2. cc' = [cc EXCEPT !["RIGHT"].cc1 = (CommandMode(asked, "RIGHT") = "FORWARD")]
        BY <1>4, <3>1 DEF PinWrite
      <3>3. PinsAsWritten'
        BY <1>1, <1>2, <1>3, <2>3, <3>2 DEF DriveInv, PinsAsWritten, Owner
      <3>4. SpeedsAsWritten'
        BY <1>1, <2>3 DEF SpeedsAsWritten
      <3> QED BY <3>3, <3>4
    <2>4. CASE Done' = 4
      <3>1. w = PinWrite("RIGHT", "cc2", CommandMode(asked, "RIGHT") = "REVERSE")
        BY <1>1, <2>4, NthWriteIs
      <3>2. cc' = [cc EXCEPT !["RIGHT"].cc2 = (CommandMode(asked, "RIGHT") = "REVERSE")]
        BY <1>4, <3>1 DEF PinWrite
      <3>3. PinsAsWritten'
        BY <1>1, <1>2, <1>3, <2>4, <3>2 DEF DriveInv, PinsAsWritten, Owner
      <3>4. SpeedsAsWritten'
        BY <1>1, <2>4 DEF SpeedsAsWritten
      <3> QED BY <3>3, <3>4
    <2>5. CASE Done' = 5
      <3>1. w = PwmWrite("LEFT", CommandSpeed(asked, "LEFT"))
        BY <1>1, <2>5, NthWriteIs
      <3>2. PinsAsWritten'
        BY <1>1, <1>4, <2>5, <3>1 DEF DriveInv, PinsAsWritten, Owner, PwmWrite
      <3>3. ASSUME asked # Stop
            PROVE  pwm' = [pwm EXCEPT !["LEFT"] = SpeedOfWheel(asked, "LEFT")]
        BY <1>2, <1>3, <1>4, <3>1, <3>3, SpeedOfWheelType DEF PwmWrite, CommandSpeed
      <3>4. SpeedsAsWritten'
        BY <1>1, <1>2, <1>3, <2>5, <3>3 DEF DriveInv, SpeedsAsWritten
      <3> QED BY <3>2, <3>4
    <2>6. CASE Done' = 6
      <3>1. w = PwmWrite("RIGHT", CommandSpeed(asked, "RIGHT"))
        BY <1>1, <2>6, NthWriteIs
      <3>2. PinsAsWritten'
        BY <1>1, <1>4, <2>6, <3>1 DEF DriveInv, PinsAsWritten, Owner, PwmWrite
      <3>3. ASSUME asked # Stop
            PROVE  pwm' = [pwm EXCEPT !["RIGHT"] = SpeedOfWheel(asked, "RIGHT")]
        BY <1>2, <1>3, <1>4, <3>1, <3>3, SpeedOfWheelType DEF PwmWrite, CommandSpeed
      <3>4. SpeedsAsWritten'
        BY <1>1, <1>2, <1>3, <2>6, <3>3 DEF DriveInv, SpeedsAsWritten
      <3> QED BY <3>2, <3>4
    <2> QED BY <1>1, <2>1, <2>2, <2>3, <2>4, <2>5, <2>6
  <1> QED BY <1>1, <1>5, <1>6 DEF DriveInv

(* Between any two register writes of a command, what is written already   *)
(* is the new command's and the rest is still the old one's; this holds    *)
(* for every sequence of commands (drive.c:69-127).                        *)
THEOREM DriveInvCorrect == Spec => []DriveInv
  <1>1. Init => DriveInv
    BY DriveInitInv
  <1>2. DriveInv /\ [Next]_driveVars => DriveInv'
    <2> SUFFICES ASSUME DriveInv, [Next]_driveVars
                 PROVE  DriveInv'
      OBVIOUS
    <2>1. CASE Write
      BY <2>1, WriteInv
    <2>2. CASE \E command \in DriveCommands : Call(command)
      BY <2>2, CallInv
    <2>3. CASE UNCHANGED driveVars
      BY <2>3
      DEF driveVars, DriveInv, TypeOK, WritesAreRest, PinsAsWritten, SpeedsAsWritten, Owner, Done
    <2> QED BY <2>1, <2>2, <2>3 DEF Next
  <1> QED BY <1>1, <1>2, PTL DEF Spec

(* What a mode means for the sense of a wheel. *)
LEMMA ModeIsSense ==
    ASSUME NEW c \in DriveCommands, NEW w \in Wheels
    PROVE  /\ CommandMode(c, w) \in {"STOP", "FORWARD", "REVERSE"}
           /\ CommandMode(c, w) = "STOP" <=> c = Stop
           /\ CommandMode(c, w) = "FORWARD" => ModeOf(c, w) = 1
           /\ CommandMode(c, w) = "REVERSE" => ModeOf(c, w) = -1
           /\ CommandMode(c, w) = "STOP" => ModeOf(c, w) = 0
  BY DEF CommandMode, ModeOf, ModeOfWheel

(* Whichever of the two commands a pin shows, a wheel has the sense of one *)
(* of them or none.                                                        *)
LEMMA SenseOfPins ==
    ASSUME NEW w \in Wheels, NEW c \in DriveCommands, NEW d \in DriveCommands,
           NEW pins \in [cc1 : BOOLEAN, cc2 : BOOLEAN],
           pins.cc1 = (CommandMode(c, w) = "FORWARD"),
           pins.cc2 = (CommandMode(d, w) = "REVERSE")
    PROVE  /\ Sense(pins) \in {0, ModeOf(c, w), ModeOf(d, w)}
           /\ c = d => Sense(pins) = ModeOf(c, w)
  BY ModeIsSense DEF Sense

(* While a command is being written no wheel turns in a direction that     *)
(* neither it nor the one before asks for (drive.c:107-118,                *)
(* tb6612fng.c:15-31).                                                     *)
THEOREM DirectionCorrect == Spec => []NoStrayDirection
  <1>1. DriveInv => NoStrayDirection
    <2> SUFFICES ASSUME DriveInv, NEW w \in Wheels
                 PROVE  Sense(cc[w]) \in {0, ModeOf(asked, w), ModeOf(before, w)}
      BY DEF NoStrayDirection
    <2>1. /\ asked \in DriveCommands /\ before \in DriveCommands
          /\ cc[w] \in [cc1 : BOOLEAN, cc2 : BOOLEAN]
          /\ \A n : Owner(n) \in {asked, before}
      BY DEF DriveInv, TypeOK, Owner
    <2>2. \E m, n : /\ cc[w].cc1 = (CommandMode(Owner(m), w) = "FORWARD")
                    /\ cc[w].cc2 = (CommandMode(Owner(n), w) = "REVERSE")
      <3>1. CASE w = "LEFT"
        BY <3>1 DEF DriveInv, PinsAsWritten
      <3>2. CASE w = "RIGHT"
        BY <3>2 DEF DriveInv, PinsAsWritten
      <3> QED BY <3>1, <3>2 DEF Wheels
    <2> QED BY <2>1, <2>2, SenseOfPins
  <1> QED BY <1>1, DriveInvCorrect, PTL

-----------------------------------------------------------------------------
(* The share of full speed a command gives a wheel. *)
Power(command, wheel) ==
    IF wheel = "LEFT" THEN LeftDuty(SpeedOfWheel(command, "LEFT"))
                      ELSE RightDuty(SpeedOfWheel(command, "RIGHT"))

(* The speeds of the two tables, in parts per thousand. *)
LEMMA Duties ==
    /\ LeftDuty("MAX") = 670          /\ RightDuty("MAX") = 666
    /\ LeftDuty("HALF_PLUS") = 600    /\ RightDuty("HALF_PLUS") = 600
    /\ LeftDuty("HALF") = 500         /\ RightDuty("HALF") = 500
    /\ LeftDuty("QUARTER_PLUS") = 430 /\ RightDuty("QUARTER_PLUS") = 428
    /\ LeftDuty("QUARTER") = 330      /\ RightDuty("QUARTER") = 333
    /\ LeftDuty("EIGHTH_PLUS") = 270  /\ RightDuty("EIGHTH_PLUS") = 272
    /\ LeftDuty("EIGHTH") = 200       /\ RightDuty("EIGHTH") = 200
    /\ LeftDuty("STOP") = 0           /\ RightDuty("STOP") \in Int
  BY DEF LeftDuty, RightDuty, A0Period, A1High, A1Low, PWM_PERIOD_TICKS, PWM_PERIOD_TICKS2

(* On an arc the outer wheel is the faster one, whichever timer drives it. *)
ArcTables == {"ARCTURN_SHARP_LEFT", "ARCTURN_MID_LEFT", "ARCTURN_WIDE_LEFT"}

LEMMA ArcSpeeds ==
    ASSUME NEW arc \in ArcTables, NEW speed \in DriveSpeeds
    PROVE  /\ PrimarySpeeds[arc][speed][1] \in PwmSpeeds \ {"STOP"}
           /\ PrimarySpeeds[arc][speed][2] \in PwmSpeeds \ {"STOP"}
           /\ LeftDuty(PrimarySpeeds[arc][speed][1]) < RightDuty(PrimarySpeeds[arc][speed][2])
           /\ LeftDuty(PrimarySpeeds[arc][speed][2]) > RightDuty(PrimarySpeeds[arc][speed][1])
  <1>1. CASE arc = "ARCTURN_SHARP_LEFT"
    <2>1. \A i \in {1, 2} : PrimarySpeeds[arc][speed][i] \in PwmSpeeds \ {"STOP"}
      BY <1>1 DEF PrimarySpeeds, DriveSpeeds, PwmSpeeds
    <2>2. /\ LeftDuty(PrimarySpeeds[arc][speed][1]) < RightDuty(PrimarySpeeds[arc][speed][2])
          /\ LeftDuty(PrimarySpeeds[arc][speed][2]) > RightDuty(PrimarySpeeds[arc][speed][1])
      BY <1>1, Duties DEF PrimarySpeeds, DriveSpeeds
    <2> QED BY <2>1, <2>2
  <1>2. CASE arc = "ARCTURN_MID_LEFT"
    <2>1. \A i \in {1, 2} : PrimarySpeeds[arc][speed][i] \in PwmSpeeds \ {"STOP"}
      BY <1>2 DEF PrimarySpeeds, DriveSpeeds, PwmSpeeds
    <2>2. /\ LeftDuty(PrimarySpeeds[arc][speed][1]) < RightDuty(PrimarySpeeds[arc][speed][2])
          /\ LeftDuty(PrimarySpeeds[arc][speed][2]) > RightDuty(PrimarySpeeds[arc][speed][1])
      BY <1>2, Duties DEF PrimarySpeeds, DriveSpeeds
    <2> QED BY <2>1, <2>2
  <1>3. CASE arc = "ARCTURN_WIDE_LEFT"
    <2>1. \A i \in {1, 2} : PrimarySpeeds[arc][speed][i] \in PwmSpeeds \ {"STOP"}
      BY <1>3 DEF PrimarySpeeds, DriveSpeeds, PwmSpeeds
    <2>2. /\ LeftDuty(PrimarySpeeds[arc][speed][1]) < RightDuty(PrimarySpeeds[arc][speed][2])
          /\ LeftDuty(PrimarySpeeds[arc][speed][2]) > RightDuty(PrimarySpeeds[arc][speed][1])
      BY <1>3, Duties DEF PrimarySpeeds, DriveSpeeds
    <2> QED BY <2>1, <2>2
  <1> QED BY <1>1, <1>2, <1>3 DEF ArcTables

(* Straight on and on the spot both wheels get the same speed. *)
LEMMA StraightSpeeds ==
    ASSUME NEW dir \in {"FORWARD", "ROTATE_LEFT"}, NEW speed \in DriveSpeeds
    PROVE  /\ PrimarySpeeds[dir][speed][1] \in PwmSpeeds \ {"STOP"}
           /\ PrimarySpeeds[dir][speed][1] = PrimarySpeeds[dir][speed][2]
  <1>1. CASE dir = "FORWARD"
    BY <1>1 DEF PrimarySpeeds, DriveSpeeds, PwmSpeeds
  <1>2. CASE dir = "ROTATE_LEFT"
    BY <1>2 DEF PrimarySpeeds, DriveSpeeds, PwmSpeeds
  <1> QED BY <1>1, <1>2

(* The same speed on both timers is nearly the same power. *)
LEMMA SameSpeed ==
    ASSUME NEW sp \in PwmSpeeds \ {"STOP"}
    PROVE  /\ LeftDuty(sp) \in Nat \ {0} /\ RightDuty(sp) \in Nat \ {0}
           /\ LeftDuty(sp) - RightDuty(sp) \in -Tolerance .. Tolerance
  <1>1. \/ sp = "MAX" \/ sp = "HALF_PLUS" \/ sp = "HALF" \/ sp = "QUARTER_PLUS"
        \/ sp = "QUARTER" \/ sp = "EIGHTH_PLUS" \/ sp = "EIGHTH"
    BY DEF PwmSpeeds
  <1> QED BY <1>1, Duties DEF Tolerance

(* The speed table means what the names of its rows say. *)
LEMMA PowerOfCommand ==
    ASSUME NEW c \in DriveCommands, c # Stop
    PROVE  /\ Power(c, "LEFT") \in Nat \ {0} /\ Power(c, "RIGHT") \in Nat \ {0}
           /\ c.dir \in {"FORWARD", "REVERSE", "ROTATE_LEFT", "ROTATE_RIGHT"} =>
                 Power(c, "LEFT") - Power(c, "RIGHT") \in -Tolerance .. Tolerance
           /\ c.dir \in LeftTurns \ {"ROTATE_LEFT"} => Power(c, "LEFT") < Power(c, "RIGHT")
           /\ c.dir \in RightTurns \ {"ROTATE_RIGHT"} => Power(c, "LEFT") > Power(c, "RIGHT")
  <1>1. c.dir \in DriveDirections /\ c.speed \in DriveSpeeds
    BY DEF DriveCommands
  <1> DEFINE first  == PrimarySpeeds[Primary(c.dir)][c.speed][1]
             second == PrimarySpeeds[Primary(c.dir)][c.speed][2]
  <1>2. CASE c.dir \in {"FORWARD", "REVERSE", "ROTATE_LEFT", "ROTATE_RIGHT"}
    <2>1. first \in PwmSpeeds \ {"STOP"} /\ first = second
      <3>1. Primary(c.dir) \in {"FORWARD", "ROTATE_LEFT"}
        BY <1>2 DEF Primary
      <3> QED BY <1>1, <3>1, StraightSpeeds
    <2>2. SpeedOfWheel(c, "LEFT") = first /\ SpeedOfWheel(c, "RIGHT") = first
      BY <2>1 DEF SpeedOfWheel
    <2>3. /\ LeftDuty(first) \in Nat \ {0} /\ RightDuty(first) \in Nat \ {0}
          /\ LeftDuty(first) - RightDuty(first) \in -Tolerance .. Tolerance
      BY <2>1, SameSpeed
    <2>4. Power(c, "LEFT") = LeftDuty(first) /\ Power(c, "RIGHT") = RightDuty(first)
      BY <2>2 DEF Power
    <2>5. c.dir \notin LeftTurns \ {"ROTATE_LEFT"} /\ c.dir \notin RightTurns \ {"ROTATE_RIGHT"}
      BY <1>2 DEF LeftTurns, RightTurns
    <2> QED BY ONLY <2>3, <2>4, <2>5
  <1>3. CASE c.dir \in LeftTurns \ {"ROTATE_LEFT"}
    <2>1. SpeedOfWheel(c, "LEFT") = first /\ SpeedOfWheel(c, "RIGHT") = second
      BY <1>3 DEF SpeedOfWheel, IsMirrored, LeftTurns, RightTurns
    <2>2. /\ first \in PwmSpeeds \ {"STOP"} /\ second \in PwmSpeeds \ {"STOP"}
          /\ LeftDuty(first) < RightDuty(second)
      <3>1. Primary(c.dir) \in ArcTables
        BY <1>3 DEF LeftTurns, Primary, ArcTables
      <3> QED BY <1>1, <3>1, ArcSpeeds
    <2>3. Power(c, "LEFT") = LeftDuty(first) /\ Power(c, "RIGHT") = RightDuty(second)
      BY <2>1 DEF Power
    <2>4. /\ c.dir \notin {"FORWARD", "REVERSE", "ROTATE_LEFT", "ROTATE_RIGHT"}
          /\ c.dir \notin RightTurns
      BY <1>3 DEF LeftTurns, RightTurns
    <2>5. LeftDuty(first) \in Nat \ {0} /\ RightDuty(second) \in Nat \ {0}
      BY <2>2, SameSpeed
    <2> QED BY ONLY <2>2, <2>3, <2>4, <2>5
  <1>4. CASE c.dir \in RightTurns \ {"ROTATE_RIGHT"}
    <2>1. SpeedOfWheel(c, "LEFT") = second /\ SpeedOfWheel(c, "RIGHT") = first
      BY <1>4 DEF SpeedOfWheel, IsMirrored, RightTurns
    <2>2. /\ first \in PwmSpeeds \ {"STOP"} /\ second \in PwmSpeeds \ {"STOP"}
          /\ LeftDuty(second) > RightDuty(first)
      <3>1. Primary(c.dir) \in ArcTables
        BY <1>4 DEF RightTurns, Primary, ArcTables
      <3> QED BY <1>1, <3>1, ArcSpeeds
    <2>3. Power(c, "LEFT") = LeftDuty(second) /\ Power(c, "RIGHT") = RightDuty(first)
      BY <2>1 DEF Power
    <2>4. /\ c.dir \notin {"FORWARD", "REVERSE", "ROTATE_LEFT", "ROTATE_RIGHT"}
          /\ c.dir \notin LeftTurns
      BY <1>4 DEF LeftTurns, RightTurns
    <2>5. LeftDuty(second) \in Nat \ {0} /\ RightDuty(first) \in Nat \ {0}
      BY <2>2, SameSpeed
    <2> QED BY ONLY <2>2, <2>3, <2>4, <2>5
  <1> QED BY <1>1, <1>2, <1>3, <1>4 DEF DriveDirections, LeftTurns, RightTurns

(* Once a command is written the pins of a wheel show its mode. *)
LEMMA SenseOfCommand ==
    ASSUME DriveInv, writes = <<>>, NEW w \in Wheels
    PROVE  Sense(cc[w]) = ModeOf(asked, w)
  <1>1. asked \in DriveCommands /\ cc[w] \in [cc1 : BOOLEAN, cc2 : BOOLEAN]
    BY DEF DriveInv, TypeOK
  <1>2. \A n \in 1 .. 6 : Owner(n) = asked
    BY DEF Done, Owner
  <1>3. /\ cc[w].cc1 = (CommandMode(asked, w) = "FORWARD")
        /\ cc[w].cc2 = (CommandMode(asked, w) = "REVERSE")
    BY <1>2 DEF DriveInv, PinsAsWritten, Wheels
  <1> QED BY <1>1, <1>3, SenseOfPins

(* What the wheels do then. *)
LEMMA MotionOfCommand ==
    ASSUME DriveInv, writes = <<>>, NEW w \in Wheels
    PROVE  Motion(w) = IF asked = Stop THEN 0 ELSE ModeOf(asked, w) * Power(asked, w)
  <1>1. /\ asked \in DriveCommands /\ cc[w] \in [cc1 : BOOLEAN, cc2 : BOOLEAN]
        /\ pwm \in [Wheels -> PwmSpeeds]
    BY DEF DriveInv, TypeOK
  <1>2. Done = 6
    BY DEF Done
  <1>3. Sense(cc[w]) = ModeOf(asked, w)
    BY SenseOfCommand
  <1>4. CASE asked = Stop
    <2>1. Sense(cc[w]) = 0
      BY <1>3, <1>4 DEF ModeOf
    <2>2. pwm["LEFT"] \in PwmSpeeds /\ pwm["RIGHT"] \in PwmSpeeds
      BY <1>1 DEF Wheels
    <2>3. \A s \in PwmSpeeds : LeftDuty(s) \in Int /\ RightDuty(s) \in Int
      BY Duties DEF PwmSpeeds
    <2> QED BY <1>4, <2>1, <2>2, <2>3 DEF Motion
  <1>5. CASE asked # Stop
    <2>1. pwm[w] = SpeedOfWheel(asked, w) /\ pwm[w] # "STOP"
      BY <1>1, <1>2, <1>5, SpeedOfWheelType DEF DriveInv, SpeedsAsWritten, Wheels
    <2> QED BY <1>3, <1>5, <2>1 DEF Motion, Power, Wheels
  <1> QED BY <1>4, <1>5

(* A command that drives, wheel by wheel. *)
LEMMA MotionOfDrive ==
    ASSUME DriveInv, writes = <<>>, asked # Stop
    PROVE  /\ asked \in DriveCommands
           /\ Power(asked, "LEFT") \in Nat \ {0} /\ Power(asked, "RIGHT") \in Nat \ {0}
           /\ Motion("LEFT") = IF asked.dir \in {"REVERSE", "ROTATE_LEFT"}
                               THEN -Power(asked, "LEFT") ELSE Power(asked, "LEFT")
           /\ Motion("RIGHT") = IF asked.dir \in {"REVERSE", "ROTATE_RIGHT"}
                                THEN -Power(asked, "RIGHT") ELSE Power(asked, "RIGHT")
  <1>1. asked \in DriveCommands
    BY DEF DriveInv, TypeOK
  <1>2. Power(asked, "LEFT") \in Nat \ {0} /\ Power(asked, "RIGHT") \in Nat \ {0}
    BY <1>1, PowerOfCommand
  <1>3. /\ Motion("LEFT") = ModeOf(asked, "LEFT") * Power(asked, "LEFT")
        /\ Motion("RIGHT") = ModeOf(asked, "RIGHT") * Power(asked, "RIGHT")
    BY MotionOfCommand DEF Wheels
  <1>4. /\ ModeOf(asked, "LEFT") = IF asked.dir \in {"REVERSE", "ROTATE_LEFT"} THEN -1 ELSE 1
        /\ ModeOf(asked, "RIGHT") = IF asked.dir \in {"REVERSE", "ROTATE_RIGHT"} THEN -1 ELSE 1
    BY DEF ModeOf, GoesForward
  <1> QED BY <1>1, <1>2, <1>3, <1>4

(* Powers so close are close in either direction, too. *)
LEMMA PowersNear ==
    ASSUME NEW a \in Nat \ {0}, NEW b \in Nat \ {0}, a - b \in -Tolerance .. Tolerance
    PROVE  /\ a > 0 /\ -a < 0 /\ ~(a < 0)
           /\ Near(a, b) /\ Near(-a, -b) /\ Near(a, -(-b))
  BY DEF Near, Tolerance

(* Done, a drive command makes the robot do what its name says, although   *)
(* the two wheels have their speeds from two timers in different units     *)
(* (drive.c:18-119, pwm_both_timers.c:54-63).                              *)
THEOREM CommandCorrect == Spec => []DoesAsAsked
  <1>1. DriveInv => DoesAsAsked
    <2> SUFFICES ASSUME DriveInv, writes = <<>>
                 PROVE  DoesAsAsked
      BY DEF DoesAsAsked
    <2>1. CASE asked = Stop
      <3>1. Motion("LEFT") = 0 /\ Motion("RIGHT") = 0
        BY <2>1, MotionOfCommand DEF Wheels
      <3>2. asked.dir = "STOP"
        BY <2>1 DEF Stop
      <3> QED BY <3>1, <3>2 DEF DoesAsAsked, LeftTurns, RightTurns
    <2>2. CASE asked # Stop
      <3> DEFINE left  == Motion("LEFT")
                 right == Motion("RIGHT")
      <3> DEFINE a == Power(asked, "LEFT")
                 b == Power(asked, "RIGHT")
      <3>0. ASSUME asked.dir \in {"FORWARD", "REVERSE", "ROTATE_LEFT", "ROTATE_RIGHT"}
            PROVE  /\ a > 0 /\ -a < 0 /\ ~(a < 0)
                   /\ Near(a, b) /\ Near(-a, -b) /\ Near(a, -(-b))
        <4>1. asked \in DriveCommands
          BY <2>2, MotionOfDrive
        <4>2. a \in Nat \ {0} /\ b \in Nat \ {0} /\ a - b \in -Tolerance .. Tolerance
          BY <2>2, <3>0, <4>1, PowerOfCommand
        <4> QED BY ONLY <4>2, PowersNear
      <3>1. asked.dir = "FORWARD" => left > 0 /\ Near(left, right)
        <4> SUFFICES ASSUME asked.dir = "FORWARD"
                     PROVE  left > 0 /\ Near(left, right)
          OBVIOUS
        <4>1. left = a /\ right = b
          BY <2>2, MotionOfDrive
        <4> QED BY <3>0, <4>1, Zenon
      <3>2. asked.dir = "REVERSE" => left < 0 /\ Near(left, right)
        <4> SUFFICES ASSUME asked.dir = "REVERSE"
                     PROVE  left < 0 /\ Near(left, right)
          OBVIOUS
        <4>1. left = -a /\ right = -b
          BY <2>2, MotionOfDrive
        <4> QED BY <3>0, <4>1, Zenon
      <3>3. asked.dir \in {"ROTATE_LEFT", "ROTATE_RIGHT"} =>
                Near(left, -right) /\ (left < 0 <=> asked.dir = "ROTATE_LEFT")
        <4>1. CASE asked.dir = "ROTATE_LEFT"
          <5>1. left = -a /\ right = b
            BY <2>2, <4>1, MotionOfDrive
          <5> QED BY <3>0, <4>1, <5>1, Zenon
        <4>2. CASE asked.dir = "ROTATE_RIGHT"
          <5>1. left = a /\ right = -b
            BY <2>2, <4>2, MotionOfDrive
          <5>2. asked.dir # "ROTATE_LEFT"
            BY <4>2
          <5> QED BY <3>0, <4>2, <5>1, <5>2, Zenon
        <4> QED BY <4>1, <4>2
      <3>4. asked.dir \in LeftTurns \ {"ROTATE_LEFT"} => left > 0 /\ TurnsLeft
        BY <2>2, MotionOfDrive, PowerOfCommand DEF TurnsLeft, LeftTurns
      <3>5. asked.dir \in RightTurns \ {"ROTATE_RIGHT"} => right > 0 /\ TurnsRight
        BY <2>2, MotionOfDrive, PowerOfCommand DEF TurnsRight, RightTurns
      <3> QED BY <2>2, <3>1, <3>2, <3>3, <3>4, <3>5 DEF DoesAsAsked
    <2> QED BY <2>1, <2>2
  <1> QED BY <1>1, DriveInvCorrect, PTL

-----------------------------------------------------------------------------
(* The steps of the robot that steers are steps of the drive. *)
LEMMA MovesAreCommands ==
    ASSUME NEW s \in ExploreStates, NEW speed \in DriveSpeeds
    PROVE  /\ [dir |-> MoveDir(s), speed |-> speed] \in DriveCommands
           /\ [dir |-> MoveDir(s), speed |-> speed] # Stop
  BY DEF ExploreStates, MoveDir, DriveCommands, DriveDirections, LeftTurns, RightTurns, Stop

LEMMA DecisionsAreStates ==
    ASSUME NEW w, NEW s \in NextExploreStates(w)
    PROVE  s \in ExploreStates
  BY DEF NextExploreStates, NextExploreState, ExploreStates

(* The decisions of state_explore_run reach the drive as commands it       *)
(* knows, one after the other, so that what holds of the drive under any   *)
(* commands holds when it is steered (state_explore.c:122-127).            *)
THEOREM SteeringIsDriving == SteeringSpec => Spec
  <1>1. SteeringInit => Init
    BY DEF SteeringInit
  <1>2. [SteeringNext]_vars => [Next]_driveVars
    <2>1. Decide => Next
      BY MovesAreCommands, DecisionsAreStates DEF Decide, Next
    <2>2. Command \/ WriteStep => Next
      BY DEF Command, WriteStep, Next
    <2> QED BY <2>1, <2>2 DEF SteeringNext, vars
  <1> QED BY <1>1, <1>2, PTL DEF SteeringSpec, Spec

(* The command under way is the move decided for the readings kept.        *)
DecidedFromRanges ==
    ranges # NoDecision =>
        /\ ranges \in [Sides -> Readings]
        /\ asked # Stop
        /\ \E s \in NextExploreStates(WallGet(ranges)) : asked.dir = MoveDir(s)

(* From a decision to the next one the drive carries out one of the moves  *)
(* state_explore_run may choose for the readings (state_explore.c:62-127). *)
THEOREM DecidedCorrect == SteeringSpec => []DecidedFromRanges
  <1>1. SteeringInit => DecidedFromRanges
    BY DEF SteeringInit, DecidedFromRanges
  <1>2. DecidedFromRanges /\ [SteeringNext]_vars => DecidedFromRanges'
    <2> SUFFICES ASSUME DecidedFromRanges, [SteeringNext]_vars
                 PROVE  DecidedFromRanges'
      OBVIOUS
    <2>1. CASE Decide
      <3>1. ranges' \in [Sides -> Readings]
        BY <2>1 DEF Decide
      <3>2. PICK s \in NextExploreStates(WallGet(ranges')), speed \in DriveSpeeds :
                Call([dir |-> MoveDir(s), speed |-> speed])
        BY <2>1 DEF Decide
      <3>3. asked' = [dir |-> MoveDir(s), speed |-> speed]
        BY <3>2 DEF Call
      <3>4. asked' # Stop
        BY <3>3, MovesAreCommands, DecisionsAreStates
      <3> QED BY <3>1, <3>3, <3>4 DEF DecidedFromRanges
    <2>2. CASE Command
      BY <2>2 DEF Command, DecidedFromRanges
    <2>3. CASE WriteStep \/ UNCHANGED vars
      BY <2>3 DEF WriteStep, Write, vars, driveVars, DecidedFromRanges
    <2> QED BY <2>1, <2>2, <2>3 DEF SteeringNext
  <1> QED BY <1>1, <1>2, PTL DEF SteeringSpec

(* What the wall read from three ranges says of a near side, outside a gap.*)
LEMMA NearSides ==
    ASSUME ranges \in [Sides -> Readings], ~InGap
    PROVE  /\ WallAtFront(WallGet(ranges)) <=> Close("front")
           /\ WallAtLeft(WallGet(ranges)) <=> Close("front_left")
           /\ WallAtRight(WallGet(ranges)) <=> Close("front_right")
  <1>1. /\ ranges["front"] \in Nat /\ ranges["front_left"] \in Nat
        /\ ranges["front_right"] \in Nat
    BY ReadingsAssumption DEF Sides
  <1> DEFINE pos == WallGet(ranges).positions
  <1>2. /\ pos = Position(Seen("front"), Seen("front_left"), Seen("front_right"))
        /\ WallGet(ranges).range_front = RangeClass(KeptRange(ranges["front"], pos))
        /\ WallGet(ranges).range_left = RangeClass(KeptRange(ranges["front_left"], pos))
        /\ WallGet(ranges).range_right = RangeClass(KeptRange(ranges["front_right"], pos))
    BY DEF WallGet, IsDetected, Seen
  <1>3. \A mm \in Nat : IsNear(RangeClass(KeptRange(mm, pos)))
                            <=> mm < RANGE_MID /\ pos # "LEFT_RIGHT"
    BY DEF IsNear, RangeClass, KeptRange, IsDetected, RANGE_MID, RANGE_CLOSE,
           RANGE_DETECT_THRESHOLD, INVALID_RANGE
  <1>4. \A side \in Sides : Close(side) => Seen(side)
    BY <1>1 DEF Close, Seen, RANGE_MID, RANGE_DETECT_THRESHOLD, Sides
  <1>5. /\ pos # "LEFT_RIGHT"
        /\ pos \in {"FRONT", "FRONT_ALL", "FRONT_AND_FRONT_RIGHT", "FRONT_AND_FRONT_LEFT"}
              <=> Seen("front")
        /\ pos \in {"FRONT_LEFT", "FRONT_AND_FRONT_LEFT", "FRONT_ALL"} <=> Seen("front_left")
        /\ pos \in {"FRONT_RIGHT", "FRONT_AND_FRONT_RIGHT", "FRONT_ALL"} <=> Seen("front_right")
    BY <1>2 DEF Position, InGap
  <1> QED BY <1>1, <1>2, <1>3, <1>4, <1>5
          DEF WallAtFront, WallAtLeft, WallAtRight, Close, Sides

(* Whatever the three ranges, the wheels take the robot away from a near   *)
(* wall, unless it is in a gap (wall.c:59-169, state_explore.c:62-120,     *)
(* drive.c:69-119).                                                        *)
THEOREM SteeringCorrect == SteeringSpec => []TurnsAway
  <1>1. DriveInv /\ DecidedFromRanges => TurnsAway
    <2> SUFFICES ASSUME DriveInv, DecidedFromRanges, Driving, ~InGap
                 PROVE  /\ Close("front_left") /\ ~Close("front_right") => TurnsRight
                        /\ Close("front_right") /\ ~Close("front_left") => TurnsLeft
                        /\ Close("front") => TurnsLeft \/ TurnsRight \/ Motion("LEFT") < 0
                        /\ (\A side \in Sides : Close(side)) =>
                              Motion("LEFT") < 0 /\ Motion("RIGHT") < 0
      BY DEF TurnsAway
    <2>1. ranges \in [Sides -> Readings] /\ asked # Stop /\ writes = <<>>
      BY DEF Driving, DecidedFromRanges
    <2>2. PICK dir \in RandomDirs :
              asked.dir = MoveDir(NextExploreState(WallGet(ranges), dir))
      BY DEF Driving, DecidedFromRanges, NextExploreStates
    <2> DEFINE front == Close("front")
               left  == Close("front_left")
               right == Close("front_right")
    <2>3. /\ WallAtFront(WallGet(ranges)) <=> front
          /\ WallAtLeft(WallGet(ranges)) <=> left
          /\ WallAtRight(WallGet(ranges)) <=> right
      BY <2>1, NearSides
    <2>4. /\ left /\ ~right => asked.dir \in {"ROTATE_RIGHT", "ARCTURN_SHARP_RIGHT"}
          /\ right /\ ~left => asked.dir \in {"ROTATE_LEFT", "ARCTURN_SHARP_LEFT"}
          /\ front /\ ~(left /\ right) =>
                asked.dir \in {"ROTATE_LEFT", "ROTATE_RIGHT", "ARCTURN_SHARP_LEFT",
                               "ARCTURN_SHARP_RIGHT"}
          /\ front /\ left /\ right => asked.dir = "REVERSE"
      BY <2>2, <2>3 DEF NextExploreState, MoveDir
    <2>5. /\ asked.dir \in {"ROTATE_RIGHT", "ARCTURN_SHARP_RIGHT"} => TurnsRight
          /\ asked.dir \in {"ROTATE_LEFT", "ARCTURN_SHARP_LEFT"} => TurnsLeft
          /\ asked.dir = "REVERSE" => Motion("LEFT") < 0 /\ Motion("RIGHT") < 0
      BY <2>1, MotionOfDrive, PowerOfCommand DEF TurnsLeft, TurnsRight, LeftTurns, RightTurns
    <2> QED BY <2>4, <2>5 DEF Sides
  <1> QED BY <1>1, DecidedCorrect, SteeringIsDriving, DriveInvCorrect, PTL
=============================================================================
