-------------------------- MODULE SensorCore_proofs --------------------------
(***************************************************************************)
(* Theorems about module SensorCore, for every number of samples, failures *)
(* and restarts.  The invariant says, call by call of Program, what the    *)
(* BME280 and the driver's copy hold when no transaction has failed since  *)
(* the start (ChipInv), stage by stage of a setter what they hold when     *)
(* none of its own has failed (RecoverInv), and how old the TMP007's       *)
(* readings are (PairInv).                                                 *)
(***************************************************************************)
EXTENDS SensorCore, TLAPS

Setters == {1, 2, 3, 4, 5, 7, 8}
Writes == Register \union {"direct"}
SetterStage == {"power_mode", "reset"} \union Writes \union Back

\* A setter's stages belong to a setter and the others do not.
StageInv == stage \in SetterStage <=> at \in Setters

\* ctrl_meas when call k begins.
MeasAt(k) ==
    CASE k = 1 -> 0
      [] k \in {2, 3} -> 3
      [] k = 4 -> 11
      [] k = 8 -> 104
      [] OTHER -> 107

\* The chip is as call k finds it.
ChipAt(k) ==
    /\ bme.reg["ctrl_meas"] = MeasAt(k)
    /\ k >= 3 => bme.reg["ctrl_hum"] % 8 = 1 /\ bme.osrs_h = 1

CopyAt(k) ==
    /\ shadow["ctrl_meas"] = MeasAt(k)
    /\ k >= 3 => shadow["ctrl_hum"] % 8 = 1

\* What the stages say of the chip and of the copy.
Sane ==
    /\ stage \notin Back => CopyAt(at)
    /\ stage \notin {"reset"} \union Writes \union Back /\ at > 1 =>
            ChipAt(at) /\ shadow = bme.reg
    /\ stage = "direct" => at \in {1, 8} /\ bme.reg["ctrl_meas"] % 4 = 0
    /\ stage = "direct" /\ at = 8 => ChipAt(8)
    /\ stage \in Register => bme.reg["ctrl_meas"] = 0
    /\ stage = "ctrl_meas" /\ at > 1 => bme.reg["ctrl_hum"] % 8 = 1
    /\ stage \in Back => ChipAt(at + 1)
    /\ stage \in {"read_hum", "read_config"} => shadow["ctrl_meas"] = bme.reg["ctrl_meas"]
    /\ stage = "read_config" => shadow["ctrl_hum"] = bme.reg["ctrl_hum"]

ChipInv == clean => Sane

\* The copy of ctrl_meas is what the chip holds, or held before it left the forced
\* mode.
MeasAgrees ==
    \E mode \in {0, shadow["ctrl_meas"] % 4} \ {NORMAL} :
        shadow["ctrl_meas"] = bme.reg["ctrl_meas"] + mode

\* Of the setter under way: the chip sleeps while it is written to, what was
\* written is there, and what was read back is in the copy.
Sound ==
    /\ stage \in Writes => bme.reg["ctrl_meas"] % 4 = 0
    /\ stage \in {"ctrl_hum", "ctrl_meas"} /\ at = 5 =>
            bme.reg["config"] = Value(Program[5], "config")
    /\ stage = "ctrl_meas" /\ at = 2 =>
            bme.reg["ctrl_hum"] = Value(Program[2], "ctrl_hum")
    /\ stage \in Back => Holds(Program[at])
    /\ stage \in {"read_hum", "read_config"} => MeasAgrees
    /\ stage = "read_config" => shadow["ctrl_hum"] = bme.reg["ctrl_hum"]

RecoverInv == (intact => Sound) /\ SettersRecover

PairInv ==
    /\ buf[1] <= tmp.sample
    /\ tmp.ready => tmp.sample > 0
    /\ stage \in {"tmp_temp", "tmp_obj"} => tmp.sample > 0
    /\ PairInOrder

IInv == TypeOK /\ StageInv /\ ChipInv /\ RecoverInv /\ PairInv /\ OneReading
-----------------------------------------------------------------------------
(* The program. *)

\* The calls, one by one.
LEMMA Length == Len(Program) = 15
BY DEF Program

LEMMA Setting ==
    /\ Program[1].call = "set" /\ Program[1].field = "mode" /\ Program[1].value = 3
    /\ Program[2].call = "set" /\ Program[2].field = "hum" /\ Program[2].value = 1
    /\ Program[3].call = "set" /\ Program[3].field = "press" /\ Program[3].value = 2
    /\ Program[4].call = "set" /\ Program[4].field = "temp" /\ Program[4].value = 3
    /\ Program[5].call = "set" /\ Program[5].field = "standby" /\ Program[5].value = 0
    /\ Program[7].call = "set" /\ Program[7].field = "mode" /\ Program[7].value = 0
    /\ Program[8].call = "set" /\ Program[8].field = "mode" /\ Program[8].value = 3
BY DEF Program, Set, NORMAL, SLEEP

LEMMA Doing ==
    /\ Program[6].call = "readout"
    /\ Program[9].call = "tmp_off"
    /\ Program[10].call = "tmp_on"
    /\ Program[11].call = "opt_off"
    /\ Program[12].call = "opt_on"
    /\ Program[13].call = "tmp_read"
    /\ Program[14].call = "opt_read"
    /\ Program[15].call = "bme_read"
BY DEF Program, Do

\* What call returns into which.
LEMMA FollowingFacts ==
    ASSUME at \in 1..15
    PROVE /\ Following \in 1..15
          /\ at # 15 => Following = at + 1
          /\ at = 15 => Following = 13
          /\ Following # 1
BY Length DEF Following, Loop

\* A call begins with a stage of its kind.
LEMMA Openings ==
    ASSUME NEW k \in 1..15
    PROVE /\ Opening(Program[k]) \in Stage
          /\ Opening(Program[k]) \notin {"reset", "tmp_temp", "tmp_obj"} \union Writes \union Back
          /\ Opening(Program[k]) = "power_mode" <=> k \in Setters
<1>1. k \in {1, 2, 3, 4, 5, 7, 8} => Opening(Program[k]) = "power_mode"
  BY Setting DEF Opening
<1>2. k \in {6, 15} => Opening(Program[k]) = "burst"
  BY Doing DEF Opening
<1>3. k = 9 => Opening(Program[k]) = "tmp_off"
  BY Doing DEF Opening
<1>4. k = 10 => Opening(Program[k]) = "tmp_on"
  BY Doing DEF Opening
<1>5. k = 11 => Opening(Program[k]) = "opt_off"
  BY Doing DEF Opening
<1>6. k = 12 => Opening(Program[k]) = "opt_on"
  BY Doing DEF Opening
<1>7. k = 13 => Opening(Program[k]) = "tmp_status"
  BY Doing DEF Opening
<1>8. k = 14 => Opening(Program[k]) = "opt_config"
  BY Doing DEF Opening
<1>9. k \in {1, 2, 3, 4, 5, 7, 8} \/ k \in {6, 15} \/ k \in {9, 10, 11, 12, 13, 14}
  OBVIOUS
<1> QED
  BY <1>1, <1>2, <1>3, <1>4, <1>5, <1>6, <1>7, <1>8, <1>9
     DEF Stage, Writes, Register, Back, Setters

\* The home of each setter's field.
LEMMA Homes ==
    /\ \A k \in {1, 7, 8} : Home(Program[k]) = "ctrl_meas" /\ Program[k].field = "mode"
    /\ \A k \in {3, 4} : Home(Program[k]) = "ctrl_meas" /\ Program[k].field # "mode"
    /\ Home(Program[2]) = "ctrl_hum" /\ Program[2].field = "hum"
    /\ Home(Program[5]) = "config" /\ Program[5].field = "standby"
    /\ \A k \in Setters : Program[k].field = "hum" => k = 2
BY Setting DEF Home, Field, Setters

\* Each setter's change of its byte.
LEMMA Updates ==
    ASSUME NEW b \in Byte
    PROVE /\ Updated(b, Program[1]) = (b - (b % 4)) + 3
          /\ Updated(b, Program[2]) = (b - (b % 8)) + 1
          /\ Updated(b, Program[3]) = (b - ((b \div 4) % 8) * 4) + 8
          /\ Updated(b, Program[4]) = (b - ((b \div 32) % 8) * 32) + 96
          /\ Updated(b, Program[5]) = b - ((b \div 32) % 8) * 32
          /\ Updated(b, Program[7]) = b - (b % 4)
          /\ Updated(b, Program[8]) = (b - (b % 4)) + 3
BY Setting DEF Updated, Field, Byte

\* No setter overflows a byte.
LEMMA UpdatedByte ==
    ASSUME NEW b \in Byte, NEW k \in Setters
    PROVE Updated(b, Program[k]) \in Byte
<1>1. CASE k \in {1, 7, 8} BY <1>1, Updates DEF Byte
<1>2. CASE k = 2 BY <1>2, Updates, SMTT(30) DEF Byte
<1>3. CASE k = 3 BY <1>3, Updates DEF Byte
<1>4. CASE k = 4 BY <1>4, Updates DEF Byte
<1>5. CASE k = 5 BY <1>5, Updates, SMTT(30) DEF Byte
<1> QED BY <1>1, <1>2, <1>3, <1>4, <1>5 DEF Setters

\* What a setter writes fits in the register.
LEMMA ValueByte ==
    ASSUME shadow \in [Register -> Byte], at \in Setters, NEW r \in Register
    PROVE Value(Program[at], r) \in Byte
<1>1. shadow[r] \in Byte
  OBVIOUS
<1>2. Updated(shadow[r], Program[at]) \in Byte
  BY <1>1, UpdatedByte
<1>3. BME280_CONFIG_VALUE \in Byte
  BY DEF BME280_CONFIG_VALUE, Byte
<1> QED BY <1>1, <1>2, <1>3 DEF Value, New

\* The home of a field is a register.
LEMMA HomeRegister ==
    ASSUME NEW k \in Setters
    PROVE Home(Program[k]) \in Register
BY Homes DEF Setters, Register

LEMMA MeasValues ==
    /\ MeasAt(1) = 0 /\ MeasAt(2) = 3 /\ MeasAt(3) = 3 /\ MeasAt(4) = 11
    /\ MeasAt(5) = 107 /\ MeasAt(6) = 107 /\ MeasAt(7) = 107 /\ MeasAt(8) = 104
    /\ \A k \in 9..15 : MeasAt(k) = 107
BY DEF MeasAt

\* A setter leaves ctrl_meas as the next call expects it.
LEMMA NextMeas ==
    ASSUME shadow \in [Register -> Byte], at \in Setters, shadow["ctrl_meas"] = MeasAt(at)
    PROVE Value(Program[at], "ctrl_meas") = MeasAt(at + 1)
<1> DEFINE m == shadow["ctrl_meas"]
<1>1. m \in Byte
  BY DEF Register
<1>2. CASE at = 1
  <2>1. Value(Program[1], "ctrl_meas") = (m - (m % 4)) + 3
    BY <1>1, Homes, Updates DEF Value, New
  <2> QED BY <1>1, <1>2, <2>1, MeasValues
<1>3. CASE at = 2
  <2>1. Value(Program[2], "ctrl_meas") = m
    BY <1>1, Homes DEF Value
  <2> QED BY <1>1, <1>3, <2>1, MeasValues
<1>4. CASE at = 3
  <2>1. Value(Program[3], "ctrl_meas") = (m - ((m \div 4) % 8) * 4) + 8
    BY <1>1, Homes, Updates DEF Value, New
  <2> QED BY <1>1, <1>4, <2>1, MeasValues
<1>5. CASE at = 4
  <2>1. Value(Program[4], "ctrl_meas") = (m - ((m \div 32) % 8) * 32) + 96
    BY <1>1, Homes, Updates DEF Value, New
  <2> QED BY <1>1, <1>5, <2>1, MeasValues
<1>6. CASE at = 5
  <2>1. Value(Program[5], "ctrl_meas") = m
    BY <1>1, Homes DEF Value
  <2> QED BY <1>1, <1>6, <2>1, MeasValues
<1>7. CASE at = 7
  <2>1. Value(Program[7], "ctrl_meas") = m - (m % 4)
    BY <1>1, Homes, Updates DEF Value, New
  <2> QED BY <1>1, <1>7, <2>1, MeasValues
<1>8. CASE at = 8
  <2>1. Value(Program[8], "ctrl_meas") = (m - (m % 4)) + 3
    BY <1>1, Homes, Updates DEF Value, New
  <2> QED BY <1>1, <1>8, <2>1, MeasValues
<1> QED BY <1>2, <1>3, <1>4, <1>5, <1>6, <1>7, <1>8 DEF Setters

\* And the humidity once it is set.
LEMMA NextHum ==
    ASSUME shadow \in [Register -> Byte], at \in Setters, at > 1,
           at >= 3 => shadow["ctrl_hum"] % 8 = 1
    PROVE Value(Program[at], "ctrl_hum") % 8 = 1
<1> DEFINE h == shadow["ctrl_hum"]
<1>1. h \in Byte
  BY DEF Register
<1>2. CASE at = 2
  <2>1. Value(Program[2], "ctrl_hum") = (h - (h % 8)) + 1
    BY <1>1, Homes, Updates DEF Value, New
  <2> QED BY <1>1, <1>2, <2>1 DEF Byte
<1>3. CASE at # 2
  BY <1>3, Homes DEF Value, Setters
<1> QED BY <1>2, <1>3

Bme == [reg : [Register -> Byte], osrs_h : 0..7, sample : Samples]

\* What a write does to the BME280.
LEMMA WrittenFacts ==
    ASSUME NEW c \in Bme, NEW r \in Register, NEW b \in Byte, NEW d \in Written(c, r, b)
    PROVE /\ d \in Bme
          /\ r # "ctrl_meas" => d.reg["ctrl_meas"] = c.reg["ctrl_meas"] /\ d.osrs_h = c.osrs_h
          /\ r = "ctrl_meas" => d.reg["ctrl_meas"] = b /\ d.osrs_h = c.reg["ctrl_hum"] % 8
          /\ r = "ctrl_hum" => d.reg["ctrl_hum"] = b
          /\ r # "ctrl_hum" => d.reg["ctrl_hum"] = c.reg["ctrl_hum"]
          /\ r = "config" /\ c.reg["ctrl_meas"] % 4 = SLEEP => d.reg["config"] = b
          /\ r # "config" => d.reg["config"] = c.reg["config"]
<1> DEFINE stored == [c EXCEPT !.reg[r] = b]
<1>1. /\ stored.reg = [c.reg EXCEPT ![r] = b] /\ stored.osrs_h = c.osrs_h
      /\ stored.sample = c.sample /\ c.reg \in [Register -> Byte]
  BY DEF Bme
<1>2. stored \in Bme
  BY DEF Bme
<1>3. c.reg["ctrl_hum"] % 8 \in 0..7
  BY <1>1 DEF Register, Byte
<1>4. CASE r = "config"
  <2>1. d = stored \/ (d = c /\ c.reg["ctrl_meas"] % 4 # SLEEP)
    BY <1>4 DEF Written
  <2> QED BY <1>1, <1>2, <1>4, <2>1 DEF Register
<1>5. CASE r = "ctrl_hum"
  <2>1. d = stored
    BY <1>5 DEF Written
  <2> QED BY <1>1, <1>2, <1>5, <2>1 DEF Register
<1>6. CASE r = "ctrl_meas"
  <2>1. d = [stored EXCEPT !.osrs_h = c.reg["ctrl_hum"] % 8]
    BY <1>6 DEF Written
  <2>2. d \in Bme
    BY <1>2, <1>3, <2>1 DEF Bme
  <2> QED BY <1>1, <1>2, <1>6, <2>1, <2>2 DEF Register, Bme
<1> QED BY <1>4, <1>5, <1>6 DEF Register
-----------------------------------------------------------------------------
(* Types and stages. *)

LEMMA InitType == Init => TypeOK /\ StageInv
<1> SUFFICES ASSUME Init PROVE TypeOK /\ StageInv
  OBVIOUS
<1>1. stage \in Stage /\ stage = "power_mode"
  <2>1. 1 \in 1..15 /\ 1 \in Setters
    BY DEF Setters
  <2>2. Opening(Program[1]) \in Stage /\ Opening(Program[1]) = "power_mode"
    BY <2>1, Openings
  <2> QED BY <2>2 DEF Init
<1>2. 0 \in Byte /\ 0 \in Samples /\ 0 \in 0..7 /\ 0 \in 0..MAX_FAILURES /\ 0 \in 0..MAX_RESTARTS
  BY BoundAssumption DEF Byte, Samples
<1>3. bme \in [reg : [Register -> Byte], osrs_h : 0..7, sample : Samples]
  BY <1>2 DEF Init
<1>4. /\ tmp \in [on : BOOLEAN, sample : Samples, ready : BOOLEAN]
      /\ opt \in [on : BOOLEAN, sample : Samples]
  <2>1. \A a, b \in BOOLEAN : [on |-> a, sample |-> 0, ready |-> b]
            \in [on : BOOLEAN, sample : Samples, ready : BOOLEAN]
    BY <1>2
  <2>2. \A a \in BOOLEAN : [on |-> a, sample |-> 0] \in [on : BOOLEAN, sample : Samples]
    BY <1>2
  <2>3. TRUE \in BOOLEAN /\ FALSE \in BOOLEAN
    OBVIOUS
  <2>4. tmp = [on |-> TRUE, sample |-> 0, ready |-> FALSE] /\ opt = [on |-> FALSE, sample |-> 0]
    BY DEF Init
  <2> QED BY <2>1, <2>2, <2>3, <2>4
<1>8. shadow \in [Register -> Byte]
  BY <1>2 DEF Init
<1>9. /\ raw \in [temp : Samples, obj : Samples, lux : Samples]
      /\ shown \in [temp : Samples, press : Samples, fine : Samples]
      /\ buf \in Samples \X Samples
  BY <1>2 DEF Init
<1>10. told \in [tmp : BOOLEAN, opt : BOOLEAN]
  BY DEF Init
<1>5. at \in 1..Len(Program)
  BY Length DEF Init
<1>6. TypeOK
  BY <1>1, <1>2, <1>3, <1>4, <1>5, <1>8, <1>9, <1>10 DEF TypeOK, Init
<1>7. StageInv
  BY <1>1 DEF StageInv, SetterStage, Setters, Init
<1> QED BY <1>6, <1>7

\* A return is into the beginning of another call.
LEMMA ReturnFacts ==
    ASSUME at \in 1..15, Return
    PROVE /\ at' \in 1..15 /\ at' = Following /\ stage' \in Stage /\ StageInv'
          /\ stage' \notin {"reset", "tmp_temp", "tmp_obj"} \union Writes \union Back
<1>1. Following \in 1..15
  BY FollowingFacts
<1>2. at' = Following /\ stage' = Opening(Program[at'])
  BY DEF Return
<1>3. /\ stage' \in Stage
      /\ stage' \notin {"reset", "tmp_temp", "tmp_obj"} \union Writes \union Back
      /\ stage' = "power_mode" <=> at' \in Setters
  BY <1>1, <1>2, Openings
<1>4. StageInv'
  BY <1>3 DEF StageInv, SetterStage
<1> QED BY <1>1, <1>2, <1>3, <1>4

\* The types that every transaction has to keep.
Quantities ==
    /\ bme \in Bme
    /\ tmp \in [on : BOOLEAN, sample : Samples, ready : BOOLEAN]
    /\ opt \in [on : BOOLEAN, sample : Samples]
    /\ shadow \in [Register -> Byte]
    /\ t_fine \in Samples
    /\ v_data_u8 \in Byte
    /\ buf \in Samples \X Samples
    /\ raw \in [temp : Samples, obj : Samples, lux : Samples]
    /\ told \in [tmp : BOOLEAN, opt : BOOLEAN]
    /\ shown \in [temp : Samples, press : Samples, fine : Samples]

Places == at \in 1..15 /\ stage \in Stage
Counts ==
    /\ clean \in BOOLEAN /\ intact \in BOOLEAN
    /\ failures \in 0..MAX_FAILURES /\ restarts \in 0..MAX_RESTARTS

LEMMA TypeParts == TypeOK <=> Quantities /\ Places /\ Counts
BY Length DEF TypeOK, Quantities, Places, Counts, Bme

LEMMA TransferType ==
    ASSUME Counts, NEW ok \in BOOLEAN, Transfer(ok)
    PROVE Counts'
BY BoundAssumption DEF Counts, Transfer

\* What a good transaction reads of the BME280.
LEMMA ReadByte ==
    ASSUME Quantities, stage \in Back
    PROVE bme.reg[Source] \in Byte /\ Source \in Register
<1>1. Source \in Register
  BY DEF Source, Back, Register
<1>2. bme.reg \in [Register -> Byte]
  BY DEF Quantities, Bme
<1> QED BY <1>1, <1>2

LEMMA PowerModeType ==
    ASSUME Quantities, Places, Counts, StageInv, NEW ok \in BOOLEAN, PowerMode(ok)
    PROVE Quantities' /\ Places' /\ Counts' /\ StageInv'
<1>1. at \in Setters /\ at \in 1..15
  BY DEF PowerMode, StageInv, SetterStage, Places
<1>2. New(Program[at]) \in Byte
  BY <1>1, HomeRegister, UpdatedByte DEF New, Quantities
<1>3. 0 \in Byte
  BY DEF Byte
<1>4. v_data_u8' \in Byte
  BY <1>2, <1>3 DEF PowerMode
<1>5. Quantities'
  BY <1>4 DEF PowerMode, Quantities, chips, values
<1>6. stage' \in {"reset", "direct"} /\ at' = at
  BY DEF PowerMode, Proceed, Begin
<1>7. Places' /\ StageInv'
  BY <1>1, <1>6 DEF Places, Stage, StageInv, SetterStage, Writes
<1> QED BY <1>5, <1>7, TransferType DEF PowerMode

LEMMA ResetType ==
    ASSUME Quantities, Places, Counts, StageInv, NEW ok \in BOOLEAN, Reset(ok)
    PROVE Quantities' /\ Places' /\ Counts' /\ StageInv'
<1>1. at \in Setters /\ at \in 1..15
  BY DEF Reset, StageInv, SetterStage, Places
<1>2. 0 \in Byte /\ 0 \in 0..7
  BY DEF Byte
<1>3. Cleared(bme) \in Bme
  BY <1>2 DEF Cleared, Bme, Quantities
<1>4. bme' \in Bme
  BY <1>3 DEF Reset, Quantities
<1>5. Quantities'
  BY <1>4 DEF Reset, Quantities, values
<1>6. stage' = "config" /\ at' = at
  BY DEF Reset, Proceed
<1>7. Places' /\ StageInv'
  BY <1>1, <1>6 DEF Places, Stage, StageInv, SetterStage, Writes, Register
<1> QED BY <1>5, <1>7, TransferType DEF Reset

LEMMA TargetRegister ==
    ASSUME at \in Setters, stage \in Writes
    PROVE Target(Program[at]) \in Register
BY HomeRegister DEF Target, Writes

LEMMA WriteRegisterType ==
    ASSUME Quantities, Places, Counts, StageInv, NEW ok \in BOOLEAN, WriteRegister(ok)
    PROVE Quantities' /\ Places' /\ Counts' /\ StageInv'
<1>1. at \in Setters /\ at \in 1..15 /\ stage \in Writes
  BY DEF WriteRegister, StageInv, SetterStage, Places, Writes
<1> DEFINE r == Target(Program[at])
           b == Value(Program[at], r)
<1>2. r \in Register /\ b \in Byte
  BY <1>1, TargetRegister, ValueByte DEF Quantities
<1>3. bme' \in Written(bme, r, b) \/ bme' = bme
  BY DEF WriteRegister
<1>4. bme' \in Bme
  BY <1>2, <1>3, WrittenFacts DEF Quantities
<1>5. Quantities'
  BY <1>4 DEF WriteRegister, Quantities, values
<1>6. at' = at /\ stage' \in {"ctrl_hum", "ctrl_meas", "read_meas"}
  BY <1>1 DEF WriteRegister, Proceed, AfterWrite, Writes, Register
<1>7. Places' /\ StageInv'
  BY <1>1, <1>6 DEF Places, Stage, StageInv, SetterStage, Writes, Register, Back
<1> QED BY <1>5, <1>7, TransferType DEF WriteRegister

LEMMA ReadRegisterType ==
    ASSUME Quantities, Places, Counts, StageInv, NEW ok \in BOOLEAN, ReadRegister(ok)
    PROVE Quantities' /\ Places' /\ Counts' /\ StageInv'
<1>1. at \in Setters /\ at \in 1..15 /\ stage \in Back
  BY DEF ReadRegister, StageInv, SetterStage, Places
<1>2. v_data_u8' \in Byte
  BY <1>1, ReadByte DEF ReadRegister, Quantities
<1>3. shadow' \in [Register -> Byte]
  BY <1>1, <1>2, ReadByte DEF ReadRegister, Quantities
<1>4. Quantities'
  BY <1>2, <1>3 DEF ReadRegister, Quantities, chips, values
<1>5. CASE stage \in {"read_meas", "read_hum"}
  <2>1. at' = at /\ stage' \in {"read_hum", "read_config"}
    BY <1>5 DEF ReadRegister, NextRead, Proceed
  <2> QED BY <1>1, <1>4, <2>1, TransferType
          DEF ReadRegister, Places, Stage, StageInv, SetterStage, Back
<1>6. CASE stage = "read_config"
  <2>1. Return
    BY <1>6 DEF ReadRegister, NextRead
  <2> QED BY <1>1, <1>4, <2>1, ReturnFacts, TransferType DEF ReadRegister, Places
<1> QED BY <1>1, <1>5, <1>6 DEF Back

\* A stage that is not a setter's.
Other == {"burst", "tmp_on", "tmp_off", "tmp_status", "tmp_temp", "tmp_obj",
          "opt_on", "opt_off", "opt_config", "opt_result"}

LEMMA OtherStage ==
    ASSUME StageInv, Places, stage \in Other
    PROVE at \in 1..15 /\ at \notin Setters
BY DEF StageInv, SetterStage, Writes, Register, Back, Other, Places

\* A call that is not a setter's goes on.
LEMMA StayFacts ==
    ASSUME StageInv, Places, stage \in Other, NEW next \in Other, Proceed(next)
    PROVE Places' /\ StageInv'
<1>1. at \in 1..15 /\ at \notin Setters
  BY OtherStage
<1>2. at' = at /\ stage' = next
  BY DEF Proceed
<1>3. next \in Stage /\ next \notin SetterStage
  BY DEF Other, Stage, SetterStage, Writes, Register, Back
<1> QED BY <1>1, <1>2, <1>3 DEF Places, StageInv

LEMMA LeaveFacts ==
    ASSUME Places, Return
    PROVE Places' /\ StageInv'
BY ReturnFacts DEF Places

LEMMA BurstType ==
    ASSUME Quantities, Places, Counts, NEW ok \in BOOLEAN, Burst(ok)
    PROVE Quantities' /\ Places' /\ Counts' /\ StageInv'
<1> DEFINE sample == IF ok THEN bme.sample ELSE 0
<1>1. sample \in Samples
  BY BoundAssumption DEF Quantities, Bme, Samples
<1>2. t_fine' = sample /\ (shown' = shown \/ shown' = Compensated(sample, t_fine))
  BY DEF Burst
<1>3. shown' \in [temp : Samples, press : Samples, fine : Samples]
  BY <1>1, <1>2 DEF Quantities, Compensated
<1>4. Quantities'
  BY <1>1, <1>2, <1>3 DEF Burst, Quantities, chips, values
<1> QED BY <1>4, LeaveFacts, TransferType DEF Burst

LEMMA TmpSwitchType ==
    ASSUME Quantities, Places, Counts, NEW ok \in BOOLEAN, TmpSwitch(ok)
    PROVE Quantities' /\ Places' /\ Counts' /\ StageInv'
<1>1. tmp' \in [on : BOOLEAN, sample : Samples, ready : BOOLEAN]
  <2>1. \A b \in BOOLEAN :
            [tmp EXCEPT !.on = b] \in [on : BOOLEAN, sample : Samples, ready : BOOLEAN]
    BY DEF Quantities
  <2>2. (stage = "tmp_on") \in BOOLEAN
    OBVIOUS
  <2>3. tmp' = tmp \/ tmp' = [tmp EXCEPT !.on = (stage = "tmp_on")]
    BY DEF TmpSwitch
  <2>4. CASE tmp' = tmp BY <2>4 DEF Quantities
  <2>5. CASE tmp' = [tmp EXCEPT !.on = (stage = "tmp_on")] BY <2>1, <2>2, <2>5
  <2> QED BY <2>3, <2>4, <2>5
<1>2. Quantities'
  BY <1>1 DEF TmpSwitch, Quantities, values
<1> QED BY <1>2, LeaveFacts, TransferType DEF TmpSwitch

LEMMA OptSwitchType ==
    ASSUME Quantities, Places, Counts, NEW ok \in BOOLEAN, OptSwitch(ok)
    PROVE Quantities' /\ Places' /\ Counts' /\ StageInv'
<1>1. opt' \in [on : BOOLEAN, sample : Samples]
  <2>1. \A b \in BOOLEAN : [opt EXCEPT !.on = b] \in [on : BOOLEAN, sample : Samples]
    BY DEF Quantities
  <2>2. (stage = "opt_on") \in BOOLEAN
    OBVIOUS
  <2>3. opt' = opt \/ opt' = [opt EXCEPT !.on = (stage = "opt_on")]
    BY DEF OptSwitch
  <2>4. CASE opt' = opt BY <2>4 DEF Quantities
  <2>5. CASE opt' = [opt EXCEPT !.on = (stage = "opt_on")] BY <2>1, <2>2, <2>5
  <2> QED BY <2>3, <2>4, <2>5
<1>2. Quantities'
  BY <1>1 DEF OptSwitch, Quantities, values
<1> QED BY <1>2, LeaveFacts, TransferType DEF OptSwitch

\* What sensorTmp007Read stores has its type.
LEMMA StoredType ==
    ASSUME Quantities, buf' \in Samples \X Samples, NEW b \in BOOLEAN, Stored(b)
    PROVE /\ raw' \in [temp : Samples, obj : Samples, lux : Samples]
          /\ told' \in [tmp : BOOLEAN, opt : BOOLEAN]
          /\ raw'.temp = buf'[1] /\ raw'.obj = buf'[2] /\ told'.tmp = b
<1>1. buf'[1] \in Samples /\ buf'[2] \in Samples
  OBVIOUS
<1>2. /\ raw' \in [temp : Samples, obj : Samples, lux : Samples]
      /\ raw'.temp = buf'[1] /\ raw'.obj = buf'[2]
  BY <1>1 DEF Stored, Quantities
<1>3. told' \in [tmp : BOOLEAN, opt : BOOLEAN] /\ told'.tmp = b
  <2>1. told' = [told EXCEPT !.tmp = b]
    BY DEF Stored
  <2> QED BY <2>1 DEF Quantities
<1> QED BY <1>2, <1>3

LEMMA TmpStatusType ==
    ASSUME Quantities, Places, Counts, StageInv, NEW ok \in BOOLEAN, TmpStatus(ok)
    PROVE Quantities' /\ Places' /\ Counts' /\ StageInv'
<1>1. stage \in Other /\ buf' = buf
  BY DEF TmpStatus, Other
<1>2. CASE ok /\ tmp.ready
  <2>1. Proceed("tmp_temp") /\ UNCHANGED <<raw, told>>
    BY <1>2 DEF TmpStatus
  <2>2. tmp' = tmp \/ tmp' = [tmp EXCEPT !.ready = FALSE]
    BY <1>2 DEF TmpStatus
  <2>3. tmp' \in [on : BOOLEAN, sample : Samples, ready : BOOLEAN]
    BY <2>2 DEF Quantities
  <2>4. Quantities'
    BY <1>1, <2>1, <2>3 DEF TmpStatus, Quantities
  <2>5. "tmp_temp" \in Other
    BY DEF Other
  <2> QED BY <1>1, <2>1, <2>4, <2>5, StayFacts, TransferType DEF TmpStatus
<1>3. CASE ~(ok /\ tmp.ready)
  <2>1. Stored(FALSE) /\ Return /\ UNCHANGED tmp
    BY <1>3 DEF TmpStatus
  <2>2. /\ raw' \in [temp : Samples, obj : Samples, lux : Samples]
        /\ told' \in [tmp : BOOLEAN, opt : BOOLEAN]
    BY <1>1, <2>1, StoredType DEF Quantities
  <2>3. Quantities'
    BY <1>1, <2>1, <2>2 DEF TmpStatus, Quantities
  <2> QED BY <2>1, <2>3, LeaveFacts, TransferType DEF TmpStatus
<1> QED BY <1>2, <1>3

LEMMA TmpTempType ==
    ASSUME Quantities, Places, Counts, StageInv, NEW ok \in BOOLEAN, TmpTemp(ok)
    PROVE Quantities' /\ Places' /\ Counts' /\ StageInv'
<1>1. stage \in Other
  BY DEF TmpTemp, Other
<1>2. buf' \in Samples \X Samples
  BY DEF TmpTemp, Quantities
<1>3. CASE ok
  <2>1. Proceed("tmp_obj") /\ UNCHANGED <<raw, told>>
    BY <1>3 DEF TmpTemp
  <2>2. Quantities'
    BY <1>2, <2>1 DEF TmpTemp, Quantities, chips
  <2>3. "tmp_obj" \in Other
    BY DEF Other
  <2> QED BY <1>1, <2>1, <2>2, <2>3, StayFacts, TransferType DEF TmpTemp
<1>4. CASE ~ok
  <2>1. Stored(FALSE) /\ Return
    BY <1>4 DEF TmpTemp
  <2>2. /\ raw' \in [temp : Samples, obj : Samples, lux : Samples]
        /\ told' \in [tmp : BOOLEAN, opt : BOOLEAN]
    BY <1>2, <2>1, StoredType
  <2>3. Quantities'
    BY <1>2, <2>2 DEF TmpTemp, Quantities, chips
  <2> QED BY <2>1, <2>3, LeaveFacts, TransferType DEF TmpTemp
<1> QED BY <1>3, <1>4

LEMMA TmpObjType ==
    ASSUME Quantities, Places, Counts, NEW ok \in BOOLEAN, TmpObj(ok)
    PROVE Quantities' /\ Places' /\ Counts' /\ StageInv'
<1>1. buf' \in Samples \X Samples
  BY DEF TmpObj, Quantities
<1>2. /\ raw' \in [temp : Samples, obj : Samples, lux : Samples]
      /\ told' \in [tmp : BOOLEAN, opt : BOOLEAN]
  BY <1>1, StoredType DEF TmpObj
<1>3. Quantities'
  BY <1>1, <1>2 DEF TmpObj, Quantities, chips
<1> QED BY <1>3, LeaveFacts, TransferType DEF TmpObj

LEMMA OptConfigType ==
    ASSUME Quantities, Places, Counts, StageInv, NEW ok \in BOOLEAN, OptConfig(ok)
    PROVE Quantities' /\ Places' /\ Counts' /\ StageInv'
<1>1. stage \in Other
  BY DEF OptConfig, Other
<1>2. CASE ok
  <2>1. Proceed("opt_result") /\ UNCHANGED told
    BY <1>2 DEF OptConfig, DATA_RDY
  <2>2. Quantities'
    BY <2>1 DEF OptConfig, Quantities, chips
  <2>3. "opt_result" \in Other
    BY DEF Other
  <2> QED BY <1>1, <2>1, <2>2, <2>3, StayFacts, TransferType DEF OptConfig
<1>3. CASE ~ok
  <2>1. told' = [told EXCEPT !.opt = FALSE] /\ Return
    BY <1>3 DEF OptConfig
  <2>2. told' \in [tmp : BOOLEAN, opt : BOOLEAN]
    BY <2>1 DEF Quantities
  <2>3. Quantities'
    BY <2>2 DEF OptConfig, Quantities, chips
  <2> QED BY <2>1, <2>3, LeaveFacts, TransferType DEF OptConfig
<1> QED BY <1>2, <1>3

LEMMA OptResultType ==
    ASSUME Quantities, Places, Counts, NEW ok \in BOOLEAN, OptResult(ok)
    PROVE Quantities' /\ Places' /\ Counts' /\ StageInv'
<1>1. raw' \in [temp : Samples, obj : Samples, lux : Samples]
  BY DEF OptResult, Quantities
<1>2. told' \in [tmp : BOOLEAN, opt : BOOLEAN]
  BY DEF OptResult, Quantities
<1>3. Quantities'
  BY <1>1, <1>2 DEF OptResult, Quantities, chips
<1> QED BY <1>3, LeaveFacts, TransferType DEF OptResult

\* The chips measure.
LEMMA SampleTypes ==
    ASSUME Quantities, Places, Counts, StageInv, BmeSample \/ TmpSample \/ OptSample
    PROVE Quantities' /\ Places' /\ Counts' /\ StageInv'
<1>1. UNCHANGED <<control, bounds, clean, intact>>
  BY DEF BmeSample, TmpSample, OptSample
<1>2. Places' /\ Counts' /\ StageInv'
  BY <1>1 DEF Places, Counts, StageInv, control, bounds
<1>3. CASE BmeSample
  <2> DEFINE m == bme.reg["ctrl_meas"]
             n == IF m % 4 = NORMAL THEN m ELSE m - (m % 4)
  <2>1. m \in Byte
    BY DEF Quantities, Bme, Register
  <2>2. n \in Byte
    BY <2>1 DEF Byte
  <2>3. bme.sample + 1 \in Samples
    BY <1>3, BoundAssumption DEF BmeSample, Quantities, Bme, Samples
  <2>4. \A b \in Byte, t \in Samples :
            [bme EXCEPT !.sample = t, !.reg["ctrl_meas"] = b] \in Bme
    BY DEF Quantities, Bme
  <2>5. bme' = [bme EXCEPT !.sample = bme.sample + 1, !.reg["ctrl_meas"] = n]
    BY <1>3 DEF BmeSample
  <2>6. bme' \in Bme
    BY <2>2, <2>3, <2>4, <2>5
  <2> QED BY <1>2, <1>3, <2>6 DEF BmeSample, Quantities, control, values
<1>4. CASE TmpSample
  <2>1. tmp.sample + 1 \in Samples
    BY <1>4, BoundAssumption DEF TmpSample, Quantities, Samples
  <2>2. \A b \in BOOLEAN, t \in Samples :
            [tmp EXCEPT !.sample = t, !.ready = b]
                \in [on : BOOLEAN, sample : Samples, ready : BOOLEAN]
    BY DEF Quantities
  <2>3. tmp' \in [on : BOOLEAN, sample : Samples, ready : BOOLEAN]
    BY <1>4, <2>1, <2>2 DEF TmpSample
  <2> QED BY <1>2, <1>4, <2>3 DEF TmpSample, Quantities, control, values
<1>5. CASE OptSample
  <2>1. opt.sample + 1 \in Samples
    BY <1>5, BoundAssumption DEF OptSample, Quantities, Samples
  <2>2. opt' \in [on : BOOLEAN, sample : Samples]
    BY <1>5, <2>1 DEF OptSample, Quantities
  <2> QED BY <1>2, <1>5, <2>2 DEF OptSample, Quantities, control, values
<1> QED BY <1>3, <1>4, <1>5

\* The program starts again.
LEMMA RestartType ==
    ASSUME Quantities, Places, Counts, StageInv, Restart
    PROVE Quantities' /\ Places' /\ Counts' /\ StageInv'
<1>1. 0 \in Byte /\ 0 \in Samples
  BY BoundAssumption DEF Byte, Samples
<1>2. bme' \in Bme
  BY DEF Restart, chips, Quantities
<1>3. tmp' \in [on : BOOLEAN, sample : Samples, ready : BOOLEAN]
  BY DEF Restart, chips, Quantities
<1>4. opt' \in [on : BOOLEAN, sample : Samples]
  BY DEF Restart, chips, Quantities
<1>5. shadow' \in [Register -> Byte]
  BY <1>1 DEF Restart
<1>6. t_fine' \in Samples /\ v_data_u8' \in Byte /\ buf' \in Samples \X Samples
  BY <1>1 DEF Restart
<1>7. raw' \in [temp : Samples, obj : Samples, lux : Samples]
  BY <1>1 DEF Restart
<1>8. shown' \in [temp : Samples, press : Samples, fine : Samples]
  BY <1>1 DEF Restart
<1>9. told' \in [tmp : BOOLEAN, opt : BOOLEAN]
  <2>1. \A a \in BOOLEAN : [tmp |-> a, opt |-> a] \in [tmp : BOOLEAN, opt : BOOLEAN]
    OBVIOUS
  <2>2. FALSE \in BOOLEAN /\ told' = [tmp |-> FALSE, opt |-> FALSE]
    BY DEF Restart
  <2> QED BY <2>1, <2>2
<1>10. Quantities'
  BY <1>2, <1>3, <1>4, <1>5, <1>6, <1>7, <1>8, <1>9 DEF Quantities
<1>11. 1 \in 1..15 /\ 1 \in Setters
  BY DEF Setters
<1>12. Opening(Program[1]) \in Stage /\ Opening(Program[1]) = "power_mode"
  BY <1>11, Openings
<1>13. at' = 1 /\ stage' = "power_mode" /\ stage' \in Stage
  BY <1>12 DEF Restart
<1>14. Places' /\ StageInv'
  BY <1>11, <1>13 DEF Places, StageInv, SetterStage
<1>15. Counts'
  BY BoundAssumption DEF Restart, Counts
<1> QED BY <1>10, <1>14, <1>15

\* Nothing happens.
LEMMA StutterType ==
    ASSUME Quantities, Places, Counts, StageInv, UNCHANGED vars
    PROVE Quantities' /\ Places' /\ Counts' /\ StageInv'
BY DEF Quantities, Places, Counts, StageInv, vars, chips, control, values, bounds

LEMMA StepType == TypeOK /\ StageInv /\ [Next]_vars => TypeOK' /\ StageInv'
<1> SUFFICES ASSUME TypeOK, StageInv, [Next]_vars PROVE TypeOK' /\ StageInv'
  OBVIOUS
<1>1. Quantities /\ Places /\ Counts
  BY TypeParts
<1>2. ASSUME NEW ok \in BOOLEAN, Transaction(ok)
      PROVE Quantities' /\ Places' /\ Counts' /\ StageInv'
  <2>1. CASE PowerMode(ok) BY <1>1, <2>1, PowerModeType
  <2>2. CASE Reset(ok) BY <1>1, <2>2, ResetType
  <2>3. CASE WriteRegister(ok) BY <1>1, <2>3, WriteRegisterType
  <2>4. CASE ReadRegister(ok) BY <1>1, <2>4, ReadRegisterType
  <2>5. CASE Burst(ok) BY <1>1, <2>5, BurstType
  <2>6. CASE TmpSwitch(ok) BY <1>1, <2>6, TmpSwitchType
  <2>7. CASE TmpStatus(ok) BY <1>1, <2>7, TmpStatusType
  <2>8. CASE TmpTemp(ok) BY <1>1, <2>8, TmpTempType
  <2>9. CASE TmpObj(ok) BY <1>1, <2>9, TmpObjType
  <2>10. CASE OptSwitch(ok) BY <1>1, <2>10, OptSwitchType
  <2>11. CASE OptConfig(ok) BY <1>1, <2>11, OptConfigType
  <2>12. CASE OptResult(ok) BY <1>1, <2>12, OptResultType
  <2> QED BY <1>2, <2>1, <2>2, <2>3, <2>4, <2>5, <2>6, <2>7, <2>8, <2>9, <2>10, <2>11, <2>12
          DEF Transaction
<1>3. BmeSample \/ TmpSample \/ OptSample => Quantities' /\ Places' /\ Counts' /\ StageInv'
  BY <1>1, SampleTypes
<1>4. Restart => Quantities' /\ Places' /\ Counts' /\ StageInv'
  BY <1>1, RestartType
<1>5. UNCHANGED vars => Quantities' /\ Places' /\ Counts' /\ StageInv'
  BY <1>1, StutterType
<1>6. Quantities' /\ Places' /\ Counts' /\ StageInv'
  BY <1>2, <1>3, <1>4, <1>5 DEF Next
<1>7. TypeOK'
  BY <1>6, Length DEF TypeOK, Quantities, Places, Counts, Bme
<1> QED BY <1>6, <1>7
-----------------------------------------------------------------------------
(* The chip and the copy, while no transaction fails. *)

LEMMA PowerModeSane ==
    ASSUME Quantities, Places, StageInv, Sane, NEW ok \in BOOLEAN, ok, PowerMode(ok)
    PROVE Sane'
<1>1. at \in Setters /\ stage = "power_mode"
  BY DEF PowerMode, StageInv, SetterStage
<1>2. UNCHANGED <<bme, shadow, at>>
  BY DEF PowerMode, Proceed, chips
<1>3. CopyAt(at) /\ (at > 1 => ChipAt(at))
  BY <1>1 DEF Sane, Back, Writes, Register
<1>4. CopyAt(at)' /\ (at > 1 => ChipAt(at)')
  BY <1>2, <1>3 DEF CopyAt, ChipAt
<1>5. CASE bme.reg["ctrl_meas"] % 4 = SLEEP
  <2>1. stage' = "direct"
    BY <1>5 DEF PowerMode, Proceed, Begin
  <2>2. at \in {1, 8}
    BY <1>1, <1>3, <1>5, MeasValues DEF ChipAt, Setters, SLEEP
  <2> QED BY <1>2, <1>4, <1>5, <2>1, <2>2 DEF Sane, SLEEP, Back, Writes, Register
<1>6. CASE bme.reg["ctrl_meas"] % 4 # SLEEP
  <2>1. stage' = "reset"
    BY <1>6 DEF PowerMode, Proceed, Begin
  <2> QED BY <1>2, <1>4, <2>1 DEF Sane, Back, Writes, Register
<1> QED BY <1>5, <1>6

LEMMA ResetSane ==
    ASSUME Quantities, Places, StageInv, Sane, NEW ok \in BOOLEAN, ok, Reset(ok)
    PROVE Sane'
<1>1. CopyAt(at)
  BY DEF Reset, Sane, Back
<1>2. UNCHANGED <<shadow, at>> /\ stage' = "config" /\ bme' = Cleared(bme)
  BY DEF Reset, Proceed
<1>3. bme'.reg["ctrl_meas"] = 0
  BY <1>2 DEF Cleared, Quantities, Bme, Register
<1>4. CopyAt(at)'
  BY <1>1, <1>2 DEF CopyAt
<1> QED BY <1>2, <1>3, <1>4 DEF Sane, Back, Writes, Register

LEMMA WriteRegisterSane ==
    ASSUME Quantities, Places, StageInv, Sane, NEW ok \in BOOLEAN, ok, WriteRegister(ok)
    PROVE Sane'
<1>1. at \in Setters /\ stage \in Writes
  BY DEF WriteRegister, StageInv, SetterStage, Writes
<1>2. UNCHANGED <<shadow, at>> /\ stage' = AfterWrite(stage, Program[at])
  BY DEF WriteRegister, Proceed
<1>3. CopyAt(at)
  BY <1>1 DEF Sane, Back, Writes, Register
<1>4. CopyAt(at)'
  BY <1>2, <1>3 DEF CopyAt
<1> DEFINE r == Target(Program[at])
           b == Value(Program[at], r)
<1>5. r \in Register /\ b \in Byte /\ bme' \in Written(bme, r, b) /\ bme \in Bme
  BY <1>1, TargetRegister, ValueByte DEF Quantities, WriteRegister
<1>6. /\ r # "ctrl_meas" =>
            bme'.reg["ctrl_meas"] = bme.reg["ctrl_meas"] /\ bme'.osrs_h = bme.osrs_h
      /\ r = "ctrl_meas" =>
            bme'.reg["ctrl_meas"] = b /\ bme'.osrs_h = bme.reg["ctrl_hum"] % 8
      /\ r = "ctrl_hum" => bme'.reg["ctrl_hum"] = b
      /\ r # "ctrl_hum" => bme'.reg["ctrl_hum"] = bme.reg["ctrl_hum"]
  BY <1>5, WrittenFacts
<1>7. Value(Program[at], "ctrl_meas") = MeasAt(at + 1)
  BY <1>1, <1>3, NextMeas DEF CopyAt, Quantities
<1>8. CASE stage = "config"
  <2>1. r = "config" /\ stage' = "ctrl_hum"
    BY <1>2, <1>8 DEF Target, AfterWrite
  <2>2. bme.reg["ctrl_meas"] = 0
    BY <1>8 DEF Sane, Register
  <2> QED BY <1>4, <1>6, <2>1, <2>2 DEF Sane, Back, Writes, Register
<1>9. CASE stage = "ctrl_hum"
  <2>1. r = "ctrl_hum" /\ stage' = "ctrl_meas"
    BY <1>2, <1>9 DEF Target, AfterWrite
  <2>2. bme.reg["ctrl_meas"] = 0
    BY <1>9 DEF Sane, Register
  <2>3. at > 1 => b % 8 = 1
    BY <1>1, <1>3, <2>1, NextHum DEF CopyAt, Quantities
  <2>4. at' > 1 => bme'.reg["ctrl_hum"] % 8 = 1
    BY <1>2, <1>6, <2>1, <2>3
  <2> QED BY <1>4, <1>6, <2>1, <2>2, <2>4 DEF Sane, Back, Writes, Register
<1>10. CASE stage = "ctrl_meas"
  <2>1. r = "ctrl_meas" /\ stage' = "read_meas"
    BY <1>2, <1>10 DEF Target, AfterWrite
  <2>2. at > 1 => bme.reg["ctrl_hum"] % 8 = 1
    BY <1>10 DEF Sane
  <2>3. ChipAt(at + 1)'
    BY <1>1, <1>2, <1>6, <1>7, <2>1, <2>2 DEF ChipAt, Setters
  <2> QED BY <2>1, <2>3 DEF Sane, Back, Writes, Register
<1>11. CASE stage = "direct"
  <2>1. at \in {1, 8} /\ (at = 8 => ChipAt(8))
    BY <1>11 DEF Sane
  <2>2. r = "ctrl_meas"
    BY <1>11, <2>1, Homes DEF Target
  <2>3. Program[at].field # "hum"
    BY <2>1, Homes
  <2>4. stage' = "read_meas"
    BY <1>2, <1>11, <2>3 DEF AfterWrite
  <2>5. ChipAt(at + 1)'
    BY <1>2, <1>6, <1>7, <2>1, <2>2 DEF ChipAt
  <2> QED BY <2>4, <2>5 DEF Sane, Back, Writes, Register
<1> QED BY <1>1, <1>8, <1>9, <1>10, <1>11 DEF Writes, Register

LEMMA ReadRegisterSane ==
    ASSUME Quantities, Places, StageInv, Sane, NEW ok \in BOOLEAN, ok, ReadRegister(ok)
    PROVE Sane'
<1>1. at \in Setters /\ at \in 1..15 /\ stage \in Back
  BY DEF ReadRegister, StageInv, SetterStage, Places
<1>2. /\ UNCHANGED bme /\ Source \in Register
      /\ shadow' = [shadow EXCEPT ![Source] = bme.reg[Source]]
  BY <1>1, ReadByte DEF ReadRegister, chips
<1>3. ChipAt(at + 1)
  BY <1>1 DEF Sane
<1>4. shadow \in [Register -> Byte] /\ bme.reg \in [Register -> Byte]
  BY DEF Quantities, Bme
<1>5. CASE stage = "read_meas"
  <2>1. stage' = "read_hum" /\ at' = at
    BY <1>5 DEF ReadRegister, NextRead, Proceed
  <2>2. Source = "ctrl_meas"
    BY <1>5 DEF Source
  <2>3. shadow'["ctrl_meas"] = bme'.reg["ctrl_meas"]
    BY <1>2, <1>4, <2>2
  <2>4. ChipAt(at + 1)'
    BY <1>2, <1>3, <2>1 DEF ChipAt
  <2> QED BY <2>1, <2>3, <2>4 DEF Sane, Back, Writes, Register
<1>6. CASE stage = "read_hum"
  <2>1. stage' = "read_config" /\ at' = at
    BY <1>6 DEF ReadRegister, NextRead, Proceed
  <2>2. Source = "ctrl_hum"
    BY <1>6 DEF Source
  <2>3. shadow["ctrl_meas"] = bme.reg["ctrl_meas"]
    BY <1>6 DEF Sane
  <2>4. shadow'["ctrl_meas"] = bme'.reg["ctrl_meas"] /\ shadow'["ctrl_hum"] = bme'.reg["ctrl_hum"]
    BY <1>2, <1>4, <2>2, <2>3
  <2>5. ChipAt(at + 1)'
    BY <1>2, <1>3, <2>1 DEF ChipAt
  <2> QED BY <2>1, <2>4, <2>5 DEF Sane, Back, Writes, Register
<1>7. CASE stage = "read_config"
  <2>1. Return
    BY <1>7 DEF ReadRegister, NextRead
  <2>2. at' = at + 1 /\ stage' \notin {"reset"} \union Writes \union Back
    BY <1>1, <2>1, ReturnFacts, FollowingFacts DEF Setters
  <2>3. Source = "config"
    BY <1>7 DEF Source
  <2>4. shadow["ctrl_meas"] = bme.reg["ctrl_meas"] /\ shadow["ctrl_hum"] = bme.reg["ctrl_hum"]
    BY <1>7 DEF Sane
  <2>5. shadow' = bme'.reg
    BY <1>2, <1>4, <2>3, <2>4 DEF Register
  <2>6. ChipAt(at)'
    BY <1>2, <1>3, <2>2 DEF ChipAt
  <2>7. CopyAt(at)'
    BY <2>5, <2>6 DEF ChipAt, CopyAt
  <2> QED BY <2>2, <2>5, <2>6, <2>7 DEF Sane, Writes, Register
<1> QED BY <1>1, <1>5, <1>6, <1>7 DEF Back

\* A call of the other kind finds what the one before it found.
LEMMA OtherSane ==
    ASSUME Quantities, Places, StageInv, Sane, stage \in Other, UNCHANGED <<bme, shadow>>,
           Return \/ (at' = at /\ stage' \in Other)
    PROVE Sane'
<1>1. at \in 1..15 /\ at \notin Setters
  BY OtherStage
<1>2. ChipAt(at) /\ CopyAt(at) /\ shadow = bme.reg
  BY <1>1 DEF Sane, Other, Writes, Register, Back, Setters
<1>3. CASE Return
  <2>1. at' = Following /\ stage' \notin {"reset"} \union Writes \union Back
    BY <1>1, <1>3, ReturnFacts
  <2>2. Following \in {7} \union 9..15 /\ at \in {6} \union 9..15
    BY <1>1, FollowingFacts DEF Setters
  <2>3. MeasAt(at') = MeasAt(at) /\ at' >= 3 /\ at >= 3
    BY <2>1, <2>2, MeasValues
  <2>4. ChipAt(at)' /\ CopyAt(at)'
    BY <1>2, <2>3 DEF ChipAt, CopyAt
  <2> QED BY <1>2, <2>1, <2>4 DEF Sane, Writes, Register
<1>4. CASE at' = at /\ stage' \in Other
  <2>1. ChipAt(at)' /\ CopyAt(at)'
    BY <1>2, <1>4 DEF ChipAt, CopyAt
  <2> QED BY <1>2, <1>4, <2>1 DEF Sane, Other, Writes, Register, Back
<1> QED BY <1>3, <1>4

\* The transactions that the setters do not make.
OtherTransaction(ok) ==
    \/ Burst(ok) \/ TmpSwitch(ok) \/ TmpStatus(ok) \/ TmpTemp(ok) \/ TmpObj(ok)
    \/ OptSwitch(ok) \/ OptConfig(ok) \/ OptResult(ok)

LEMMA OtherFacts ==
    ASSUME NEW ok \in BOOLEAN, OtherTransaction(ok)
    PROVE /\ stage \in Other /\ UNCHANGED <<bme, shadow>>
          /\ Return \/ (at' = at /\ stage' \in Other)
<1>1. CASE Burst(ok) BY <1>1 DEF Burst, Other, chips
<1>2. CASE TmpSwitch(ok) BY <1>2 DEF TmpSwitch, Other
<1>3. CASE TmpStatus(ok) BY <1>3 DEF TmpStatus, Other, Proceed
<1>4. CASE TmpTemp(ok) BY <1>4 DEF TmpTemp, Other, Proceed, chips
<1>5. CASE TmpObj(ok) BY <1>5 DEF TmpObj, Other, chips
<1>6. CASE OptSwitch(ok) BY <1>6 DEF OptSwitch, Other
<1>7. CASE OptConfig(ok) BY <1>7 DEF OptConfig, Other, Proceed, chips
<1>8. CASE OptResult(ok) BY <1>8 DEF OptResult, Other, chips
<1> QED BY <1>1, <1>2, <1>3, <1>4, <1>5, <1>6, <1>7, <1>8 DEF OtherTransaction

\* In sleep and in normal mode the chip's registers do not change by themselves,
\* and in forced mode the driver relies on none of them.
LEMMA BmeSampleSane ==
    ASSUME Quantities, Places, StageInv, Sane, BmeSample
    PROVE Sane'
<1>1. UNCHANGED <<at, stage, shadow>>
  BY DEF BmeSample, control
<1>2. /\ bme.reg["ctrl_meas"] \in Byte /\ bme.reg["ctrl_meas"] % 4 # 0
      /\ bme'.osrs_h = bme.osrs_h
      /\ bme.reg["ctrl_meas"] % 4 = 3 => bme'.reg = bme.reg
  BY DEF BmeSample, Quantities, Bme, Register, SLEEP, NORMAL
<1>3. CASE bme.reg["ctrl_meas"] % 4 = 3
  <2>1. bme'.reg = bme.reg
    BY <1>2, <1>3
  <2>2. /\ CopyAt(at)' <=> CopyAt(at)
        /\ ChipAt(at)' <=> ChipAt(at)
        /\ ChipAt(8)' <=> ChipAt(8)
        /\ ChipAt(at + 1)' <=> ChipAt(at + 1)
    BY <1>1, <1>2, <2>1 DEF CopyAt, ChipAt
  <2> QED BY <1>1, <2>1, <2>2 DEF Sane
<1>4. CASE bme.reg["ctrl_meas"] % 4 # 3
  <2>1. \A k \in 2..15 : ChipAt(k) => k = 8
    BY <1>2, <1>4, MeasValues DEF ChipAt
  <2>2. ~ChipAt(8)
    BY <1>2, MeasValues DEF ChipAt
  <2>3. stage \in Back => at + 1 \in 2..15
    BY DEF Setters, StageInv, SetterStage
  <2>4. stage \notin Back
    <3> SUFFICES ASSUME stage \in Back PROVE FALSE
      OBVIOUS
    <3>1. ChipAt(at + 1)
      BY DEF Sane
    <3> QED BY <2>1, <2>2, <2>3, <3>1
  <2>5. stage \notin Writes
    BY <1>2 DEF Sane, Writes
  <2>6. stage = "reset" \/ at = 1
    BY <2>1, <2>2, <2>4, <2>5 DEF Sane, Places
  <2>7. CopyAt(at)'
    BY <1>1, <2>4 DEF Sane, CopyAt
  <2> QED BY <1>1, <2>4, <2>5, <2>6, <2>7 DEF Sane, Writes, Register, Back
<1> QED BY <1>3, <1>4

LEMMA RestartSane == ASSUME Restart PROVE Sane'
<1>1. 1 \in 1..15 /\ 1 \in Setters
  BY DEF Setters
<1>2. at' = 1 /\ stage' = "power_mode"
  BY <1>1, Openings DEF Restart
<1>3. CopyAt(at)'
  <2>1. shadow'["ctrl_meas"] = 0
    BY DEF Restart, Register
  <2>2. MeasAt(at') = 0
    BY <1>2, MeasValues
  <2>3. at' \in 1..1
    BY <1>2
  <2>4. ~(at' >= 3)
    BY <2>3
  <2> QED BY <2>1, <2>2, <2>4 DEF CopyAt
<1> QED BY <1>2, <1>3 DEF Sane, Writes, Register, Back

LEMMA InitSane == ASSUME Init PROVE Sane
<1>1. 1 \in 1..15 /\ 1 \in Setters
  BY DEF Setters
<1>2. at = 1 /\ stage = "power_mode"
  BY <1>1, Openings DEF Init
<1>3. CopyAt(at)
  BY <1>2, MeasValues DEF CopyAt, Init, Register
<1> QED BY <1>2, <1>3 DEF Sane, Writes, Register, Back

LEMMA StepChip == Quantities /\ Places /\ StageInv /\ ChipInv /\ [Next]_vars => ChipInv'
<1> SUFFICES ASSUME Quantities, Places, StageInv, ChipInv, [Next]_vars, clean' PROVE Sane'
  BY DEF ChipInv
<1>1. ASSUME NEW ok \in BOOLEAN, Transaction(ok) PROVE Sane'
  <2>1. Transfer(ok)
    BY <1>1 DEF Transaction, PowerMode, Reset, WriteRegister, ReadRegister, Burst, TmpSwitch,
                TmpStatus, TmpTemp, TmpObj, OptSwitch, OptConfig, OptResult
  <2>2. ok /\ Sane
    BY <2>1 DEF Transfer, ChipInv
  <2>3. PowerMode(ok) => Sane'
    BY <2>2, PowerModeSane
  <2>4. Reset(ok) => Sane'
    BY <2>2, ResetSane
  <2>5. WriteRegister(ok) => Sane'
    BY <2>2, WriteRegisterSane
  <2>6. ReadRegister(ok) => Sane'
    BY <2>2, ReadRegisterSane
  <2>7. OtherTransaction(ok) => Sane'
    BY <2>2, OtherFacts, OtherSane
  <2> QED BY <1>1, <2>3, <2>4, <2>5, <2>6, <2>7 DEF Transaction, OtherTransaction
<1>2. BmeSample => Sane'
  BY BmeSampleSane DEF BmeSample, ChipInv
<1>3. CASE TmpSample \/ OptSample \/ UNCHANGED vars
  <2>1. UNCHANGED <<bme, shadow, at, stage, clean>>
    BY <1>3 DEF TmpSample, OptSample, vars, chips, control
  <2> QED BY <2>1 DEF ChipInv, Sane, CopyAt, ChipAt
<1>4. Restart => Sane'
  BY RestartSane
<1> QED BY <1>1, <1>2, <1>3, <1>4 DEF Next
-----------------------------------------------------------------------------
(* A setter after a failure. *)

\* A setter's byte holds what it asks for.
LEMMA Taken ==
    ASSUME NEW b \in Byte, NEW k \in Setters
    PROVE (Updated(b, Program[k]) \div Field[Program[k].field][2])
              % Field[Program[k].field][3] = Program[k].value
<1> DEFINE low == Field[Program[k].field][2]
           size == Field[Program[k].field][3]
<1>1. CASE k \in {1, 8}
  <2>1. low = 1 /\ size = 4 /\ Program[k].value = 3
    BY <1>1, Setting DEF Field
  <2>2. Updated(b, Program[k]) = (b - (b % 4)) + 3
    BY <1>1, Updates
  <2>3. (((b - (b % 4)) + 3) \div 1) % 4 = 3
    BY DEF Byte
  <2> HIDE DEF low, size
  <2> QED BY <2>1, <2>2, <2>3 DEF low, size
<1>2. CASE k = 7
  <2>1. low = 1 /\ size = 4 /\ Program[k].value = 0
    BY <1>2, Setting DEF Field
  <2>2. Updated(b, Program[k]) = b - (b % 4)
    BY <1>2, Updates
  <2>3. ((b - (b % 4)) \div 1) % 4 = 0
    BY DEF Byte
  <2> HIDE DEF low, size
  <2> QED BY <2>1, <2>2, <2>3 DEF low, size
<1>3. CASE k = 2
  <2>1. low = 1 /\ size = 8 /\ Program[k].value = 1
    BY <1>3, Setting DEF Field
  <2>2. Updated(b, Program[k]) = (b - (b % 8)) + 1
    BY <1>3, Updates
  <2>3. (((b - (b % 8)) + 1) \div 1) % 8 = 1
    BY DEF Byte
  <2> HIDE DEF low, size
  <2> QED BY <2>1, <2>2, <2>3 DEF low, size
<1>4. CASE k = 3
  <2>1. low = 4 /\ size = 8 /\ Program[k].value = 2
    BY <1>4, Setting DEF Field
  <2>2. Updated(b, Program[k]) = (b - ((b \div 4) % 8) * 4) + 8
    BY <1>4, Updates
  <2>3. (((b - ((b \div 4) % 8) * 4) + 8) \div 4) % 8 = 2
    BY DEF Byte
  <2> HIDE DEF low, size
  <2> QED BY <2>1, <2>2, <2>3 DEF low, size
<1>5. CASE k = 4
  <2>1. low = 32 /\ size = 8 /\ Program[k].value = 3
    BY <1>5, Setting DEF Field
  <2>2. Updated(b, Program[k]) = (b - ((b \div 32) % 8) * 32) + 96
    BY <1>5, Updates
  <2>3. (((b - ((b \div 32) % 8) * 32) + 96) \div 32) % 8 = 3
    BY DEF Byte
  <2> HIDE DEF low, size
  <2> QED BY <2>1, <2>2, <2>3 DEF low, size
<1>6. CASE k = 5
  <2>1. low = 32 /\ size = 8 /\ Program[k].value = 0
    BY <1>6, Setting DEF Field
  <2>2. Updated(b, Program[k]) = b - ((b \div 32) % 8) * 32
    BY <1>6, Updates
  <2>3. ((b - ((b \div 32) % 8) * 32) \div 32) % 8 = 0
    BY DEF Byte
  <2> HIDE DEF low, size
  <2> QED BY <2>1, <2>2, <2>3 DEF low, size
<1> QED BY <1>1, <1>2, <1>3, <1>4, <1>5, <1>6 DEF Setters

\* What a setter writes to the register of its field is what it asks for.
LEMMA HomeTaken ==
    ASSUME Quantities, at \in Setters,
           bme.reg[Home(Program[at])] = Value(Program[at], Home(Program[at])),
           at = 2 => bme.osrs_h = 1
    PROVE Holds(Program[at])
<1>1. Value(Program[at], Home(Program[at])) = Updated(shadow[Home(Program[at])], Program[at])
  BY DEF Value, New
<1>2. shadow[Home(Program[at])] \in Byte
  BY HomeRegister DEF Quantities
<1>3. (bme.reg[Home(Program[at])] \div Field[Program[at].field][2])
          % Field[Program[at].field][3] = Program[at].value
  BY <1>1, <1>2, Taken
<1>4. Program[at].field = "hum" => at = 2 /\ Program[at].value = 1
  BY Homes, Setting
<1> QED BY <1>3, <1>4 DEF Holds

\* A setter is under way, or the call after one begins.
LEMMA SetterCalls ==
    ASSUME NEW k \in 1..15
    PROVE Program[k].call = "set" <=> k \in Setters
<1>1. k \in Setters => Program[k].call = "set"
  BY Setting DEF Setters
<1>2. k \in {6, 9, 10, 11, 12, 13, 14, 15} => Program[k].call # "set"
  BY Doing
<1>3. k \in Setters \/ k \in {6, 9, 10, 11, 12, 13, 14, 15}
  BY DEF Setters
<1> QED BY <1>1, <1>2, <1>3

LEMMA NotBeginning ==
    ASSUME Places, stage \in {"reset"} \union Writes \union Back
    PROVE SettersRecover
BY Openings DEF Places, SettersRecover

LEMMA PowerModeSound ==
    ASSUME Quantities, Places, StageInv, NEW ok \in BOOLEAN, ok, PowerMode(ok)
    PROVE Sound' /\ SettersRecover'
<1>1. at \in 1..15 /\ at' = at /\ bme' = bme
  BY DEF PowerMode, Places, Proceed, chips
<1>2. CASE bme.reg["ctrl_meas"] % 4 = SLEEP
  <2>1. stage' = "direct"
    BY <1>2 DEF PowerMode, Proceed, Begin
  <2>2. Places' /\ stage' \in {"reset"} \union Writes \union Back
    BY <1>1, <2>1 DEF Places, Stage, Writes
  <2>3. SettersRecover'
    BY <1>1, <2>1, Openings DEF SettersRecover, Writes
  <2> QED BY <1>1, <1>2, <2>1, <2>3 DEF Sound, Back, SLEEP
<1>3. CASE bme.reg["ctrl_meas"] % 4 # SLEEP
  <2>1. stage' = "reset"
    BY <1>3 DEF PowerMode, Proceed, Begin
  <2>2. SettersRecover'
    BY <1>1, <2>1, Openings DEF SettersRecover
  <2> QED BY <2>1, <2>2 DEF Sound, Back, Writes, Register
<1> QED BY <1>2, <1>3

LEMMA ResetSound ==
    ASSUME Quantities, Places, StageInv, NEW ok \in BOOLEAN, ok, Reset(ok)
    PROVE Sound' /\ SettersRecover'
<1>1. at \in 1..15 /\ at' = at /\ stage' = "config" /\ bme' = Cleared(bme)
  BY DEF Reset, Places, Proceed
<1>2. bme'.reg["ctrl_meas"] % 4 = 0
  BY <1>1 DEF Cleared, Quantities, Bme, Register
<1>3. SettersRecover'
  BY <1>1, Openings DEF SettersRecover, Writes, Register
<1> QED BY <1>1, <1>2, <1>3 DEF Sound, Back

LEMMA WriteRegisterSound ==
    ASSUME Quantities, Places, StageInv, Sound, NEW ok \in BOOLEAN, ok, WriteRegister(ok)
    PROVE Sound' /\ SettersRecover'
<1>1. at \in Setters /\ at \in 1..15 /\ stage \in Writes
  BY DEF WriteRegister, StageInv, SetterStage, Writes, Places
<1> DEFINE r == Target(Program[at])
           b == Value(Program[at], r)
<1>2. UNCHANGED <<shadow, at>> /\ stage' = AfterWrite(stage, Program[at])
  BY DEF WriteRegister, Proceed
<1>3. \A reg \in Register : Value(Program[at], reg)' = Value(Program[at], reg)
  BY <1>2 DEF Value, New
<1>4. bme.reg["ctrl_meas"] % 4 = SLEEP
  BY <1>1 DEF Sound, SLEEP
<1>5. r \in Register /\ b \in Byte /\ bme' \in Written(bme, r, b) /\ bme \in Bme
  BY <1>1, TargetRegister, ValueByte DEF Quantities, WriteRegister
<1>6. /\ bme' \in Bme
      /\ r # "ctrl_meas" => bme'.reg["ctrl_meas"] = bme.reg["ctrl_meas"]
      /\ r = "ctrl_meas" =>
            bme'.reg["ctrl_meas"] = b /\ bme'.osrs_h = bme.reg["ctrl_hum"] % 8
      /\ r = "ctrl_hum" => bme'.reg["ctrl_hum"] = b
      /\ r # "ctrl_hum" => bme'.reg["ctrl_hum"] = bme.reg["ctrl_hum"]
      /\ r = "config" => bme'.reg["config"] = b
      /\ r # "config" => bme'.reg["config"] = bme.reg["config"]
  BY <1>4, <1>5, WrittenFacts
<1>7. Quantities'
  BY <1>6 DEF WriteRegister, Quantities, values
<1>8. stage' \in {"ctrl_hum", "ctrl_meas", "read_meas"}
  BY <1>1, <1>2 DEF AfterWrite, Writes, Register
<1>9. SettersRecover'
  BY <1>1, <1>2, <1>8, Openings DEF SettersRecover, Writes, Register, Back
<1>10. CASE stage = "config"
  <2>1. r = "config" /\ stage' = "ctrl_hum"
    BY <1>2, <1>10 DEF Target, AfterWrite
  <2>2. bme'.reg["config"] = Value(Program[at], "config")
    BY <1>6, <2>1
  <2>3. bme'.reg["ctrl_meas"] % 4 = 0
    BY <1>4, <1>6, <2>1 DEF SLEEP
  <2> QED BY <1>2, <1>3, <1>9, <2>1, <2>2, <2>3 DEF Sound, Back, Register
<1>11. CASE stage = "ctrl_hum"
  <2>1. r = "ctrl_hum" /\ stage' = "ctrl_meas"
    BY <1>2, <1>11 DEF Target, AfterWrite
  <2>2. bme'.reg["ctrl_hum"] = Value(Program[at], "ctrl_hum")
    BY <1>6, <2>1
  <2>3. at = 5 => bme'.reg["config"] = Value(Program[at], "config")
    BY <1>6, <1>11, <2>1 DEF Sound
  <2>4. bme'.reg["ctrl_meas"] % 4 = 0
    BY <1>4, <1>6, <2>1 DEF SLEEP
  <2> QED BY <1>2, <1>3, <1>9, <2>1, <2>2, <2>3, <2>4 DEF Sound, Back, Register
<1>12. CASE stage = "ctrl_meas"
  <2>1. r = "ctrl_meas" /\ stage' = "read_meas"
    BY <1>2, <1>12 DEF Target, AfterWrite
  <2>2. bme'.reg["ctrl_meas"] = Value(Program[at], "ctrl_meas")
    BY <1>6, <2>1
  <2>3. at = 5 => bme'.reg["config"] = Value(Program[at], "config")
    BY <1>6, <1>12, <2>1 DEF Sound
  <2>4. at = 2 => bme'.reg["ctrl_hum"] = Value(Program[at], "ctrl_hum")
    BY <1>6, <1>12, <2>1 DEF Sound
  <2>5. at = 2 => bme'.osrs_h = 1
    <3>1. SUFFICES ASSUME at = 2 PROVE bme.reg["ctrl_hum"] % 8 = 1
      BY <1>6, <2>1
    <3>2. bme.reg["ctrl_hum"] = Value(Program[2], "ctrl_hum")
      BY <1>12, <3>1 DEF Sound
    <3>3. shadow["ctrl_hum"] \in Byte
      BY DEF Quantities, Register
    <3>4. Value(Program[2], "ctrl_hum") = (shadow["ctrl_hum"] - (shadow["ctrl_hum"] % 8)) + 1
      BY <3>3, Homes, Updates DEF Value, New
    <3> QED BY <3>2, <3>3, <3>4 DEF Byte
  <2>6. bme'.reg[Home(Program[at])] = Value(Program[at], Home(Program[at]))
    BY <1>1, <2>2, <2>3, <2>4, Homes DEF Setters
  <2>7. Holds(Program[at])'
    <3>1. Home(Program[at]) \in Register
      BY <1>1, HomeRegister
    <3>2. Value(Program[at], Home(Program[at])) =
              Updated(shadow[Home(Program[at])], Program[at])
      BY DEF Value, New
    <3>3. shadow[Home(Program[at])] \in Byte
      BY <3>1 DEF Quantities
    <3>4. Program[at].field = "hum" => at = 2 /\ Program[at].value = 1
      BY <1>1, Homes, Setting
    <3> QED BY <1>1, <1>2, <2>5, <2>6, <3>2, <3>3, <3>4, Taken DEF Holds
  <2> QED BY <1>9, <2>1, <2>7 DEF Sound, Writes, Register
<1>13. CASE stage = "direct"
  <2>1. r = Home(Program[at]) /\ bme'.reg[r] = b
    <3>1. r = Home(Program[at])
      BY <1>13 DEF Target
    <3> QED BY <1>5, <1>6, <3>1 DEF Register
  <2>2. CASE at = 2
    <3>1. r = "ctrl_hum" /\ stage' = "ctrl_meas"
      BY <1>2, <1>13, <2>1, <2>2, Homes DEF AfterWrite
    <3>2. bme'.reg["ctrl_meas"] % 4 = 0
      BY <1>4, <1>6, <3>1 DEF SLEEP
    <3> QED BY <1>2, <1>3, <1>9, <2>1, <2>2, <3>1, <3>2 DEF Sound, Back, Register
  <2>3. CASE at # 2
    <3>1. Program[at].field # "hum"
      BY <1>1, <2>3, Homes
    <3>2. stage' = "read_meas"
      BY <1>2, <1>13, <3>1 DEF AfterWrite
    <3>3. Holds(Program[at])'
      <4>1. b = Updated(shadow[r], Program[at])
        BY <2>1 DEF Value, New
      <4>2. shadow[r] \in Byte
        BY <1>5 DEF Quantities
      <4> QED BY <1>1, <1>2, <2>1, <3>1, <4>1, <4>2, Taken DEF Holds
    <3> QED BY <1>9, <3>2, <3>3 DEF Sound, Writes, Register
  <2> QED BY <2>2, <2>3
<1> QED BY <1>1, <1>10, <1>11, <1>12, <1>13 DEF Writes, Register

LEMMA ReadRegisterSound ==
    ASSUME Quantities, Places, StageInv, Sound, NEW ok \in BOOLEAN, ok, ReadRegister(ok)
    PROVE Sound' /\ SettersRecover'
<1>1. at \in Setters /\ at \in 1..15 /\ stage \in Back
  BY DEF ReadRegister, StageInv, SetterStage, Places
<1>2. /\ bme' = bme /\ Source \in Register
      /\ shadow' = [shadow EXCEPT ![Source] = bme.reg[Source]]
  BY <1>1, ReadByte DEF ReadRegister, chips
<1>3. Holds(Program[at])
  BY <1>1 DEF Sound
<1>4. shadow \in [Register -> Byte] /\ bme.reg \in [Register -> Byte]
  BY DEF Quantities, Bme
<1>5. CASE stage = "read_meas"
  <2>1. stage' = "read_hum" /\ at' = at
    BY <1>5 DEF ReadRegister, NextRead, Proceed
  <2>2. shadow'["ctrl_meas"] = bme'.reg["ctrl_meas"] /\ bme'.reg["ctrl_meas"] \in Byte
    BY <1>2, <1>4, <1>5 DEF Source, Register
  <2>3. MeasAgrees'
    <3>1. 0 \in {0, shadow'["ctrl_meas"] % 4} \ {NORMAL}
      BY DEF NORMAL
    <3>2. shadow'["ctrl_meas"] = bme'.reg["ctrl_meas"] + 0
      BY <2>2 DEF Byte
    <3> QED BY <3>1, <3>2 DEF MeasAgrees
  <2>4. Holds(Program[at])'
    BY <1>2, <1>3, <2>1 DEF Holds
  <2>5. SettersRecover'
    BY <1>1, <2>1, Openings DEF SettersRecover, Back
  <2> QED BY <2>1, <2>3, <2>4, <2>5 DEF Sound, Writes, Register
<1>6. CASE stage = "read_hum"
  <2>1. stage' = "read_config" /\ at' = at
    BY <1>6 DEF ReadRegister, NextRead, Proceed
  <2>2. /\ shadow'["ctrl_meas"] = shadow["ctrl_meas"]
        /\ shadow'["ctrl_hum"] = bme'.reg["ctrl_hum"]
    BY <1>2, <1>4, <1>6 DEF Source, Register
  <2>3. MeasAgrees'
    BY <1>2, <1>6, <2>2 DEF Sound, MeasAgrees
  <2>4. Holds(Program[at])'
    BY <1>2, <1>3, <2>1 DEF Holds
  <2>5. SettersRecover'
    BY <1>1, <2>1, Openings DEF SettersRecover, Back
  <2> QED BY <2>1, <2>2, <2>3, <2>4, <2>5 DEF Sound, Writes, Register
<1>7. CASE stage = "read_config"
  <2>1. Return
    BY <1>7 DEF ReadRegister, NextRead
  <2>2. at' = at + 1 /\ at' - 1 = at
    BY <1>1, <2>1, ReturnFacts, FollowingFacts DEF Setters
  <2>3. stage' \notin {"reset"} \union Writes \union Back
    BY <1>1, <2>1, ReturnFacts
  <2>4. /\ shadow'["ctrl_meas"] = shadow["ctrl_meas"]
        /\ shadow'["ctrl_hum"] = bme.reg["ctrl_hum"]
        /\ shadow'["config"] = bme.reg["config"]
        /\ shadow' \in [Register -> Byte]
    BY <1>2, <1>4, <1>7 DEF Source, Register, Sound
  <2>5. PICK mode \in {0, shadow["ctrl_meas"] % 4} \ {NORMAL} :
            shadow["ctrl_meas"] = bme.reg["ctrl_meas"] + mode
    BY <1>7 DEF Sound, MeasAgrees
  <2>6. shadow' = [bme.reg EXCEPT !["ctrl_meas"] = @ + mode]
    BY <1>4, <2>4, <2>5 DEF Register
  <2>7. CopyAgrees'
    BY <1>2, <2>4, <2>5, <2>6 DEF CopyAgrees
  <2>8. Holds(Program[at - 1])'
    BY <1>2, <1>3, <2>2 DEF Holds
  <2>9. SettersRecover'
    BY <2>2, <2>7, <2>8 DEF SettersRecover
  <2> QED BY <2>3, <2>9 DEF Sound, Writes, Register, Back
<1> QED BY <1>1, <1>5, <1>6, <1>7 DEF Back

\* A call of the other kind is followed by no setter's stage, and its successor
\* follows no setter.
LEMMA OtherSound ==
    ASSUME Places, StageInv, stage \in Other,
           Return \/ (at' = at /\ stage' \in {"tmp_temp", "tmp_obj", "opt_result"})
    PROVE Sound' /\ SettersRecover'
<1>1. at \in 1..15 /\ at \notin Setters
  BY OtherStage
<1>2. stage' \notin Writes \union Back
  <2>1. CASE Return BY <1>1, <2>1, ReturnFacts
  <2>2. CASE stage' \in {"tmp_temp", "tmp_obj", "opt_result"}
    BY <2>2 DEF Writes, Register, Back
  <2> QED BY <2>1, <2>2
<1>3. Sound'
  BY <1>2 DEF Sound, Writes, Register, Back
<1>4. CASE Return
  <2>1. at' = Following /\ at' \in 1..15
    BY <1>1, <1>4, ReturnFacts
  <2>2. at' - 1 \in {6, 9, 10, 11, 12, 13, 14}
    BY <1>1, <2>1, FollowingFacts DEF Setters
  <2>3. Program[at' - 1].call # "set"
    BY <2>2, SetterCalls DEF Setters
  <2> QED BY <1>3, <2>3 DEF SettersRecover
<1>5. CASE at' = at /\ stage' \in {"tmp_temp", "tmp_obj", "opt_result"}
  <2>1. Opening(Program[at]) \notin {"tmp_temp", "tmp_obj"}
    BY <1>1, Openings
  <2>2. at \in {6, 9} => Opening(Program[at]) # "opt_result"
    BY Doing DEF Opening
  <2>3. at > 1 /\ Program[at - 1].call = "set" => at \in {6, 9}
    BY <1>1, SetterCalls DEF Setters
  <2> QED BY <1>3, <1>5, <2>1, <2>2, <2>3 DEF SettersRecover
<1> QED BY <1>4, <1>5

\* A sample changes no field of a setter, and the mode only from forced to sleep.
LEMMA BmeSampleSound ==
    ASSUME Quantities, Places, StageInv, RecoverInv, intact, BmeSample
    PROVE Sound' /\ SettersRecover'
<1> DEFINE m == bme.reg["ctrl_meas"]
           n == bme'.reg["ctrl_meas"]
<1>1. UNCHANGED <<at, stage, shadow, intact>>
  BY DEF BmeSample, control
<1>2. m \in Byte /\ m % 4 # 0 /\ bme.reg \in [Register -> Byte]
  BY DEF BmeSample, Quantities, Bme, Register, SLEEP
<1>3. /\ bme'.reg = [bme.reg EXCEPT !["ctrl_meas"] = n]
      /\ n = IF m % 4 = NORMAL THEN m ELSE m - (m % 4)
      /\ bme'.osrs_h = bme.osrs_h
  BY <1>2 DEF BmeSample, Quantities, Bme, Register
<1>4. stage \notin Writes
  BY <1>2 DEF RecoverInv, Sound
<1>5. ASSUME NEW k \in Setters, Holds(Program[k]) PROVE Holds(Program[k])'
  <2>1. CASE k \in {2, 5}
    <3>1. Home(Program[k]) # "ctrl_meas" /\ Home(Program[k]) \in Register
      BY <2>1, Homes DEF Register
    <3>2. bme'.reg[Home(Program[k])] = bme.reg[Home(Program[k])]
      BY <1>2, <1>3, <3>1
    <3> QED BY <1>3, <1>5, <3>2 DEF Holds
  <2>2. CASE k \in {3, 4}
    <3>1. Home(Program[k]) = "ctrl_meas" /\ Program[k].field # "hum"
      BY <2>2, Homes, Setting
    <3>2. n \div 4 = m \div 4 /\ n \div 32 = m \div 32
      BY <1>2, <1>3 DEF Byte, NORMAL
    <3>3. Field[Program[k].field][2] \in {4, 32}
      BY <2>2, Setting DEF Field
    <3> HIDE DEF m, n
    <3>4. n \div Field[Program[k].field][2] = m \div Field[Program[k].field][2]
      BY <3>2, <3>3
    <3> QED BY <1>5, <3>1, <3>4 DEF Holds, m, n
  <2>3. CASE k \in {1, 7, 8}
    <3>1. /\ Home(Program[k]) = "ctrl_meas" /\ Program[k].field # "hum"
          /\ Field[Program[k].field][2] = 1 /\ Field[Program[k].field][3] = 4
          /\ Program[k].value \in {0, 3}
      BY <2>3, Homes, Setting DEF Field
    <3>2. (m \div 1) % 4 = Program[k].value
      BY <1>5, <3>1 DEF Holds
    <3>3. m % 4 = 3
      BY <1>2, <3>1, <3>2 DEF Byte
    <3>4. n = m
      BY <1>3, <3>3 DEF NORMAL
    <3> QED BY <1>5, <3>1, <3>4 DEF Holds
  <2> QED BY <2>1, <2>2, <2>3 DEF Setters
<1>6. ASSUME NEW s \in Byte,
             \E mode \in {0, s % 4} \ {NORMAL} : s = m + mode
      PROVE \E mode \in {0, s % 4} \ {NORMAL} : s = n + mode
  <2>1. PICK mode \in {0, s % 4} \ {NORMAL} : s = m + mode
    BY <1>6
  <2>2. mode = 0
    BY <1>2, <2>1 DEF Byte, NORMAL
  <2>3. s = m
    BY <1>2, <2>1, <2>2 DEF Byte
  <2>4. CASE m % 4 = 3
    <3>1. n = m /\ s = n + 0
      BY <1>2, <1>3, <2>3, <2>4 DEF NORMAL, Byte
    <3>2. 0 \in {0, s % 4} \ {NORMAL}
      BY DEF NORMAL
    <3> QED BY <3>1, <3>2
  <2>5. CASE m % 4 # 3
    <3>1. n = m - (m % 4)
      BY <1>3, <2>5 DEF NORMAL
    <3>2. s = n + (s % 4) /\ s % 4 # NORMAL
      BY <1>2, <2>3, <2>5, <3>1 DEF Byte, NORMAL
    <3>3. s % 4 \in {0, s % 4} \ {NORMAL}
      BY <3>2
    <3> QED BY <3>2, <3>3
  <2> QED BY <2>4, <2>5
<1>7. MeasAgrees => MeasAgrees'
  <2>1. shadow["ctrl_meas"] \in Byte
    BY DEF Quantities, Register
  <2> QED BY <1>1, <1>6, <2>1 DEF MeasAgrees
<1>8. CopyAgrees => CopyAgrees'
  <2> SUFFICES ASSUME CopyAgrees PROVE CopyAgrees'
    OBVIOUS
  <2>1. shadow["ctrl_meas"] \in Byte /\ shadow \in [Register -> Byte]
    BY DEF Quantities, Register
  <2>2. PICK mode \in {0, shadow["ctrl_meas"] % 4} \ {NORMAL} :
            shadow = [bme.reg EXCEPT !["ctrl_meas"] = @ + mode]
    BY DEF CopyAgrees
  <2>3. /\ shadow["ctrl_meas"] = m + mode
        /\ shadow["ctrl_hum"] = bme.reg["ctrl_hum"] /\ shadow["config"] = bme.reg["config"]
    BY <1>2, <2>2 DEF Register
  <2>4. PICK left \in {0, shadow["ctrl_meas"] % 4} \ {NORMAL} :
            shadow["ctrl_meas"] = n + left
    BY <1>6, <2>1, <2>3
  <2>5. shadow = [bme'.reg EXCEPT !["ctrl_meas"] = @ + left]
    <3>1. bme'.reg["ctrl_hum"] = bme.reg["ctrl_hum"] /\ bme'.reg["config"] = bme.reg["config"]
      BY <1>2, <1>3 DEF Register
    <3>2. DOMAIN bme'.reg = Register
      BY <1>2, <1>3
    <3> HIDE DEF m, n
    <3> QED BY <2>1, <2>3, <2>4, <3>1, <3>2 DEF Register, n
  <2> QED BY <1>1, <2>4, <2>5 DEF CopyAgrees
<1>9. Sound'
  <2>1. Sound
    BY DEF RecoverInv
  <2>2. stage \in Back => at \in Setters
    BY DEF StageInv, SetterStage
  <2>3. stage \in Back => Holds(Program[at])'
    <3> SUFFICES ASSUME stage \in Back PROVE Holds(Program[at])'
      OBVIOUS
    <3>1. PICK k \in Setters : k = at
      BY <2>2
    <3>2. Holds(Program[k])'
      BY <1>5, <2>1, <3>1 DEF Sound
    <3> QED BY <1>1, <3>1, <3>2 DEF Holds
  <2>4. bme'.reg["ctrl_hum"] = bme.reg["ctrl_hum"]
    BY <1>2, <1>3 DEF Register
  <2> QED BY <1>1, <1>4, <1>7, <2>1, <2>3, <2>4 DEF Sound, Writes, Register
<1>10. SettersRecover'
  <2> SUFFICES ASSUME at > 1, Program[at - 1].call = "set", stage = Opening(Program[at])
               PROVE Holds(Program[at - 1])' /\ CopyAgrees'
    BY <1>1 DEF SettersRecover
  <2>1. PICK k \in Setters : k = at - 1
    BY SetterCalls DEF Places
  <2>2. Holds(Program[k]) /\ CopyAgrees
    BY <2>1 DEF RecoverInv, SettersRecover
  <2>3. Holds(Program[k])'
    BY <1>5, <2>2
  <2>4. Holds(Program[at - 1])'
    BY <1>1, <2>1, <2>3 DEF Holds
  <2> QED BY <1>8, <2>2, <2>4
<1> QED BY <1>9, <1>10

\* A step that ends with `intact' leaves a sound setter.
LEMMA StepRecover == Quantities /\ Places /\ StageInv /\ RecoverInv /\ [Next]_vars => RecoverInv'
<1> SUFFICES ASSUME Quantities, Places, StageInv, RecoverInv, [Next]_vars, intact'
             PROVE Sound' /\ SettersRecover'
  BY DEF RecoverInv, SettersRecover
<1>1. ASSUME NEW ok \in BOOLEAN, Transaction(ok) PROVE Sound' /\ SettersRecover'
  <2>1. Transfer(ok)
    BY <1>1 DEF Transaction, PowerMode, Reset, WriteRegister, ReadRegister, Burst, TmpSwitch,
                TmpStatus, TmpTemp, TmpObj, OptSwitch, OptConfig, OptResult
  <2>2. ok /\ (stage # "power_mode" => Sound)
    BY <2>1 DEF Transfer, RecoverInv
  <2>3. CASE PowerMode(ok) BY <2>2, <2>3, PowerModeSound
  <2>4. CASE Reset(ok) BY <2>2, <2>4, ResetSound
  <2>5. CASE WriteRegister(ok)
    <3>1. stage # "power_mode"
      BY <2>5 DEF WriteRegister, Register
    <3> QED BY <2>2, <2>5, <3>1, WriteRegisterSound
  <2>6. CASE ReadRegister(ok)
    <3>1. stage # "power_mode"
      BY <2>6 DEF ReadRegister, Back
    <3> QED BY <2>2, <2>6, <3>1, ReadRegisterSound
  <2>7. CASE OtherTransaction(ok)
    <3>1. /\ stage \in Other
          /\ Return \/ (at' = at /\ stage' \in {"tmp_temp", "tmp_obj", "opt_result"})
      <4>1. CASE Burst(ok) BY <4>1 DEF Burst, Other
      <4>2. CASE TmpSwitch(ok) BY <4>2 DEF TmpSwitch, Other
      <4>3. CASE TmpStatus(ok) BY <4>3 DEF TmpStatus, Other, Proceed
      <4>4. CASE TmpTemp(ok) BY <4>4 DEF TmpTemp, Other, Proceed
      <4>5. CASE TmpObj(ok) BY <4>5 DEF TmpObj, Other
      <4>6. CASE OptSwitch(ok) BY <4>6 DEF OptSwitch, Other
      <4>7. CASE OptConfig(ok) BY <4>7 DEF OptConfig, Other, Proceed
      <4>8. CASE OptResult(ok) BY <4>8 DEF OptResult, Other
      <4> QED BY <2>7, <4>1, <4>2, <4>3, <4>4, <4>5, <4>6, <4>7, <4>8 DEF OtherTransaction
    <3> QED BY <3>1, OtherSound
  <2> QED BY <1>1, <2>3, <2>4, <2>5, <2>6, <2>7 DEF Transaction, OtherTransaction
<1>2. BmeSample => Sound' /\ SettersRecover'
  BY BmeSampleSound DEF BmeSample
<1>3. CASE TmpSample \/ OptSample \/ UNCHANGED vars
  <2>1. UNCHANGED <<bme, shadow, at, stage, intact>>
    BY <1>3 DEF TmpSample, OptSample, vars, chips, control
  <2> QED BY <2>1 DEF RecoverInv, Sound, SettersRecover, Holds, CopyAgrees, MeasAgrees,
                      Value, New
<1>4. Restart => Sound' /\ SettersRecover'
  <2> SUFFICES ASSUME Restart PROVE Sound' /\ SettersRecover'
    OBVIOUS
  <2>1. 1 \in 1..15 /\ 1 \in Setters
    BY DEF Setters
  <2>2. at' = 1 /\ stage' = "power_mode"
    BY <2>1, Openings DEF Restart
  <2> QED BY <2>2 DEF Sound, SettersRecover, Writes, Register, Back
<1> QED BY <1>1, <1>2, <1>3, <1>4 DEF Next
-----------------------------------------------------------------------------
(* The readings. *)

\* The quantities of the TMP007 are numbers.
LEMMA TmpNumbers ==
    ASSUME Quantities
    PROVE tmp.sample \in Nat /\ buf[1] \in Nat /\ buf[2] \in Nat
BY BoundAssumption DEF Quantities, Samples

\* What has nothing to do with the TMP007 keeps its readings.
LEMMA PairKept ==
    ASSUME PairInv, UNCHANGED <<tmp, buf, raw, told>>,
           stage' \in {"tmp_temp", "tmp_obj"} => stage' = stage
    PROVE PairInv'
BY DEF PairInv, PairInOrder

\* The reading of the light sensor stores nothing of the TMP007's.
LEMMA LuxPair ==
    ASSUME Quantities, Places, PairInv, NEW ok \in BOOLEAN, OptConfig(ok) \/ OptResult(ok)
    PROVE PairInv'
<1>1. UNCHANGED <<tmp, buf>>
  BY DEF OptConfig, OptResult, chips
<1>2. stage' \notin {"tmp_temp", "tmp_obj"}
  <2>1. Return \/ stage' = "opt_result"
    BY DEF OptConfig, OptResult, Proceed
  <2> QED BY <2>1, ReturnFacts DEF Places
<1>3. raw'.temp = raw.temp /\ raw'.obj = raw.obj
  BY DEF OptConfig, OptResult, Quantities
<1>4. told'.tmp <=> told.tmp
  BY DEF OptConfig, OptResult, Quantities
<1> QED BY <1>1, <1>2, <1>3, <1>4 DEF PairInv, PairInOrder

\* The reading of the TMP007, from its status to its object temperature.
LEMMA TmpStatusPair ==
    ASSUME Quantities, Places, PairInv, NEW ok \in BOOLEAN, TmpStatus(ok)
    PROVE PairInv'
<1>1. buf' = buf
  BY DEF TmpStatus
<1>2. CASE ok /\ tmp.ready
  <2>1. UNCHANGED <<raw, told>> /\ stage' = "tmp_temp"
    BY <1>2 DEF TmpStatus, Proceed
  <2>2. tmp' = tmp \/ tmp' = [tmp EXCEPT !.ready = FALSE]
    BY <1>2 DEF TmpStatus
  <2>3. tmp'.sample = tmp.sample
    BY <2>2 DEF Quantities
  <2>4. tmp.sample > 0
    BY <1>2 DEF PairInv
  <2> QED BY <1>1, <2>1, <2>3, <2>4 DEF PairInv, PairInOrder
<1>3. CASE ~(ok /\ tmp.ready)
  <2>1. Stored(FALSE) /\ Return /\ tmp' = tmp
    BY <1>3 DEF TmpStatus
  <2>2. ~told'.tmp
    BY <1>1, <2>1, StoredType DEF Quantities
  <2>3. stage' \notin {"tmp_temp", "tmp_obj"}
    BY <2>1, ReturnFacts DEF Places
  <2> QED BY <1>1, <2>1, <2>2, <2>3 DEF PairInv, PairInOrder
<1> QED BY <1>2, <1>3

LEMMA TmpTempPair ==
    ASSUME Quantities, Places, PairInv, NEW ok \in BOOLEAN, TmpTemp(ok)
    PROVE PairInv'
<1>1. tmp' = tmp /\ tmp.sample > 0
  BY DEF TmpTemp, chips, PairInv
<1>2. CASE ok
  <2>1. buf' = <<tmp.sample, buf[2]>> /\ UNCHANGED <<raw, told>> /\ stage' = "tmp_obj"
    BY <1>2 DEF TmpTemp, Proceed
  <2>2. buf'[1] <= tmp'.sample
    BY <1>1, <2>1, TmpNumbers
  <2> QED BY <1>1, <2>1, <2>2 DEF PairInv, PairInOrder
<1>3. CASE ~ok
  <2>1. buf' = buf /\ Stored(FALSE) /\ Return
    BY <1>3 DEF TmpTemp
  <2>2. ~told'.tmp
    BY <2>1, StoredType DEF Quantities
  <2>3. stage' \notin {"tmp_temp", "tmp_obj"}
    BY <2>1, ReturnFacts DEF Places
  <2> QED BY <1>1, <2>1, <2>2, <2>3 DEF PairInv, PairInOrder
<1> QED BY <1>2, <1>3

LEMMA TmpObjPair ==
    ASSUME Quantities, Places, PairInv, NEW ok \in BOOLEAN, TmpObj(ok)
    PROVE PairInv'
<1>1. tmp' = tmp /\ tmp.sample > 0 /\ buf[1] <= tmp.sample
  BY DEF TmpObj, chips, PairInv
<1>2. buf' = IF ok THEN <<buf[1], tmp.sample>> ELSE buf
  BY DEF TmpObj
<1>3. buf' \in Samples \X Samples /\ buf'[1] = buf[1]
  BY <1>2 DEF Quantities
<1>4. /\ raw'.temp = buf[1] /\ raw'.obj = buf'[2]
      /\ told'.tmp <=> ok
  BY <1>3, StoredType DEF TmpObj
<1>5. ok => buf'[2] = tmp.sample
  BY <1>2
<1>6. PairInOrder'
  BY <1>1, <1>4, <1>5 DEF PairInOrder
<1>7. stage' \notin {"tmp_temp", "tmp_obj"}
  BY ReturnFacts DEF TmpObj, Places
<1> QED BY <1>1, <1>3, <1>6, <1>7 DEF PairInv

LEMMA TmpSwitchPair ==
    ASSUME Quantities, Places, PairInv, NEW ok \in BOOLEAN, TmpSwitch(ok)
    PROVE PairInv'
<1>1. UNCHANGED <<buf, raw, told>> /\ Return
  BY DEF TmpSwitch, values
<1>2. tmp' = tmp \/ tmp' = [tmp EXCEPT !.on = (stage = "tmp_on")]
  BY DEF TmpSwitch
<1>3. tmp'.sample = tmp.sample /\ tmp'.ready = tmp.ready
  BY <1>2 DEF Quantities
<1>4. stage' \notin {"tmp_temp", "tmp_obj"}
  BY <1>1, ReturnFacts DEF Places
<1> QED BY <1>1, <1>3, <1>4 DEF PairInv, PairInOrder

LEMMA TmpSamplePair ==
    ASSUME Quantities, PairInv, TmpSample
    PROVE PairInv'
<1>1. tmp'.sample = tmp.sample + 1
  BY DEF TmpSample, Quantities
<1>2. UNCHANGED <<buf, raw, told, stage>>
  BY DEF TmpSample, values, control
<1>3. tmp'.sample > 0 /\ buf[1] <= tmp'.sample
  BY <1>1, TmpNumbers DEF PairInv
<1> QED BY <1>2, <1>3 DEF PairInv, PairInOrder

\* A setter's transaction leads to no transaction with the TMP007 but through a
\* return, and neither does one with the BME280 or the switch of the OPT3001.
LEMMA ElsewherePair ==
    ASSUME Places, StageInv, PairInv, NEW ok \in BOOLEAN,
           \/ PowerMode(ok) \/ Reset(ok) \/ WriteRegister(ok) \/ ReadRegister(ok)
           \/ Burst(ok) \/ OptSwitch(ok)
    PROVE PairInv'
<1>1. UNCHANGED <<tmp, buf, raw, told>>
  BY DEF PowerMode, Reset, WriteRegister, ReadRegister, Burst, OptSwitch, chips, values
<1>2. Return \/ stage' \in SetterStage
  <2>1. CASE PowerMode(ok) BY <2>1 DEF PowerMode, Proceed, Begin, SetterStage, Writes
  <2>2. CASE Reset(ok) BY <2>2 DEF Reset, Proceed, SetterStage, Writes, Register
  <2>3. CASE WriteRegister(ok)
    BY <2>3 DEF WriteRegister, Proceed, AfterWrite, SetterStage, Writes, Register, Back
  <2>4. CASE ReadRegister(ok)
    BY <2>4 DEF ReadRegister, NextRead, Proceed, SetterStage, Back
  <2>5. CASE Burst(ok) \/ OptSwitch(ok) BY <2>5 DEF Burst, OptSwitch
  <2> QED BY <2>1, <2>2, <2>3, <2>4, <2>5
<1>3. stage' \notin {"tmp_temp", "tmp_obj"}
  BY <1>2, ReturnFacts DEF Places, SetterStage, Writes, Register, Back
<1> QED BY <1>1, <1>3, PairKept

LEMMA StepPair == Quantities /\ Places /\ StageInv /\ PairInv /\ [Next]_vars => PairInv'
<1> SUFFICES ASSUME Quantities, Places, StageInv, PairInv, [Next]_vars PROVE PairInv'
  OBVIOUS
<1>1. ASSUME NEW ok \in BOOLEAN, Transaction(ok) PROVE PairInv'
  BY <1>1, LuxPair, TmpStatusPair, TmpTempPair, TmpObjPair, TmpSwitchPair, ElsewherePair
     DEF Transaction
<1>2. BmeSample \/ OptSample \/ UNCHANGED vars => PairInv'
  BY PairKept DEF BmeSample, OptSample, vars, chips, control, values
<1>3. TmpSample => PairInv'
  BY TmpSamplePair
<1>4. ASSUME Restart PROVE PairInv'
  <2>1. tmp' = tmp /\ buf' = <<0, 0>> /\ ~told'.tmp
    BY <1>4 DEF Restart, chips
  <2>2. stage' = "power_mode"
    <3>1. 1 \in 1..15 /\ 1 \in Setters
      BY DEF Setters
    <3> QED BY <1>4, <3>1, Openings DEF Restart
  <2>3. 0 <= tmp.sample
    BY TmpNumbers
  <2> QED BY <2>1, <2>2, <2>3 DEF PairInv, PairInOrder
<1> QED BY <1>1, <1>2, <1>3, <1>4 DEF Next

LEMMA StepReading == OneReading /\ [Next]_vars => OneReading'
<1> SUFFICES ASSUME OneReading, [Next]_vars PROVE OneReading'
  OBVIOUS
<1>1. ASSUME NEW ok \in BOOLEAN, Burst(ok) PROVE OneReading'
  BY <1>1 DEF Burst, Compensated, OneReading
<1>2. ASSUME NEW ok \in BOOLEAN, Transaction(ok), ~Burst(ok) PROVE OneReading'
  <2>1. UNCHANGED shown
    BY <1>2 DEF Transaction, PowerMode, Reset, WriteRegister, ReadRegister, TmpSwitch,
                TmpStatus, TmpTemp, TmpObj, OptSwitch, OptConfig, OptResult
  <2> QED BY <2>1 DEF OneReading
<1>3. BmeSample \/ TmpSample \/ OptSample \/ UNCHANGED vars => OneReading'
  BY DEF BmeSample, TmpSample, OptSample, vars, OneReading
<1>4. Restart => OneReading'
  BY DEF Restart, OneReading
<1> QED BY <1>1, <1>2, <1>3, <1>4 DEF Next
-----------------------------------------------------------------------------
(* The theorems. *)

LEMMA InitInv == Init => IInv
<1> SUFFICES ASSUME Init PROVE IInv
  OBVIOUS
<1>1. TypeOK /\ StageInv
  BY InitType
<1>2. ChipInv
  BY InitSane DEF ChipInv
<1>3. PairInv
  <2>1. tmp.sample = 0 /\ ~tmp.ready /\ buf[1] = 0 /\ ~told.tmp
    BY DEF Init
  <2>2. stage = "power_mode"
    <3>1. 1 \in 1..15 /\ 1 \in Setters
      BY DEF Setters
    <3> QED BY <3>1, Openings DEF Init
  <2> QED BY <2>1, <2>2 DEF PairInv, PairInOrder
<1>4. OneReading
  BY DEF Init, OneReading
<1>5. RecoverInv
  <2>1. 1 \in 1..15 /\ 1 \in Setters
    BY DEF Setters
  <2>2. at = 1 /\ stage = "power_mode"
    BY <2>1, Openings DEF Init
  <2> QED BY <2>2 DEF RecoverInv, Sound, SettersRecover, Writes, Register, Back
<1> QED BY <1>1, <1>2, <1>3, <1>4, <1>5 DEF IInv

LEMMA StepInv == IInv /\ [Next]_vars => IInv'
BY TypeParts, StepType, StepChip, StepRecover, StepPair, StepReading DEF IInv

LEMMA SensorInvariant == Spec => []IInv
BY InitInv, StepInv, PTL DEF Spec

\* Every variable keeps its type: no byte the setters write overflows.
THEOREM TypeCorrect == Spec => []TypeOK
BY SensorInvariant, PTL DEF IInv

\* However a restart found it, the BME280 is configured when the loop begins,
\* unless a transaction failed.
THEOREM ConfiguredAlways == Spec => []Configured
<1>1. IInv => Configured
  <2> SUFFICES ASSUME IInv, clean, at >= Ready PROVE
        bme.reg["ctrl_meas"] = 3 * 32 + 2 * 4 + NORMAL /\ bme.osrs_h = 1
    BY DEF Configured
  <2>1. Places /\ Sane /\ StageInv
    BY TypeParts DEF IInv, ChipInv
  <2>2. at \in 9..15 /\ at \notin Setters
    BY <2>1 DEF Places, Ready, Setters
  <2>3. ChipAt(at)
    BY <2>1, <2>2 DEF Sane, StageInv, SetterStage
  <2> QED BY <2>2, <2>3, MeasValues DEF ChipAt, NORMAL
<1> QED BY <1>1, SensorInvariant, PTL

\* When a call begins the driver's copy is what the chip holds.
THEOREM CopyIsDevice == Spec => []ShadowIsDevice
<1>1. IInv => ShadowIsDevice
  <2> SUFFICES ASSUME IInv, clean, at > 1, stage = Opening(Program[at])
               PROVE shadow = bme.reg
    BY DEF ShadowIsDevice
  <2>1. Places /\ Sane
    BY TypeParts DEF IInv, ChipInv
  <2>2. stage \notin {"reset"} \union Writes \union Back
    BY <2>1, Openings DEF Places
  <2> QED BY <2>1, <2>2 DEF Sane
<1> QED BY <1>1, SensorInvariant, PTL

\* Whatever failed before, a setter none of whose transactions fails takes effect,
\* and its copy of the registers is right when the next call begins.
THEOREM SettersRecoverAlways == Spec => []SettersRecover
BY SensorInvariant, PTL DEF IInv, RecoverInv

\* A pressure shown is compensated by the temperature measured with it.
THEOREM OneReadingAlways == Spec => []OneReading
BY SensorInvariant, PTL DEF IInv

\* A reading of the TMP007 called valid is an object temperature no older than
\* the die temperature.
THEOREM PairInOrderAlways == Spec => []PairInOrder
BY SensorInvariant, PTL DEF IInv, PairInv

\* The driver never writes config to a chip that is awake and may ignore it.
THEOREM ConfigIsTakenAlways == Spec => ConfigIsTaken
<1>1. IInv /\ [Next]_vars =>
        [WriteRegister(TRUE) /\ Target(Program[at]) = "config" /\ clean
            => bme.reg["ctrl_meas"] % 4 = SLEEP]_vars
  <2> SUFFICES ASSUME IInv, WriteRegister(TRUE), Target(Program[at]) = "config", clean
               PROVE bme.reg["ctrl_meas"] % 4 = SLEEP
    OBVIOUS
  <2>1. Sane /\ StageInv
    BY DEF IInv, ChipInv
  <2>2. stage \in Writes
    BY DEF WriteRegister, Writes
  <2>3. CASE stage \in Register
    BY <2>1, <2>3 DEF Sane, SLEEP
  <2>4. CASE stage = "direct"
    <3>1. at \in {1, 8}
      BY <2>1, <2>4 DEF Sane
    <3>2. Target(Program[at]) = "ctrl_meas"
      BY <2>4, <3>1, Homes DEF Target
    <3> QED BY <3>2
  <2> QED BY <2>2, <2>3, <2>4 DEF Writes
<1> QED BY <1>1, SensorInvariant, PTL DEF ConfigIsTaken, Spec
=============================================================================
