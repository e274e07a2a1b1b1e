----------------------------- MODULE SensorCore -----------------------------
(***************************************************************************)
(* The sensor task of the project example: Sensor_s32Process of            *)
(* examples/azure_project/main/SensorCore.c with the calls it makes of     *)
(* bme280.c (through bme280_support.c), tmp007.c and opt3001.c over the    *)
(* I2C bus of i2c_driver.c.                                                *)
(*                                                                         *)
(* The task is a sequence of calls, a call a sequence of bus transactions, *)
(* and a step is one transaction.  Nobody looks at the result of one that  *)
(* talks to the BME280: BME280_I2C_bus_read and BME280_I2C_bus_write       *)
(* return 0 whatever readI2C and writeI2C return, and a failed read leaves *)
(* the buffer it should have filled as it was.                             *)
(*                                                                         *)
(* The driver of the BME280 keeps a copy of three registers and sets a     *)
(* field by changing the copy, resetting a chip that is awake and writing  *)
(* all three.  The chips are external, and keep their state when the       *)
(* program restarts.  A quantity is the number of the measurement it comes *)
(* from, 0 before the first and for the zeros of a failed read.            *)
(*                                                                         *)
(* Left out: the BMI160, the calls whose result nobody uses (the standby   *)
(* time and the raw values read back in bme280_data_readout_template), the *)
(* chip id and the calibration bme280_init reads, the formulas of          *)
(* compensation but for what they read, the coefficients of the TMP007,    *)
(* and the display (module Display).                                       *)
(***************************************************************************)
EXTENDS Integers, Sequences

CONSTANTS
    MAX_SAMPLES,    \* bound: measurements of each chip
    MAX_FAILURES,   \* bound: bus transactions that fail
    MAX_RESTARTS    \* bound: restarts of the program

ASSUME BoundAssumption ==
    MAX_SAMPLES \in Nat /\ MAX_FAILURES \in Nat /\ MAX_RESTARTS \in Nat

Byte == 0..255
Register == {"ctrl_meas", "ctrl_hum", "config"}

BME280_CONFIG_VALUE == 32
SLEEP == 0
NORMAL == 3

VARIABLES
    bme,        \* the BME280: its registers, what is in effect, its samples
    tmp,        \* the TMP007
    opt,        \* the OPT3001
    shadow,     \* ctrl_meas_reg, ctrl_hum_reg and config_reg of *p_bme280
    t_fine,     \* the temperature the driver compensates by
    at,         \* the call of Program under way
    stage,      \* its next bus transaction
    v_data_u8,  \* the buffer of that call
    buf,        \* of tmp007.c
    raw,        \* rawTemp, rawObjTemp and rawData
    told,       \* what the last reads of the TMP007 and the OPT3001 returned
    shown,      \* g_s32ActualTemp and its like, and the t_fine of the pressure
    clean,      \* no transaction failed since the start
    intact,     \* none failed since the last setter began
    failures, restarts

chips == <<bme, tmp, opt>>
control == <<at, stage, v_data_u8>>
values == <<buf, raw, told>>
bounds == <<failures, restarts>>
vars == <<chips, shadow, t_fine, control, values, shown, clean, intact, bounds>>
-----------------------------------------------------------------------------
(* The program: the calls of Sensor_s32Process in order, the last three    *)
(* over and over.                                                          *)

Set(field, value) == [call |-> "set", field |-> field, value |-> value]
Do(name) == [call |-> name, field |-> "none", value |-> 0]

Program == <<
    Set("mode", NORMAL), Set("hum", 1), Set("press", 2), Set("temp", 3),
    Set("standby", 0), Do("readout"), Set("mode", SLEEP), Set("mode", NORMAL),
    Do("tmp_off"), Do("tmp_on"), Do("opt_off"), Do("opt_on"),
    Do("tmp_read"), Do("opt_read"), Do("bme_read") >>

Loop == 13
Ready == 9      \* the first call that finds the BME280 set up

\* Where a field is: its register, its lowest bit's weight and its size.
Field == [mode |-> <<"ctrl_meas", 1, 4>>, press |-> <<"ctrl_meas", 4, 8>>,
          temp |-> <<"ctrl_meas", 32, 8>>, hum |-> <<"ctrl_hum", 1, 8>>,
          standby |-> <<"config", 32, 8>>]

Home(c) == Field[c.field][1]

\* BME280_SET_BITSLICE
Updated(byte, c) ==
    LET low == Field[c.field][2]
        size == Field[c.field][3]
    IN  (byte - ((byte \div low) % size) * low) + c.value * low

\* The byte a setter computes from the copy before it asks for the mode.
New(c) == Updated(shadow[Home(c)], c)

\* What a setter writes to a register.  set_power_mode writes a constant to
\* config where the others write the copy.
Value(c, reg) ==
    IF reg = Home(c) THEN New(c)
    ELSE IF c.field = "mode" /\ reg = "config" THEN BME280_CONFIG_VALUE
    ELSE shadow[reg]

\* Mutant: no reset.
NoReset(awake) == IF awake THEN "config" ELSE "direct"

\* A setter resets a chip that is awake and writes everything to it, and writes
\* the one register to one that sleeps.
Begin(awake) == IF awake THEN "reset" ELSE "direct"

\* Mutant: ctrl_hum is not written after a reset.
NoHum(written, c) ==
    CASE written = "config" -> "ctrl_meas"
      [] written = "ctrl_hum" -> "ctrl_meas"
      [] written = "ctrl_meas" -> "read_meas"
      [] written = "direct" -> IF c.field = "hum" THEN "ctrl_meas" ELSE "read_meas"

\* Mutant: ctrl_meas is not written after the humidity of a chip that sleeps.
HumAlone(written, c) ==
    CASE written = "config" -> "ctrl_hum"
      [] written = "ctrl_hum" -> "ctrl_meas"
      [] written \in {"ctrl_meas", "direct"} -> "read_meas"

\* The order of the writes.  The humidity takes effect with ctrl_meas.
AfterWrite(written, c) ==
    CASE written = "config" -> "ctrl_hum"
      [] written = "ctrl_hum" -> "ctrl_meas"
      [] written = "ctrl_meas" -> "read_meas"
      [] written = "direct" -> IF c.field = "hum" THEN "ctrl_meas" ELSE "read_meas"

\* The registers read back at the end of a setter, in this order.
Back == {"read_meas", "read_hum", "read_config"}
Source ==
    CASE stage = "read_meas" -> "ctrl_meas"
      [] stage = "read_hum" -> "ctrl_hum"
      [] stage = "read_config" -> "config"

\* The first transaction of a call.
Opening(c) ==
    CASE c.call = "set" -> "power_mode"
      [] c.call = "readout" -> "burst"
      [] c.call = "bme_read" -> "burst"
      [] c.call = "tmp_read" -> "tmp_status"
      [] c.call = "opt_read" -> "opt_config"
      [] OTHER -> c.call

Init ==
    /\ bme = [reg |-> [r \in Register |-> 0], osrs_h |-> 0, sample |-> 0]
    /\ tmp = [on |-> TRUE, sample |-> 0, ready |-> FALSE]
    /\ opt = [on |-> FALSE, sample |-> 0]
    /\ shadow = [r \in Register |-> 0]
    /\ t_fine = 0
    /\ at = 1 /\ stage = Opening(Program[1]) /\ v_data_u8 = 0
    /\ buf = <<0, 0>>
    /\ raw = [temp |-> 0, obj |-> 0, lux |-> 0]
    /\ told = [tmp |-> FALSE, opt |-> FALSE]
    /\ shown = [temp |-> 0, press |-> 0, fine |-> 0]
    /\ clean = TRUE /\ intact = TRUE
    /\ failures = 0 /\ restarts = 0
-----------------------------------------------------------------------------
(* The chips. *)

\* A write to config may be ignored by a chip that is awake, and a write to
\* ctrl_hum takes effect with the next one to ctrl_meas.
Written(c, reg, byte) ==
    LET stored == [c EXCEPT !.reg[reg] = byte]
    IN  CASE reg = "config" -> IF c.reg["ctrl_meas"] % 4 = SLEEP THEN {stored} ELSE {c, stored}
          [] reg = "ctrl_hum" -> {stored}
          [] reg = "ctrl_meas" -> {[stored EXCEPT !.osrs_h = c.reg["ctrl_hum"] % 8]}

Cleared(c) == [c EXCEPT !.reg = [r \in Register |-> 0], !.osrs_h = 0]

\* In forced mode, 1 or 2, the chip measures once.
BmeSample ==
    /\ bme.reg["ctrl_meas"] % 4 # SLEEP
    /\ bme.sample < MAX_SAMPLES
    /\ bme' = [bme EXCEPT !.sample = @ + 1,
                          !.reg["ctrl_meas"] = IF @ % 4 = NORMAL THEN @ ELSE @ - (@ % 4)]
    /\ UNCHANGED <<tmp, opt, shadow, t_fine, control, values, shown, clean, intact, bounds>>

TmpSample ==
    /\ tmp.on /\ tmp.sample < MAX_SAMPLES
    /\ tmp' = [tmp EXCEPT !.sample = @ + 1, !.ready = TRUE]
    /\ UNCHANGED <<bme, opt, shadow, t_fine, control, values, shown, clean, intact, bounds>>

OptSample ==
    /\ opt.on /\ opt.sample < MAX_SAMPLES
    /\ opt' = [opt EXCEPT !.sample = @ + 1]
    /\ UNCHANGED <<bme, tmp, shadow, t_fine, control, values, shown, clean, intact, bounds>>
-----------------------------------------------------------------------------
(* The bus. *)

\* One transaction, good or failed.
Transfer(ok) ==
    /\ ok \/ failures < MAX_FAILURES
    /\ failures' = IF ok THEN failures ELSE failures + 1
    /\ clean' = (clean /\ ok)
    /\ intact' = (ok /\ (intact \/ stage = "power_mode"))
    /\ UNCHANGED restarts

Following == IF at = Len(Program) THEN Loop ELSE at + 1

\* The call returns.
Return ==
    /\ at' = Following
    /\ stage' = Opening(Program[Following])

Proceed(next) == stage' = next /\ UNCHANGED at
-----------------------------------------------------------------------------
(* The BME280. *)

\* bme280_get_power_mode in a setter: a failed read leaves 0, SLEEP.
PowerMode(ok) ==
    LET c == Program[at]
    IN  /\ stage = "power_mode" /\ Transfer(ok)
        /\ Proceed(Begin(ok /\ bme.reg["ctrl_meas"] % 4 # SLEEP))
        /\ v_data_u8' = IF c.field = "mode" THEN 0 ELSE New(c)
        /\ UNCHANGED <<chips, shadow, t_fine, values, shown>>

Reset(ok) ==
    /\ stage = "reset" /\ Transfer(ok)
    /\ bme' = IF ok THEN Cleared(bme) ELSE bme
    /\ Proceed("config")
    /\ UNCHANGED <<tmp, opt, shadow, t_fine, v_data_u8, values, shown>>

Target(c) == IF stage = "direct" THEN Home(c) ELSE stage

WriteRegister(ok) ==
    LET c == Program[at]
    IN  /\ stage \in Register \union {"direct"} /\ Transfer(ok)
        /\ bme' \in IF ok THEN Written(bme, Target(c), Value(c, Target(c))) ELSE {bme}
        /\ Proceed(AfterWrite(stage, c))
        /\ UNCHANGED <<tmp, opt, shadow, t_fine, v_data_u8, values, shown>>

\* Mutant: config is not read back.
NoConfig == IF stage = "read_meas" THEN Proceed("read_hum") ELSE Return

NextRead ==
    CASE stage = "read_meas" -> Proceed("read_hum")
      [] stage = "read_hum" -> Proceed("read_config")
      [] stage = "read_config" -> Return

\* The three reads share a buffer, which a failed one leaves as it was.
ReadRegister(ok) ==
    /\ stage \in Back /\ Transfer(ok)
    /\ v_data_u8' = IF ok THEN bme.reg[Source] ELSE v_data_u8
    /\ shadow' = [shadow EXCEPT ![Source] = v_data_u8']
    /\ NextRead
    /\ UNCHANGED <<chips, t_fine, values, shown>>

\* Mutant: the pressure compensated before the temperature.
PressureFirst(sample, fine) == [temp |-> sample, press |-> sample, fine |-> fine]

\* The temperature is compensated first, and the pressure by its t_fine.
Compensated(sample, fine) == [temp |-> sample, press |-> sample, fine |-> sample]

\* bme280_read_pressure_temperature_humidity.
Burst(ok) ==
    LET sample == IF ok THEN bme.sample ELSE 0
    IN  /\ stage = "burst" /\ Transfer(ok)
        /\ t_fine' = sample
        /\ shown' = IF at < Loop THEN shown ELSE Compensated(sample, t_fine)
        /\ Return
        /\ UNCHANGED <<chips, shadow, v_data_u8, values>>
-----------------------------------------------------------------------------
(* The TMP007. *)

\* sensorTmp007Enable: three writes in a row, to the configuration and to two
\* coefficients that are not followed.  Any of them may be the one that failed.
TmpSwitch(ok) ==
    LET switched == [tmp EXCEPT !.on = (stage = "tmp_on")]
    IN  /\ stage \in {"tmp_on", "tmp_off"} /\ Transfer(ok)
        /\ tmp' \in IF ok THEN {switched} ELSE {tmp, switched}
        /\ Return
        /\ UNCHANGED <<bme, opt, shadow, t_fine, v_data_u8, values, shown>>

\* Mutant: the result of the reads not returned.
AlwaysValid(success) ==
    /\ raw' = [raw EXCEPT !.temp = buf'[1], !.obj = buf'[2]]
    /\ told' = [told EXCEPT !.tmp = TRUE]

\* The end of sensorTmp007Read: it stores what buf holds, read or not.
Stored(success) ==
    /\ raw' = [raw EXCEPT !.temp = buf'[1], !.obj = buf'[2]]
    /\ told' = [told EXCEPT !.tmp = success]

\* The status, which the read may clear.
TmpStatus(ok) ==
    /\ stage = "tmp_status" /\ Transfer(ok)
    /\ UNCHANGED buf
    /\ IF ok /\ tmp.ready
       THEN /\ Proceed("tmp_temp")
            /\ tmp' \in {tmp, [tmp EXCEPT !.ready = FALSE]}
            /\ UNCHANGED <<raw, told>>
       ELSE Stored(FALSE) /\ Return /\ UNCHANGED tmp
    /\ UNCHANGED <<bme, opt, shadow, t_fine, v_data_u8, shown>>

TmpTemp(ok) ==
    /\ stage = "tmp_temp" /\ Transfer(ok)
    /\ buf' = IF ok THEN <<tmp.sample, buf[2]>> ELSE buf
    /\ IF ok THEN Proceed("tmp_obj") /\ UNCHANGED <<raw, told>> ELSE Stored(FALSE) /\ Return
    /\ UNCHANGED <<chips, shadow, t_fine, v_data_u8, shown>>

TmpObj(ok) ==
    /\ stage = "tmp_obj" /\ Transfer(ok)
    /\ buf' = IF ok THEN <<buf[1], tmp.sample>> ELSE buf
    /\ Stored(ok)
    /\ Return
    /\ UNCHANGED <<chips, shadow, t_fine, v_data_u8, shown>>
-----------------------------------------------------------------------------
(* The OPT3001. *)

\* sensorOpt3001Enable.
OptSwitch(ok) ==
    /\ stage \in {"opt_on", "opt_off"} /\ Transfer(ok)
    /\ opt' = IF ok THEN [opt EXCEPT !.on = (stage = "opt_on")] ELSE opt
    /\ Return
    /\ UNCHANGED <<bme, tmp, shadow, t_fine, v_data_u8, values, shown>>

\* The bit that is tested is of the byte that holds the range number, and set
\* in every value that CONFIGURATION ever has.
DATA_RDY == TRUE

OptConfig(ok) ==
    /\ stage = "opt_config" /\ Transfer(ok)
    /\ IF ok /\ DATA_RDY
       THEN Proceed("opt_result") /\ UNCHANGED told
       ELSE told' = [told EXCEPT !.opt = FALSE] /\ Return
    /\ UNCHANGED <<chips, shadow, t_fine, v_data_u8, buf, raw, shown>>

OptResult(ok) ==
    /\ stage = "opt_result" /\ Transfer(ok)
    /\ raw' = IF ok THEN [raw EXCEPT !.lux = opt.sample] ELSE raw
    /\ told' = [told EXCEPT !.opt = ok]
    /\ Return
    /\ UNCHANGED <<chips, shadow, t_fine, v_data_u8, buf, shown>>
-----------------------------------------------------------------------------
\* The program starts again; the chips go on.
Restart ==
    /\ restarts < MAX_RESTARTS
    /\ restarts' = restarts + 1
    /\ shadow' = [r \in Register |-> 0]
    /\ t_fine' = 0
    /\ at' = 1 /\ stage' = Opening(Program[1]) /\ v_data_u8' = 0
    /\ buf' = <<0, 0>>
    /\ raw' = [temp |-> 0, obj |-> 0, lux |-> 0]
    /\ told' = [tmp |-> FALSE, opt |-> FALSE]
    /\ shown' = [temp |-> 0, press |-> 0, fine |-> 0]
    /\ clean' = TRUE /\ intact' = TRUE
    /\ UNCHANGED <<chips, failures>>

Transaction(ok) ==
    \/ PowerMode(ok) \/ Reset(ok) \/ WriteRegister(ok) \/ ReadRegister(ok) \/ Burst(ok)
    \/ TmpSwitch(ok) \/ TmpStatus(ok) \/ TmpTemp(ok) \/ TmpObj(ok)
    \/ OptSwitch(ok) \/ OptConfig(ok) \/ OptResult(ok)

Next ==
    \/ \E ok \in BOOLEAN : Transaction(ok)
    \/ BmeSample \/ TmpSample \/ OptSample
    \/ Restart

Spec == Init /\ [][Next]_vars
-----------------------------------------------------------------------------
(* Properties. *)

Stage ==
    {"power_mode", "reset", "direct"} \union Register \union Back
    \union {"burst", "tmp_on", "tmp_off", "tmp_status", "tmp_temp", "tmp_obj",
            "opt_on", "opt_off", "opt_config", "opt_result"}
Samples == 0..MAX_SAMPLES

\* Every variable has its type: no byte written to the BME280 overflows.
TypeOK ==
    /\ bme \in [reg : [Register -> Byte], osrs_h : 0..7, sample : Samples]
    /\ tmp \in [on : BOOLEAN, sample : Samples, ready : BOOLEAN]
    /\ opt \in [on : BOOLEAN, sample : Samples]
    /\ shadow \in [Register -> Byte]
    /\ t_fine \in Samples
    /\ at \in 1..Len(Program)
    /\ stage \in Stage
    /\ v_data_u8 \in Byte
    /\ buf \in Samples \X Samples
    /\ raw \in [temp : Samples, obj : Samples, lux : Samples]
    /\ told \in [tmp : BOOLEAN, opt : BOOLEAN]
    /\ shown \in [temp : Samples, press : Samples, fine : Samples]
    /\ clean \in BOOLEAN /\ intact \in BOOLEAN
    /\ failures \in 0..MAX_FAILURES /\ restarts \in 0..MAX_RESTARTS

\* Once set up, and wherever a restart left the chip, the BME280 measures: in
\* normal mode, the pressure twice, the temperature four times and the humidity
\* once, unless a transaction failed since the start.
Configured ==
    clean /\ at >= Ready =>
        /\ bme.reg["ctrl_meas"] = 3 * 32 + 2 * 4 + NORMAL
        /\ bme.osrs_h = 1

\* After the first setter the driver's copy is what the chip holds whenever
\* a call begins, so that no setter writes back a value that is not there.
ShadowIsDevice ==
    clean /\ at > 1 /\ stage = Opening(Program[at]) => shadow = bme.reg

\* The chip holds what setter c asks for.
Holds(c) ==
    /\ (bme.reg[Home(c)] \div Field[c.field][2]) % Field[c.field][3] = c.value
    /\ c.field = "hum" => bme.osrs_h = c.value

\* The copy is what the chip holds, or held before it left the forced mode.
CopyAgrees ==
    \E mode \in {0, shadow["ctrl_meas"] % 4} \ {NORMAL} :
        shadow = [bme.reg EXCEPT !["ctrl_meas"] = @ + mode]

\* Whatever failed transactions left in the chip and in the copy, a setter of
\* which none fails takes effect, and its copy is right when the next call begins.
SettersRecover ==
    at > 1 /\ Program[at - 1].call = "set" /\ stage = Opening(Program[at]) /\ intact
        => Holds(Program[at - 1]) /\ CopyAgrees

\* The driver writes config to a chip that sleeps, which does not ignore it.
ConfigIsTaken ==
    [][WriteRegister(TRUE) /\ Target(Program[at]) = "config" /\ clean
        => bme.reg["ctrl_meas"] % 4 = SLEEP]_vars

\* A pressure is compensated by the temperature measured with it, whatever
\* t_fine bme280_data_readout_template and earlier readings left.
OneReading == shown.temp = shown.press /\ shown.press = shown.fine

\* What sensorTmp007Read calls valid is an object temperature no older than
\* the die temperature it is stored with.
PairInOrder == told.tmp => raw.temp <= raw.obj /\ raw.obj > 0
=============================================================================
