---------------------------- MODULE Bmi160Modes -----------------------------
\* The motion sensor from start-up on (src/examples/azure_project/main/
\* bmi160_support.c, SensorCore.c:153-189, and the magnetometer interface of
\* bmi160.c): the running modes, which power the accelerometer and the gyroscope
\* through the command register and the magnetometer, a BMM150 behind the sensor's
\* own bus, through the manual interface. The program may restart between any two
\* transfers: what it holds in memory is then zero, and the two devices, which keep
\* their supply, are as they were.
\*
\* Of the sensor's settings, which are independent of each other (Bmi160), those are
\* followed that the driver or the BMM150 acts on.
\*
\* External: the two devices, as far as the driver relies on them.
EXTENDS Naturals, Sequences

CONSTANTS MaxLater,     \* bound: the calls made after start-up
          MaxRestarts,  \* bound: the restarts
          MaxLosses     \* bound: the transfers that fail

ASSUME BoundsAssumption == MaxLater \in Nat /\ MaxRestarts \in Nat /\ MaxLosses \in Nat

-----------------------------------------------------------------------------
\* What the calls do, instruction by instruction. An instruction is executed when
\* the conditions around it in the code hold: on the magnetometer interface as it
\* was read at the start of the call, on the driver's copy of the manual bit, or on
\* V_bmm150_maual_auto_condition_u8.

Instruction(op, field, value) == [op |-> op, field |-> field, value |-> value, when |-> {}]
Put(f, v) == Instruction("put", f, v)
Command(v) == Put("command_register", v)
Do(op, v) == Instruction(op, "none", v)
When(condition, code) ==
  [i \in DOMAIN code |-> [code[i] EXCEPT !.when = @ \cup {condition}]]

\* The registers of the BMM150.
PowerControl == \h4B
PowerMode == \h4C
Repetitions == [xy |-> \h51, z |-> \h52]
DataRegister == \h42
TrimRegisters ==
  <<\h5D, \h5E, \h64, \h65, \h71, \h70, \h6A, \h6B, \h68, \h69, \h6E, \h6F, \h62, \h63,
    \h6C, \h6D>>

\* A write to, and a read from, the magnetometer in manual mode.
MagWrite(a, v) == <<Put("mag_write_data", v), Put("mag_write_addr", a)>>
MagRead(op, a) == <<Put("mag_read_addr", a), Do(op, a)>>

mag_wakeup == MagWrite(PowerControl, 1) \o MagRead("awake", PowerControl)
read_mag_trim ==
  [n \in 1 .. 2 * Len(TrimRegisters) |->
     MagRead("trim", TrimRegisters[(n + 1) \div 2])[2 - (n % 2)]]
manual == When("not_manual", <<Put("mag_manual_enable", 1)>>)
automatic == When("manual", <<Put("mag_manual_enable", 0)>>)

\* The repetitions and the data rate, in manual mode; unless told otherwise, on to
\* forced mode and back to automatic.
set_mag_presetmode(xy, z, dr) ==
  manual \o MagWrite(Repetitions.xy, xy) \o MagWrite(Repetitions.z, z)
    \o MagWrite(PowerMode, dr)
    \o When("auto_condition", MagWrite(PowerMode, 2) \o <<Put("mag_read_addr", DataRegister)>>
                                \o automatic)
Preset == [low_power |-> set_mag_presetmode(1, 2, 2), regular |-> set_mag_presetmode(4, 14, 2),
           high_accuracy |-> set_mag_presetmode(23, 82, 42), enhanced |-> set_mag_presetmode(7, 26, 2)]
preset == <<Do("auto_condition", 1)>> \o Preset.regular \o <<Do("auto_condition", 0)>>

mag_interface_init ==
  <<Command(\h11), Command(\h19), Command(\h37), Command(\h9A), Command(\hC0),
    Put("target_page", 1), Put("paging_enable", 1), Put("pullup_configuration", 3),
    Put("target_page", 0), Put("i2c_device_addr", \h13), Put("mag_manual_enable", 1),
    Put("if_mode", 2)>>
    \o mag_wakeup \o MagWrite(PowerMode, 6) \o read_mag_trim \o preset
    \o MagWrite(PowerMode, 2)
    \o <<Put("mag_output_data_rate", 5), Put("mag_read_addr", DataRegister),
         Put("mag_manual_enable", 0)>>

\* bmi160_set_bmm150_mag_and_secondary_if_power_mode with bmi160_bmm150_mag_set_
\* power_mode in it.
mag_suspend ==
  <<Command(\h11)>> \o manual \o manual \o MagWrite(PowerControl, 0) \o <<Command(\h18)>>
mag_force ==
  <<Command(\h11)>> \o manual \o <<Command(\h19)>> \o manual \o mag_wakeup
    \o MagWrite(PowerMode, 2) \o preset \o <<Put("mag_read_addr", DataRegister)>>
    \o automatic \o automatic

interrupt_configuration ==
  <<Put("output_enable_0", 1), Put("output_enable_1", 1), Put("intr_level_0", 1),
    Put("intr_level_1", 1)>>
fifo_configuration ==
  <<Put("fifo_time_enable", 1), Put("fifo_stop_on_full", 1), Put("intr_fifo_wm_0", 1),
    Put("intr_fifo_wm_1", 1), Put("fifo_wm", 2)>>

\* The accelerometer and the gyroscope awake, with the same data rate.
AwakeAt(accel_bandwidth, gyro_bandwidth, rate) ==
  <<Command(\h11), Command(\h15), Put("accel_bw", accel_bandwidth), Put("gyro_bw", gyro_bandwidth),
    Put("gyro_output_data_rate", rate), Put("accel_output_data_rate", rate)>>

\* What a running mode does after the magnetometer interface is as it needs it; the
\* data read at the end has no effect.
Configuration ==
  [nine_dof_fifo      |-> AwakeAt(2, 2, 8) \o interrupt_configuration
                            \o <<Put("fifo_header_enable", 1), Put("fifo_mag_enable", 1),
                                 Put("fifo_accel_enable", 1), Put("fifo_gyro_enable", 1)>>
                            \o fifo_configuration,
   imu_fifo           |-> AwakeAt(2, 2, 8) \o interrupt_configuration
                            \o <<Put("fifo_header_enable", 1), Put("fifo_accel_enable", 1),
                                 Put("fifo_gyro_enable", 1)>>
                            \o fifo_configuration,
   imu                |-> AwakeAt(2, 2, 8),
   advance_power_save |-> <<Command(\h11), Put("accel_bw", 2), Put("gyro_bw", 2),
                            Put("gyro_output_data_rate", 8), Put("accel_output_data_rate", 8)>>
                            \o <<Put("intr_enable_0_x", 1), Put("intr_enable_0_y", 1),
                                 Put("intr_enable_0_z", 1)>>
                            \o <<Put("intr_enable_2_x", 1), Put("intr_enable_2_y", 1),
                                 Put("intr_enable_2_z", 1)>>
                            \o <<Put("gyro_sleep_trigger", 4), Put("gyro_wakeup_trigger", 2),
                                 Put("gyro_sleep_state", 0), Put("gyro_wakeup_intr", 0)>>,
   pedometer          |-> <<Command(\h12), Command(\h14), Put("accel_bw", 0),
                            Put("accel_output_data_rate", 6)>>,
   head_tracking      |-> AwakeAt(2, 2, 12),
   navigation         |-> AwakeAt(0, 2, 6),
   remote_control     |-> AwakeAt(0, 0, 9),
   indoor_navigation  |-> AwakeAt(0, 0, 10)]
Mode == DOMAIN Configuration
WithMag == {"nine_dof_fifo", "head_tracking", "navigation"}

\* bmi160_config_running_mode: both tests look at the interface as it was at the
\* start.
config_running_mode(m) ==
  <<Do("get_if_mode", 0)>>
    \o (IF m \in WithMag THEN When("mag_off", mag_interface_init)
        ELSE When("mag_on", mag_suspend \o <<Put("if_mode", 0)>>))
    \o Configuration[m] \o <<Do("mode", m)>>

\* The sensor task's start-up: bmi160_initialize_sensor, the mode it works in, and
\* the fast offset compensation of both sensors.
\* Mutant: without the mode that switches the magnetometer off.
InitializedAtOnce == <<Put("register_6C", 0)>> \o config_running_mode("nine_dof_fifo")
initialize_sensor ==
  <<Put("register_6C", 0)>> \o config_running_mode("nine_dof_fifo")
    \o config_running_mode("pedometer")
START_FOC == 3
accel_foc == <<Put("accel_offset_enable", 1), Put("foc_accel_x", 3), Put("foc_accel_y", 3),
               Put("foc_accel_z", 1), Command(START_FOC), Do("foc_rdy", 0)>>
gyro_foc == <<Put("gyro_offset_enable", 1), Put("foc_gyro_enable", 1),
              Command(START_FOC), Do("foc_rdy", 0)>>
\* Mutant: the compensation before the mode that wakes the gyroscope again.
CalibratedFirst ==
  initialize_sensor \o accel_foc \o gyro_foc \o config_running_mode("navigation")
    \o <<Do("up", 0)>>
start_up ==
  initialize_sensor \o config_running_mode("navigation") \o accel_foc \o gyro_foc
    \o <<Do("up", 0)>>

\* The program of each call.
Code ==
  [nine_dof_fifo |-> config_running_mode("nine_dof_fifo"),
   imu_fifo |-> config_running_mode("imu_fifo"),
   imu |-> config_running_mode("imu"),
   advance_power_save |-> config_running_mode("advance_power_save"),
   pedometer |-> config_running_mode("pedometer"),
   head_tracking |-> config_running_mode("head_tracking"),
   navigation |-> config_running_mode("navigation"),
   remote_control |-> config_running_mode("remote_control"),
   indoor_navigation |-> config_running_mode("indoor_navigation"),
   low_power |-> Preset.low_power, regular |-> Preset.regular,
   high_accuracy |-> Preset.high_accuracy, enhanced |-> Preset.enhanced,
   mag_force |-> mag_force, start_up |-> start_up]

-----------------------------------------------------------------------------
VARIABLES held,        \* what the sensor's settings hold
          power,       \* the power modes of its three parts
          magnet,      \* the registers of the BMM150
          present,     \* the BMM150 answers
          ram,         \* what the driver holds in memory
          current, pc, \* the call under way, and its next instruction
          up,          \* start-up is over
          mode,        \* the last running mode
          clean,       \* no transfer failed since the program started
          later, restarts, losses

device == <<held, power, magnet, present>>
counts == <<later, restarts, losses>>
modesVars == <<device, ram, current, pc, up, mode, clean, counts>>

\* The settings that are followed. Some share their register with settings no
\* instruction names; the driver reads such a register before it writes it.
Followed == {"if_mode", "mag_manual_enable", "mag_read_addr", "mag_write_data", "target_page"}
SharesRegister == {"if_mode", "mag_manual_enable", "target_page"}
Changed(f, v) == IF f \in Followed THEN [held EXCEPT ![f] = v] ELSE held

\* What a program starts with.
Zeroed == [interface |-> 0, manual |-> 0, auto_condition |-> 0, tries |-> 0, trim |-> FALSE]

ModesInit ==
  /\ held = [f \in Followed |-> 0]
  /\ power = [accel |-> "suspend", gyro |-> "suspend", mag |-> "suspend"]
  /\ magnet = [a \in {PowerControl, PowerMode, Repetitions.xy, Repetitions.z} |-> 0]
  /\ present \in BOOLEAN
  /\ ram = Zeroed
  /\ current = "start_up" /\ pc = 1
  /\ up = FALSE /\ mode = "none" /\ clean = TRUE
  /\ later = 0 /\ restarts = 0 /\ losses = 0

\* Whether a transfer to or from a register of the BMM150 takes place: in manual
\* mode with the interface on and powered, and, but for the power bit, only while the
\* BMM150 is powered itself.
Reaches(a) ==
  /\ present
  /\ held["mag_manual_enable"] = 1
  /\ held["if_mode"] = 2
  /\ power.mag = "normal"
  /\ a = PowerControl \/ magnet[PowerControl] = 1

\* The reaction of the devices to what was written.
Commanded(v) ==
  CASE v = \h11 -> [power EXCEPT !.accel = "normal"]
    [] v = \h12 -> [power EXCEPT !.accel = "low_power"]
    [] v = \h14 -> [power EXCEPT !.gyro = "suspend"]
    [] v = \h15 -> [power EXCEPT !.gyro = "normal"]
    [] v = \h18 -> [power EXCEPT !.mag = "suspend"]
    [] v = \h19 -> [power EXCEPT !.mag = "normal"]
    [] OTHER    -> power
React(f, v) ==
  /\ power' = IF f = "command_register" THEN Commanded(v) ELSE power
  /\ magnet' = IF f = "mag_write_addr" /\ Reaches(v)
               THEN [magnet EXCEPT ![v] = held["mag_write_data"]] ELSE magnet

Holds(condition) ==
  CASE condition = "mag_on" -> ram.interface = 2
    [] condition = "mag_off" -> ram.interface = 0
    [] condition = "manual" -> ram.manual = 1
    [] condition = "not_manual" -> ram.manual # 1
    [] condition = "auto_condition" -> ram.auto_condition = 0
Enabled(i) == \A condition \in i.when : Holds(condition)

-----------------------------------------------------------------------------
\* The execution of an instruction.

\* Its conditions do not hold.
Skip(i) ==
  /\ ~Enabled(i)
  /\ pc' = pc + 1
  /\ UNCHANGED <<device, ram, current, up, mode, clean, counts>>

\* The driver takes down the manual bit whether or not the transfer worked.
Noted(f, v) == IF f = "mag_manual_enable" THEN [ram EXCEPT !.manual = v] ELSE ram

Write(i) ==
  /\ Enabled(i) /\ i.op = "put"
  /\ held' = Changed(i.field, i.value)
  /\ React(i.field, i.value)
  /\ ram' = Noted(i.field, i.value)
  /\ pc' = pc + 1
  /\ UNCHANGED <<present, current, up, mode, clean, counts>>

\* A transfer fails, and nobody is told: the one that writes, or the one that reads
\* the bits around the setting, which are what it costs. What the sensor answers
\* while its second page is selected is not known, so that failures and restarts then
\* are left out.
FirstPage == held["target_page"] = 0
Lost ==
  /\ FirstPage /\ losses < MaxLosses
  /\ clean' = FALSE
  /\ losses' = losses + 1
NotLost == UNCHANGED <<clean, losses>>

FailedWrite(i) ==
  /\ Enabled(i) /\ i.op = "put"
  /\ Lost
  /\ \/ held' = held
     \/ i.field \in SharesRegister /\ held' = Changed(i.field, i.value)
  /\ ram' = Noted(i.field, i.value)
  /\ pc' = pc + 1
  /\ UNCHANGED <<power, magnet, present, current, up, mode, later, restarts>>

\* The magnetometer interface, once at the start of a mode; a read that fails
\* leaves zero.
ReadInterface(i) ==
  /\ Enabled(i) /\ i.op = "get_if_mode"
  /\ \/ NotLost /\ ram' = [ram EXCEPT !.interface = held["if_mode"]]
     \/ Lost /\ ram' = [ram EXCEPT !.interface = 0]
  /\ pc' = pc + 1
  /\ UNCHANGED <<device, current, up, mode, later, restarts>>

\* Has the BMM150 taken the power bit? Up to five times, three transfers each; an
\* answer that is lost counts as no.
Tries == 5
AwakeNow == Reaches(PowerControl) /\ magnet[PowerControl] = 1
GoOn ==
  /\ ram' = [ram EXCEPT !.tries = 0]
  /\ pc' = pc + 1
\* Mutant: tried until it answers.
TriedAlways == pc' = pc - 3 /\ UNCHANGED ram
NotAwake ==
  IF ram.tries + 1 = Tries THEN GoOn
  ELSE /\ ram' = [ram EXCEPT !.tries = @ + 1]
       /\ pc' = pc - 3
CheckAwake(i) ==
  /\ Enabled(i) /\ i.op = "awake"
  /\ \/ NotLost /\ IF AwakeNow THEN GoOn ELSE NotAwake
     \/ Lost /\ NotAwake
  /\ UNCHANGED <<device, current, up, mode, later, restarts>>

\* One of the sixteen trim values, in order: those in memory are good when each of
\* them was answered, and to the address it is read at.
ReadTrim(i) ==
  /\ Enabled(i) /\ i.op = "trim"
  /\ \/ /\ NotLost
        /\ ram' = [ram EXCEPT !.trim = /\ i.value = TrimRegisters[1] \/ ram.trim
                                       /\ Reaches(i.value)
                                       /\ held["mag_read_addr"] = i.value]
     \/ Lost /\ ram' = [ram EXCEPT !.trim = FALSE]
  /\ pc' = pc + 1
  /\ UNCHANGED <<device, current, up, mode, later, restarts>>

SetAutoCondition(i) ==
  /\ Enabled(i) /\ i.op = "auto_condition"
  /\ ram' = [ram EXCEPT !.auto_condition = i.value]
  /\ pc' = pc + 1
  /\ UNCHANGED <<device, current, up, mode, clean, counts>>

\* Is the offset compensation done? Once, and up to ten times more; an answer that is
\* lost reads as no.
Polls == 10
PollFoc(i) ==
  /\ Enabled(i) /\ i.op = "foc_rdy"
  /\ \E ready \in BOOLEAN :
       IF ready \/ ram.tries = Polls
       THEN ram' = [ram EXCEPT !.tries = 0] /\ pc' = pc + 1
       ELSE ram' = [ram EXCEPT !.tries = @ + 1] /\ pc' = pc
  /\ UNCHANGED <<device, current, up, mode, clean, counts>>

\* The end of a mode, and of start-up.
EndMode(i) ==
  /\ Enabled(i) /\ i.op = "mode"
  /\ mode' = i.value
  /\ pc' = pc + 1
  /\ UNCHANGED <<device, ram, current, up, clean, counts>>
EndStartUp(i) ==
  /\ Enabled(i) /\ i.op = "up"
  /\ up' = TRUE
  /\ pc' = pc + 1
  /\ UNCHANGED <<device, ram, current, mode, clean, counts>>

Running == pc <= Len(Code[current])

\* The next instruction of the call under way.
Step ==
  /\ Running
  /\ \E i \in {Code[current][pc]} :
       \/ Skip(i) \/ Write(i) \/ FailedWrite(i) \/ ReadInterface(i) \/ CheckAwake(i)
       \/ ReadTrim(i) \/ SetAutoCondition(i) \/ PollFoc(i) \/ EndMode(i) \/ EndStartUp(i)

\* Another call; those about the magnetometer are made while it is in use.
BeginCall(c) ==
  /\ up /\ ~Running
  /\ later < MaxLater
  /\ c \in Mode \/ mode \in WithMag
  /\ current' = c /\ pc' = 1
  /\ later' = later + 1
  /\ UNCHANGED <<device, ram, up, mode, clean, restarts, losses>>

\* The program starts again.
Restart ==
  /\ FirstPage /\ restarts < MaxRestarts
  /\ restarts' = restarts + 1
  /\ ram' = Zeroed
  /\ current' = "start_up" /\ pc' = 1
  /\ up' = FALSE /\ mode' = "none" /\ clean' = TRUE
  /\ UNCHANGED <<device, later, losses>>

ModesNext ==
  \/ Step
  \/ \E c \in DOMAIN Code \ {"start_up"} : BeginCall(c)
  \/ Restart

\* The sensor task goes on with the call it is in.
ModesSpec == ModesInit /\ [][ModesNext]_modesVars /\ WF_modesVars(Step)

-----------------------------------------------------------------------------
Power == {"suspend", "low_power", "normal"}
ModesTypeOK ==
  /\ held \in [Followed -> 0 .. 255]
  /\ power \in [accel : Power, gyro : Power, mag : Power]
  /\ \A a \in DOMAIN magnet : magnet[a] \in 0 .. 255
  /\ present \in BOOLEAN
  /\ ram \in [interface : 0 .. 3, manual : 0 .. 1, auto_condition : 0 .. 1,
              tries : 0 .. Polls, trim : BOOLEAN]
  /\ current \in DOMAIN Code /\ pc \in 1 .. Len(Code[current]) + 1
  /\ up \in BOOLEAN /\ mode \in Mode \cup {"none"} /\ clean \in BOOLEAN
  /\ later \in 0 .. MaxLater /\ restarts \in 0 .. MaxRestarts /\ losses \in 0 .. MaxLosses

\* The magnetometer delivers data the driver can compensate: on, in automatic mode and
\* known to be, forced mode, the data registers read, all trim values in memory.
MagReady ==
  /\ held["if_mode"] = 2 /\ power.mag = "normal"
  /\ held["mag_manual_enable"] = 0 /\ ram.manual = 0
  /\ magnet[PowerControl] = 1 /\ magnet[PowerMode] = 2
  /\ held["mag_read_addr"] = DataRegister
  /\ ram.trim

\* It is off, with its supply off as well.
MagOff ==
  /\ held["if_mode"] = 0 /\ power.mag = "suspend"
  /\ magnet[PowerControl] = 0

\* Whatever an earlier run of the program left behind in the two devices, cut short or
\* with transfers lost anywhere but while the second page of registers is selected
\* (FirstPage), a run in which none is lost ends its start-up, and
\* every mode after any other, with the magnetometer as the mode needs it: ready, or
\* off. The trim values are in memory, the switches in the devices: only the order of
\* the modes of start-up brings them together again.
ModeReached ==
  up /\ ~Running /\ clean /\ present =>
    IF mode \in WithMag THEN MagReady ELSE MagOff

\* The fast offset compensation is started with both sensors awake: offsets found
\* while one of them sleeps would be added to every later measurement.
CalibratesAwake ==
  Running /\ clean /\ Code[current][pc] = Command(START_FOC) =>
    power.accel = "normal" /\ power.gyro = "normal"

\* Start-up ends, also when the magnetometer does not answer or the compensation is
\* never ready: nothing else of the sensor task runs before.
StartUpEnds == []<>up
=============================================================================
