----------------------------- MODULE Bmi160Calls ----------------------------
\* The calls of the motion sensor driver as sequences of register accesses
\* (src/examples/azure_project/main/bmi160.c, and the running modes of
\* bmi160_support.c). An access reads one register, replaces the bits of one field
\* and writes the register back; it knows what it leaves when its read failed. The
\* bus functions answer 0 whether or not the transfer worked (bmi160_support.c:
\* 618-693), so no call ever stops on a failed transfer: every `if (com_rslt ==
\* SUCCESS)' of the driver holds.
EXTENDS Bmi160Map, Sequences

\* An access: the register, the bits it assigns (region) and those of them that
\* become one (ones); whether it reads the register first; what the buffer of the
\* read holds beforehand, which is written back when the read failed: bits that are
\* one in it (found) and bits it holds as the device does (kept); and whether it is
\* left out when the field already holds its value (ensure), as the driver finds with
\* a read of its own.
Store(f, v) ==
  [reg |-> f.reg, region |-> Slice(f), ones |-> OnesOf(f, v),
   reads |-> f.len < 8, found |-> {}, kept |-> {}, ensure |-> FALSE]
Ensure(f, v) == [Store(f, v) EXCEPT !.ensure = TRUE]

\* bmi160_write_reg: the whole register, without a read.
WholeRegister(reg) == Rw(reg, 0, 8, Byte)
write_reg(reg, v) == Store(WholeRegister(reg), v)

\* Mutant: the byte read is not merged, the rest of the register becomes zero.
NotMerged(registers, a) == (registers \ Register(a.reg)) \cup a.ones

Stored(registers, a) == (registers \ a.region) \cup a.ones

\* The read failed: v_data_u8 still holds what it held, zero in most calls.
Spoilt(registers, a) ==
  LET held == registers \ (Register(a.reg) \ a.kept)
  IN  ((held \cup a.found) \ a.region) \cup a.ones

Needed(registers, a) == a.ensure => registers \cap a.region # a.ones

\* A call: its accesses, its answer, and what the settings it names hold after it.
Call(accesses, answer, holds) ==
  [accesses |-> accesses, answer |-> answer, holds |-> holds]
OutOfRange(accesses) == Call(accesses, "out_of_range", {})

\* bmi160_set_<f>(v).
Set(f, v) ==
  IF v \in f.values THEN Call(<<Store(f, v)>>, "success", {<<f, v % 2^f.len>>})
  ELSE OutOfRange(<<>>)

\* The FIFO tag of a pin needs the pin as an input.
fifo_tag_intr_enable(c) == IF c = 0 THEN fifo_tag_intr1_enable ELSE fifo_tag_intr2_enable
set_fifo_tag_intr_enable(c, v) ==
  IF v \in 0 .. 1
  THEN Call(<<Store(input_enable(c), v), Store(fifo_tag_intr_enable(c), v)>>, "success",
            {<<input_enable(c), v>>, <<fifo_tag_intr_enable(c), v>>})
  ELSE OutOfRange(<<>>)

\* Mutant: the step counter stays on.
StepCounterOn(c, v) ==
  LET steps == <<Ensure(step_detector_enable, 0), Ensure(step_detector_enable, 0)>>
  IN  IF c \in 0 .. 1
      THEN Call(Append(steps, Store(intr_low_g(c), v)), "success",
                {<<intr_low_g(c), v % 2>>, <<step_detector_enable, 0>>,
                 <<step_counter_enable, 0>>})
      ELSE OutOfRange(steps)

\* The low-g interrupt shares its engine with the step detector and the step
\* counter, which are switched off before, whatever the channel.
set_intr_low_g(c, v) ==
  LET steps == <<Ensure(step_detector_enable, 0), Ensure(step_counter_enable, 0)>>
  IN  IF c \in 0 .. 1
      THEN Call(Append(steps, Store(intr_low_g(c), v)), "success",
                {<<intr_low_g(c), v % 2>>, <<step_detector_enable, 0>>,
                 <<step_counter_enable, 0>>})
      ELSE OutOfRange(steps)

\* Any motion shares its engine with significant motion.
set_intr_any_motion(c, v) ==
  LET motion == <<Ensure(intr_significant_motion_select, 0)>>
  IN  IF c \in 0 .. 1
      THEN Call(Append(motion, Store(intr_any_motion(c), v)), "success",
                {<<intr_any_motion(c), v % 2>>, <<intr_significant_motion_select, 0>>})
      ELSE OutOfRange(motion)

\* These two write the whole map and enable registers: every other interrupt mapped
\* to that pin, and every other interrupt enabled in that register, is lost.
map_significant_motion_intr(c) ==
  LET motion == <<Ensure(intr_significant_motion_select, 1)>>
  IN  IF c \in 0 .. 1
      THEN Call(motion \o <<write_reg(\h55 + 2 * c, 4), write_reg(\h50, 7)>>, "success",
                {<<intr_significant_motion_select, 1>>, <<intr_any_motion(c), 1>>}
                  \cup {<<intr_enable_0(axis), 1>> : axis \in 0 .. 2})
      ELSE OutOfRange(motion)
map_step_detector_intr(c) ==
  LET steps == <<Ensure(step_detector_enable, 1)>>
  IN  IF c \in 0 .. 1
      THEN Call(steps \o <<write_reg(\h55 + 2 * c, 1), write_reg(\h51, 8)>>, "success",
                {<<step_detector_enable, 1>>, <<intr_low_g(c), 1>>, <<intr_enable_1(3), 1>>})
      ELSE OutOfRange(steps)

\* No field lies only partly in a register that is written as a whole.
ASSUME WholeRegisterAssumption ==
  \A reg \in {\h50, \h51, \h55, \h57}, f \in Field :
    Slice(f) \subseteq Register(reg) \/ Slice(f) \cap Register(reg) = {}

\* Manual offsets: the compensation is switched on first. A gyroscope offset has ten
\* bits; when the read of its second register fails, the buffer still holds the byte
\* written to the first.
AccelOffsets ==
  {accel_offset_compensation_xaxis, accel_offset_compensation_yaxis,
   accel_offset_compensation_zaxis}
set_accel_offset_compensation(f, v) ==
  Call(<<Store(accel_offset_enable, 1), Store(f, v)>>, "success",
       {<<accel_offset_enable, 1>>, <<f, v>>})
GyroOffsets ==
  {<<gyro_offset_x_low, gyro_offset_x_high>>, <<gyro_offset_y_low, gyro_offset_y_high>>,
   <<gyro_offset_z_low, gyro_offset_z_high>>}
set_gyro_offset_compensation(pair, v) ==
  LET low  == v % 256
      high == (v \div 256) % 4
  IN  Call(<<Store(gyro_offset_enable, 1), Store(pair[1], low),
             [Store(pair[2], high) EXCEPT !.found = OnesOf(WholeRegister(pair[2].reg), low)]>>,
           "success",
           {<<gyro_offset_enable, 1>>, <<pair[1], low>>, <<pair[2], high>>})

\* The step configuration: bits 0 to 7, 8 to 10 and 12 to 15 of the argument. The
\* third access reads into the buffer of the second, which holds the same register
\* with the second part in it: when that read fails, the second part is written once
\* more. (After a failure of the second read and of the second write as well, the
\* buffer holds zero elsewhere; that the register is then cleared is left out.)
set_step_config(v) ==
  LET parts == <<v % 256, (v \div 256) % 8, v \div 4096>>
  IN  Call(<<Store(step_config_0, parts[1]), Store(step_config_1, parts[2]),
             [Store(step_config_2, parts[3]) EXCEPT
                !.found = OnesOf(step_config_1, parts[2]),
                !.kept = Register(step_config_2.reg) \ Slice(step_config_1)]>>, "success",
           {<<step_config_0, parts[1]>>, <<step_config_1, parts[2]>>,
            <<step_config_2, parts[3]>>})
set_step_mode(mode) ==
  CASE mode = 0 -> set_step_config(\h315)
    [] mode = 1 -> set_step_config(\h2D)
    [] mode = 2 -> set_step_config(\h71D)
    [] OTHER    -> OutOfRange(<<>>)
clear_step_counter == Set(command_register, \hB2)

\* Fast offset compensation, up to the command that starts it; waiting for it and
\* reading the offsets back changes no setting.
START_FOC_ACCEL_GYRO == 3
FocAxis == <<foc_accel_x, foc_accel_y, foc_accel_z>>
set_accel_foc_trigger(axis, v) ==
  IF axis \in 0 .. 2
  THEN Call(<<Store(accel_offset_enable, 1), Store(FocAxis[axis + 1], v),
              Store(command_register, START_FOC_ACCEL_GYRO)>>, "success",
            {<<accel_offset_enable, 1>>, <<FocAxis[axis + 1], v % 4>>})
  ELSE Call(<<Store(accel_offset_enable, 1)>>, "error", {})
accel_foc_trigger_xyz(x, y, z) ==
  Call(<<Store(accel_offset_enable, 1), Store(foc_accel_x, x), Store(foc_accel_y, y),
         Store(foc_accel_z, z), Store(command_register, START_FOC_ACCEL_GYRO)>>, "success",
       {<<accel_offset_enable, 1>>, <<foc_accel_x, x % 4>>, <<foc_accel_y, y % 4>>,
        <<foc_accel_z, z % 4>>})
set_foc_gyro_enable(v) ==
  Call(<<Store(gyro_offset_enable, 1), Store(foc_gyro_enable, v),
         Store(command_register, START_FOC_ACCEL_GYRO)>>, "success",
       {<<gyro_offset_enable, 1>>, <<foc_gyro_enable, v % 2>>})
=============================================================================
