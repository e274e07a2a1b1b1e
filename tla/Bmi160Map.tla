----------------------------- MODULE Bmi160Map -----------------------------
\* The register map of the motion sensor as the driver uses it
\* (src/examples/azure_project/main/bmi160.c): for every bmi160_get_* and
\* bmi160_set_* function, the register, the position and the width of the bits it
\* reads or writes, and the values its setter accepts. The constants of bmi160.h
\* (<name>__REG, __POS, __LEN) are written out. This is a module of constants; the
\* calls that use the map are in Bmi160Calls.
\*
\* The registers are a set of bits, those that are one; a bit is <<register,
\* position>>.
EXTENDS Integers

Byte == 0 .. 255
Bit == Byte \X (0 .. 7)

\* A field of len bits from bit pos of register reg on, and the arguments its
\* setter does not refuse with E_BMI160_OUT_OF_RANGE. A field that is only read
\* accepts nothing.
Rw(reg, pos, len, values) == [reg |-> reg, pos |-> pos, len |-> len, values |-> values]
Ro(reg, pos, len) == Rw(reg, pos, len, {})

\* The bits of a field, in the order of their weight. A field of sensor data goes
\* on in the next register: the device sends the low byte first.
BitOf(f, i) == <<f.reg + (f.pos + i) \div 8, (f.pos + i) % 8>>
Slice(f) == {BitOf(f, i) : i \in 0 .. f.len - 1}

\* BMI160_SET_BITSLICE: the bits of the field that are one once v is stored in it;
\* what v has beyond the width is masked off.
OnesOf(f, v) == {BitOf(f, i) : i \in {j \in 0 .. f.len - 1 : (v \div 2^j) % 2 = 1}}

\* BMI160_GET_BITSLICE: the number a getter returns.
ValueIn(registers, f) ==
  LET low[n \in 0 .. f.len] ==
        IF n = 0 THEN 0
        ELSE low[n - 1] + (IF BitOf(f, n - 1) \in registers THEN 2^(n - 1) ELSE 0)
  IN  low[f.len]

Register(reg) == {reg} \X (0 .. 7)

\* Errors and power modes, registers 0x02 and 0x03.
fatal_err == Ro(\h02, 0, 1)
err_code == Ro(\h02, 1, 4)
i2c_fail_err == Ro(\h02, 5, 1)
drop_cmd_err == Ro(\h02, 6, 1)
mag_dada_rdy_err == Ro(\h02, 7, 1)
mag_power_mode_stat == Ro(\h03, 0, 2)
gyro_power_mode_stat == Ro(\h03, 2, 2)
accel_power_mode_stat == Ro(\h03, 4, 2)

\* Sensor data, registers 0x04 to 0x1A.
mag_x == Ro(\h04, 3, 13)
mag_y == Ro(\h06, 3, 13)
mag_z == Ro(\h08, 1, 15)
mag_r == Ro(\h0A, 2, 14)
gyro_x == Ro(\h0C, 0, 16)
gyro_y == Ro(\h0E, 0, 16)
gyro_z == Ro(\h10, 0, 16)
accel_x == Ro(\h12, 0, 16)
accel_y == Ro(\h14, 0, 16)
accel_z == Ro(\h16, 0, 16)
sensor_time == Ro(\h18, 0, 24)

\* Status, register 0x1B.
gyro_selftest == Ro(\h1B, 1, 1)
mag_manual_operation_stat == Ro(\h1B, 2, 1)
foc_rdy == Ro(\h1B, 3, 1)
nvm_rdy == Ro(\h1B, 4, 1)
data_rdy_mag == Ro(\h1B, 5, 1)
gyro_data_rdy == Ro(\h1B, 6, 1)
accel_data_rdy == Ro(\h1B, 7, 1)

\* Interrupt status, registers 0x1C to 0x1F.
stat0_step_intr == Ro(\h1C, 0, 1)
stat0_significant_intr == Ro(\h1C, 1, 1)
stat0_any_motion_intr == Ro(\h1C, 2, 1)
stat0_pmu_trigger_intr == Ro(\h1C, 3, 1)
stat0_double_tap_intr == Ro(\h1C, 4, 1)
stat0_single_tap_intr == Ro(\h1C, 5, 1)
stat0_orient_intr == Ro(\h1C, 6, 1)
stat0_flat_intr == Ro(\h1C, 7, 1)
stat1_high_g_intr == Ro(\h1D, 2, 1)
stat1_low_g_intr == Ro(\h1D, 3, 1)
stat1_data_rdy_intr == Ro(\h1D, 4, 1)
stat1_fifo_full_intr == Ro(\h1D, 5, 1)
stat1_fifo_wm_intr == Ro(\h1D, 6, 1)
stat1_nomotion_intr == Ro(\h1D, 7, 1)
stat2_any_motion_first_x == Ro(\h1E, 0, 1)
stat2_any_motion_first_y == Ro(\h1E, 1, 1)
stat2_any_motion_first_z == Ro(\h1E, 2, 1)
stat2_any_motion_sign == Ro(\h1E, 3, 1)
stat2_tap_first_x == Ro(\h1E, 4, 1)
stat2_tap_first_y == Ro(\h1E, 5, 1)
stat2_tap_first_z == Ro(\h1E, 6, 1)
stat2_tap_sign == Ro(\h1E, 7, 1)
stat3_high_g_first_x == Ro(\h1F, 0, 1)
stat3_high_g_first_y == Ro(\h1F, 1, 1)
stat3_high_g_first_z == Ro(\h1F, 2, 1)
stat3_high_g_sign == Ro(\h1F, 3, 1)
stat3_orient_xy == Ro(\h1F, 4, 2)
stat3_orient_z == Ro(\h1F, 6, 1)
stat3_flat == Ro(\h1F, 7, 1)

\* Temperature and FIFO, registers 0x20 to 0x24.
temp == Ro(\h20, 0, 16)
fifo_length == Ro(\h22, 0, 11)

\* Sensor configuration, registers 0x40 to 0x44.
accel_output_data_rate == Rw(\h40, 0, 4, 1..12)
accel_bw == Rw(\h40, 4, 3, 0..7)
accel_under_sampling_parameter == Rw(\h40, 7, 1, 0..7)
accel_range == Rw(\h41, 0, 4, {3, 5, 8, 12})
gyro_output_data_rate == Rw(\h42, 0, 4, 6..13)
gyro_bw == Rw(\h42, 4, 2, 0..3)
gyro_range == Rw(\h43, 0, 3, 0..4)
mag_output_data_rate == Rw(\h44, 0, 4, 1..12)

\* FIFO configuration, registers 0x45 to 0x47.
fifo_down_gyro == Rw(\h45, 0, 3, Byte)
gyro_fifo_filter_data == Rw(\h45, 3, 1, 0..1)
fifo_down_accel == Rw(\h45, 4, 3, Byte)
accel_fifo_filter_data == Rw(\h45, 7, 1, 0..1)
fifo_wm == Rw(\h46, 0, 8, Byte)
fifo_stop_on_full == Rw(\h47, 0, 1, 0..1)
fifo_time_enable == Rw(\h47, 1, 1, 0..1)
fifo_tag_intr2_enable == Rw(\h47, 2, 1, 0..1)
fifo_tag_intr1_enable == Rw(\h47, 3, 1, 0..1)
fifo_header_enable == Rw(\h47, 4, 1, 0..1)
fifo_mag_enable == Rw(\h47, 5, 1, 0..1)
fifo_accel_enable == Rw(\h47, 6, 1, 0..1)
fifo_gyro_enable == Rw(\h47, 7, 1, 0..1)

\* Secondary interface of the magnetometer, registers 0x4B to 0x4F.
i2c_device_addr == Rw(\h4B, 1, 7, Byte)
mag_burst == Rw(\h4C, 0, 2, Byte)
mag_offset == Rw(\h4C, 2, 4, Byte)
mag_manual_enable == Rw(\h4C, 7, 1, Byte)
mag_read_addr == Rw(\h4D, 0, 8, Byte)
mag_write_addr == Rw(\h4E, 0, 8, Byte)
mag_write_data == Rw(\h4F, 0, 8, Byte)

\* Interrupt engines and pins, registers 0x50 to 0x54. c is a channel: the bit of
\* an enable register, or a pin, 0 for INT1 and 1 for INT2.
intr_enable_0(c) == Rw(\h50, c, 1, Byte)
intr_enable_1(c) == Rw(\h51, c, 1, Byte)
intr_enable_2(c) == Rw(\h52, c, 1, Byte)
step_detector_enable == Rw(\h52, 3, 1, Byte)
intr_edge_ctrl(c) == Rw(\h53, 4 * c, 1, Byte)
intr_level(c) == Rw(\h53, 1 + 4 * c, 1, Byte)
intr_output_type(c) == Rw(\h53, 2 + 4 * c, 1, Byte)
output_enable(c) == Rw(\h53, 3 + 4 * c, 1, Byte)
latch_intr == Rw(\h54, 0, 4, 0..15)
input_enable(c) == Rw(\h54, 4 + c, 1, Byte)

\* Interrupts mapped to the pins, registers 0x55 to 0x57.
intr_low_g(c) == Rw(\h55 + 2 * c, 0, 1, Byte)
intr_high_g(c) == Rw(\h55 + 2 * c, 1, 1, Byte)
intr_any_motion(c) == Rw(\h55 + 2 * c, 2, 1, Byte)
intr_nomotion(c) == Rw(\h55 + 2 * c, 3, 1, Byte)
intr_double_tap(c) == Rw(\h55 + 2 * c, 4, 1, Byte)
intr_single_tap(c) == Rw(\h55 + 2 * c, 5, 1, Byte)
intr_orient(c) == Rw(\h55 + 2 * c, 6, 1, Byte)
intr_flat(c) == Rw(\h55 + 2 * c, 7, 1, Byte)
intr_pmu_trig(c) == Rw(\h56, 4 - 4 * c, 1, Byte)
intr_fifo_full(c) == Rw(\h56, 5 - 4 * c, 1, Byte)
intr_fifo_wm(c) == Rw(\h56, 6 - 4 * c, 1, Byte)
intr_data_rdy(c) == Rw(\h56, 7 - 4 * c, 1, Byte)

\* Interrupt data sources and thresholds, registers 0x58 to 0x68.
intr_tap_source == Rw(\h58, 3, 1, 0..1)
intr_low_high_source == Rw(\h58, 7, 1, 0..1)
intr_motion_source == Rw(\h59, 7, 1, 0..1)
intr_low_g_durn == Rw(\h5A, 0, 8, Byte)
intr_low_g_thres == Rw(\h5B, 0, 8, Byte)
intr_low_g_hyst == Rw(\h5C, 0, 2, Byte)
intr_low_g_mode == Rw(\h5C, 2, 1, 0..1)
intr_high_g_hyst == Rw(\h5C, 6, 2, Byte)
intr_high_g_durn == Rw(\h5D, 0, 8, Byte)
intr_high_g_thres == Rw(\h5E, 0, 8, Byte)
intr_any_motion_durn == Rw(\h5F, 0, 2, Byte)
intr_slow_no_motion_durn == Rw(\h5F, 2, 6, Byte)
intr_any_motion_thres == Rw(\h60, 0, 8, Byte)
intr_slow_no_motion_thres == Rw(\h61, 0, 8, Byte)
intr_slow_no_motion_select == Rw(\h62, 0, 1, 0..1)
intr_significant_motion_select == Rw(\h62, 1, 1, 0..1)
intr_significant_motion_skip == Rw(\h62, 2, 2, 0..7)
intr_significant_motion_proof == Rw(\h62, 4, 2, 0..7)
intr_tap_durn == Rw(\h63, 0, 3, 0..7)
intr_tap_shock == Rw(\h63, 6, 1, 0..1)
intr_tap_quiet == Rw(\h63, 7, 1, 0..1)
intr_tap_thres == Rw(\h64, 0, 5, Byte)
intr_orient_mode == Rw(\h65, 0, 2, 0..3)
intr_orient_blocking == Rw(\h65, 2, 2, 0..3)
intr_orient_hyst == Rw(\h65, 4, 4, Byte)
intr_orient_theta == Rw(\h66, 0, 6, 0..31)
intr_orient_ud_enable == Rw(\h66, 6, 1, 0..1)
intr_orient_axes_enable == Rw(\h66, 7, 1, 0..1)
intr_flat_theta == Rw(\h67, 0, 6, 0..31)
intr_flat_hold == Rw(\h68, 4, 2, 0..3)
intr_flat_hyst == Rw(\h68, 0, 4, 0..15)

\* Fast offset compensation, interfaces and self-test, registers 0x69 to 0x70.
foc_accel_z == Rw(\h69, 0, 2, Byte)
foc_accel_y == Rw(\h69, 2, 2, 0..3)
foc_accel_x == Rw(\h69, 4, 2, 0..3)
foc_gyro_enable == Rw(\h69, 6, 1, Byte)
nvm_prog_enable == Rw(\h6A, 1, 1, 0..1)
spi3 == Rw(\h6B, 0, 1, 0..1)
i2c_wdt_select == Rw(\h70, 1, 1, 0..1)
i2c_wdt_enable == Rw(\h70, 2, 1, 0..1)
if_mode == Rw(\h6B, 4, 2, 0..4)
gyro_sleep_trigger == Rw(\h6C, 0, 3, 0..7)
gyro_wakeup_trigger == Rw(\h6C, 3, 2, 0..3)
gyro_sleep_state == Rw(\h6C, 5, 1, 0..1)
gyro_wakeup_intr == Rw(\h6C, 6, 1, 0..1)
accel_selftest_axis == Rw(\h6D, 0, 2, 0..3)
accel_selftest_sign == Rw(\h6D, 2, 1, 0..1)
accel_selftest_amp == Rw(\h6D, 3, 1, 0..1)
gyro_selftest_start == Rw(\h6D, 4, 1, 0..1)
spi_enable == Rw(\h70, 0, 1, Byte)
spare0_trim == Rw(\h70, 3, 1, Byte)
nvm_counter == Rw(\h70, 4, 4, Byte)

\* Offsets, registers 0x71 to 0x77; a gyroscope offset has its high bits in 0x77.
accel_offset_compensation_xaxis == Rw(\h71, 0, 8, Byte)
accel_offset_compensation_yaxis == Rw(\h72, 0, 8, Byte)
accel_offset_compensation_zaxis == Rw(\h73, 0, 8, Byte)
gyro_offset_x_low == Rw(\h74, 0, 8, Byte)
gyro_offset_x_high == Rw(\h77, 0, 2, Byte)
gyro_offset_y_low == Rw(\h75, 0, 8, Byte)
gyro_offset_y_high == Rw(\h77, 2, 2, Byte)
gyro_offset_z_low == Rw(\h76, 0, 8, Byte)
gyro_offset_z_high == Rw(\h77, 4, 2, Byte)
accel_offset_enable == Rw(\h77, 6, 1, Byte)
gyro_offset_enable == Rw(\h77, 7, 1, Byte)

\* Step counter, registers 0x78 to 0x7B.
step_count == Ro(\h78, 0, 16)
step_config_0 == Rw(\h7A, 0, 8, Byte)
step_config_1 == Rw(\h7B, 0, 3, Byte)
step_config_2 == Rw(\h7B, 4, 4, Byte)
step_counter_enable == Rw(\h7B, 3, 1, 0..2)

\* Commands and pages, registers 0x7E to 0x85.
command_register == Rw(\h7E, 0, 8, Byte)
target_page == Rw(\h7F, 4, 2, 0..3)
paging_enable == Rw(\h7F, 7, 1, 0..1)
pullup_configuration == Rw(\h85, 4, 2, 0..3)

\* What the driver reads together.
error_status == {fatal_err, err_code, i2c_fail_err, drop_cmd_err, mag_dada_rdy_err}
mag_xyz == {mag_x, mag_y, mag_z}
mag_xyzr == mag_xyz \cup {mag_r}
gyro_xyz == {gyro_x, gyro_y, gyro_z}
accel_xyz == {accel_x, accel_y, accel_z}

\* The fields the driver only reads: the device writes them.
InterruptStatus ==
  {stat0_step_intr, stat0_significant_intr, stat0_any_motion_intr,
   stat0_pmu_trigger_intr, stat0_double_tap_intr, stat0_single_tap_intr,
   stat0_orient_intr, stat0_flat_intr, stat1_high_g_intr, stat1_low_g_intr,
   stat1_data_rdy_intr, stat1_fifo_full_intr, stat1_fifo_wm_intr,
   stat1_nomotion_intr, stat2_any_motion_first_x, stat2_any_motion_first_y,
   stat2_any_motion_first_z, stat2_any_motion_sign, stat2_tap_first_x,
   stat2_tap_first_y, stat2_tap_first_z, stat2_tap_sign, stat3_high_g_first_x,
   stat3_high_g_first_y, stat3_high_g_first_z, stat3_high_g_sign, stat3_orient_xy,
   stat3_orient_z, stat3_flat}
ReadOnly ==
  error_status \cup mag_xyzr \cup gyro_xyz \cup accel_xyz \cup InterruptStatus
    \cup {mag_power_mode_stat, gyro_power_mode_stat, accel_power_mode_stat,
          sensor_time, gyro_selftest, mag_manual_operation_stat, foc_rdy, nvm_rdy,
          data_rdy_mag, gyro_data_rdy, accel_data_rdy, temp, fifo_length,
          step_count}

\* The fields that have a setter.
SensorSettings ==
  {accel_output_data_rate, accel_bw, accel_under_sampling_parameter, accel_range,
   gyro_output_data_rate, gyro_bw, gyro_range, mag_output_data_rate,
   fifo_down_gyro, gyro_fifo_filter_data, fifo_down_accel, accel_fifo_filter_data,
   fifo_wm, fifo_stop_on_full, fifo_time_enable, fifo_tag_intr2_enable,
   fifo_tag_intr1_enable, fifo_header_enable, fifo_mag_enable, fifo_accel_enable,
   fifo_gyro_enable, i2c_device_addr, mag_burst, mag_offset, mag_manual_enable,
   mag_read_addr, mag_write_addr, mag_write_data}
InterruptSettings ==
  {step_detector_enable, latch_intr, intr_tap_source, intr_low_high_source,
   intr_motion_source, intr_low_g_durn, intr_low_g_thres, intr_low_g_hyst,
   intr_low_g_mode, intr_high_g_hyst, intr_high_g_durn, intr_high_g_thres,
   intr_any_motion_durn, intr_slow_no_motion_durn, intr_any_motion_thres,
   intr_slow_no_motion_thres, intr_slow_no_motion_select,
   intr_significant_motion_select, intr_significant_motion_skip,
   intr_significant_motion_proof, intr_tap_durn, intr_tap_shock, intr_tap_quiet,
   intr_tap_thres, intr_orient_mode, intr_orient_blocking, intr_orient_hyst,
   intr_orient_theta, intr_orient_ud_enable, intr_orient_axes_enable,
   intr_flat_theta, intr_flat_hold, intr_flat_hyst}
OtherSettings ==
  {foc_accel_z, foc_accel_y, foc_accel_x, foc_gyro_enable, nvm_prog_enable, spi3,
   i2c_wdt_select, i2c_wdt_enable, if_mode, gyro_sleep_trigger,
   gyro_wakeup_trigger, gyro_sleep_state, gyro_wakeup_intr, accel_selftest_axis,
   accel_selftest_sign, accel_selftest_amp, gyro_selftest_start, spi_enable,
   spare0_trim, nvm_counter, accel_offset_compensation_xaxis,
   accel_offset_compensation_yaxis, accel_offset_compensation_zaxis,
   gyro_offset_x_low, gyro_offset_x_high, gyro_offset_y_low, gyro_offset_y_high,
   gyro_offset_z_low, gyro_offset_z_high, accel_offset_enable, gyro_offset_enable,
   step_config_0, step_config_1, step_config_2, step_counter_enable,
   command_register, target_page, paging_enable, pullup_configuration}
PinSettings ==
  UNION {{intr_edge_ctrl(c), intr_level(c), intr_output_type(c), output_enable(c),
          input_enable(c), intr_low_g(c), intr_high_g(c), intr_any_motion(c),
          intr_nomotion(c), intr_double_tap(c), intr_single_tap(c), intr_orient(c),
          intr_flat(c), intr_pmu_trig(c), intr_fifo_full(c), intr_fifo_wm(c),
          intr_data_rdy(c)} : c \in 0 .. 1}
EnableSettings ==
  {intr_enable_0(c) : c \in {0, 1, 2, 4, 5, 6, 7}} \cup {intr_enable_1(c) : c \in 0 .. 6}
    \cup {intr_enable_2(c) : c \in 0 .. 2}
Writable ==
  SensorSettings \cup InterruptSettings \cup OtherSettings \cup PinSettings \cup EnableSettings
Field == ReadOnly \cup Writable

\* A field the driver writes lies in one register, and no two fields share a bit.
ASSUME WritableAssumption ==
  \A f \in Writable :
    /\ f.reg \in Byte
    /\ f.pos \in 0 .. 7 /\ f.len \in 1 .. 8 /\ f.pos + f.len <= 8
ASSUME FieldAssumption ==
  \A f, g \in Field : f # g => Slice(f) \cap Slice(g) = {}
=============================================================================
