------------------------------ MODULE MCBmi160 ------------------------------
\* Bmi160 for TLC: of each register with several settings two or three of them.
EXTENDS Bmi160

MCUsed ==
  {accel_output_data_rate, accel_bw, if_mode, step_detector_enable,
   intr_significant_motion_select, input_enable(0), accel_offset_enable, intr_enable_0(4)}

MCObserved ==
  MCUsed \cup Special
    \cup {accel_under_sampling_parameter, step_counter_enable, fifo_wm,
          intr_significant_motion_proof, intr_flat(1), gyro_offset_enable,
          foc_accel_x, foc_accel_y, foc_accel_z, foc_gyro_enable,
          intr_enable_0(0), intr_enable_1(3), intr_enable_1(4), latch_intr, fifo_header_enable}

MCInputs == {0, 1, 6}

\* The device after power-on, taken as zero, and with every bit set.
MCContents == {{}, UNION {Slice(f) : f \in MCObserved}}
=============================================================================
