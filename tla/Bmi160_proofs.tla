--------------------------- MODULE Bmi160_proofs ---------------------------
\* Proofs about Bmi160 and Bmi160Modes. First Bmi160: the variables keep to their
\* domains, the read-modify-write of registers that settings share implements Settings,
\* and a call that succeeds leaves in the settings it names what was asked for, as their
\* getters read it; whatever the fields in use, their contents, the arguments, and the
\* number of calls and of failures. Of the register map the proofs use the three
\* assumptions that TLC evaluates on it and the places of the fields that calls name
\* together.
\*
\* Then Bmi160Modes: the place in the program, the sensors the
\* compensation needs awake, and the magnetometer as every mode needs it; whatever the
\* number of calls, restarts and lost transfers.
EXTENDS Bmi160, Bmi160Modes, SequenceTheorems, TLAPS

-----------------------------------------------------------------------------
\* The accesses the driver makes: inside one register, and over whole fields.

GoodAccess ==
  {a \in AccessType :
     /\ a.region \subseteq Register(a.reg)
     /\ a.ones \subseteq a.region
     /\ a.found \subseteq Register(a.reg)
     /\ a.kept \subseteq Register(a.reg)
     /\ \A f \in Field : Slice(f) \subseteq a.region \/ Slice(f) \cap a.region = {}}

\* A register of the device is made of bits of the device.
LEMMA RegisterBits == \A reg \in Byte : Register(reg) \subseteq Bit
  BY DEF Register, Bit

\* A stored number sets bits of the field only.
LEMMA OnesInSlice == ASSUME NEW f, NEW v PROVE OnesOf(f, v) \subseteq Slice(f)
  BY Zenon DEF OnesOf, Slice

\* The whole register is the register.
LEMMA WholeBits ==
  ASSUME NEW reg \in Byte, NEW i \in 0 .. 7
  PROVE  BitOf(WholeRegister(reg), i) = <<reg, i>>
<1>1. (0 + i) \div 8 = 0 /\ (0 + i) % 8 = i
  OBVIOUS
<1>2. reg + 0 = reg
  BY DEF Byte
<1>. QED BY <1>1, <1>2 DEF BitOf, WholeRegister, Rw

LEMMA WholeSlice == ASSUME NEW reg \in Byte PROVE Slice(WholeRegister(reg)) = Register(reg)
<1>1. Slice(WholeRegister(reg)) = {BitOf(WholeRegister(reg), i) : i \in 0 .. 7}
  BY DEF Slice, WholeRegister, Rw
<1>2. Slice(WholeRegister(reg)) = {<<reg, i>> : i \in 0 .. 7}
  BY <1>1, WholeBits
<1>. QED BY <1>2 DEF Register

\* The bits of a field that has a setter, and its register.
LEMMA BitPlace ==
  ASSUME NEW f \in Writable, NEW i \in 0 .. f.len - 1
  PROVE  BitOf(f, i) = <<f.reg, f.pos + i>> /\ f.pos + i \in 0 .. 7
<1>1. f.reg \in Byte /\ f.pos \in 0 .. 7 /\ f.len \in 1 .. 8 /\ f.pos + f.len <= 8
  BY WritableAssumption
<1>2. f.pos + i \in 0 .. 7
  BY <1>1
<1>3. (f.pos + i) \div 8 = 0 /\ (f.pos + i) % 8 = f.pos + i
  BY <1>2
<1>4. f.reg + 0 = f.reg
  BY <1>1 DEF Byte
<1>. QED BY <1>2, <1>3, <1>4 DEF BitOf

LEMMA WritableSlice ==
  ASSUME NEW f \in Writable
  PROVE  Slice(f) \subseteq Register(f.reg)
  BY BitPlace DEF Slice, Register

LEMMA MakeAccess ==
  ASSUME NEW reg \in Byte, NEW region \in SUBSET Register(reg), NEW ones \in SUBSET region,
         NEW found \in SUBSET Register(reg), NEW kept \in SUBSET Register(reg),
         NEW reads \in BOOLEAN, NEW ensure \in BOOLEAN,
         \A f \in Field : Slice(f) \subseteq region \/ Slice(f) \cap region = {}
  PROVE  [reg |-> reg, region |-> region, ones |-> ones, reads |-> reads,
          found |-> found, kept |-> kept, ensure |-> ensure] \in GoodAccess
<1>. DEFINE a == [reg |-> reg, region |-> region, ones |-> ones, reads |-> reads,
                  found |-> found, kept |-> kept, ensure |-> ensure]
<1>1. /\ region \in SUBSET Bit /\ ones \in SUBSET Bit
      /\ found \in SUBSET Bit /\ kept \in SUBSET Bit
  BY RegisterBits
<1>2. a \in AccessType
  BY <1>1 DEF AccessType
<1>. QED BY <1>2 DEF GoodAccess

\* Every access to a field that has a setter is a good one.
LEMMA StoreGood ==
  ASSUME NEW f \in Writable, NEW v
  PROVE  Store(f, v) \in GoodAccess
<1>1. f.reg \in Byte /\ Slice(f) \in SUBSET Register(f.reg)
  BY WritableAssumption, WritableSlice
<1>2. f \in Field
  BY DEF Field
<1>3. \A g \in Field : Slice(g) \subseteq Slice(f) \/ Slice(g) \cap Slice(f) = {}
  BY <1>2, FieldAssumption
<1>4. OnesOf(f, v) \in SUBSET Slice(f)
  BY OnesInSlice
<1>5. (f.len < 8) \in BOOLEAN
  OBVIOUS
<1>6. {} \in SUBSET Register(f.reg) /\ FALSE \in BOOLEAN
  OBVIOUS
<1>. HIDE DEF Store
<1>. QED BY <1>1, <1>3, <1>4, <1>5, <1>6, MakeAccess DEF Store

\* So are the variants of it.
LEMMA VariantGood ==
  ASSUME NEW a \in GoodAccess, NEW found \in SUBSET Register(a.reg),
         NEW kept \in SUBSET Register(a.reg)
  PROVE  /\ [a EXCEPT !.ensure = TRUE] \in GoodAccess
         /\ [a EXCEPT !.ensure = FALSE] \in GoodAccess
         /\ [a EXCEPT !.found = found] \in GoodAccess
         /\ [a EXCEPT !.found = found, !.kept = kept] \in GoodAccess
<1>1. found \in SUBSET Bit /\ kept \in SUBSET Bit
  BY RegisterBits DEF GoodAccess, AccessType
<1>2. [a EXCEPT !.ensure = TRUE] \in GoodAccess
  BY DEF GoodAccess, AccessType
<1>3. [a EXCEPT !.ensure = FALSE] \in GoodAccess
  BY DEF GoodAccess, AccessType
<1>4. [a EXCEPT !.found = found] \in GoodAccess
  BY <1>1 DEF GoodAccess, AccessType
<1>5. [a EXCEPT !.found = found, !.kept = kept] \in GoodAccess
  BY <1>1 DEF GoodAccess, AccessType
<1>. QED BY <1>2, <1>3, <1>4, <1>5

LEMMA EnsureGood ==
  ASSUME NEW f \in Writable, NEW v
  PROVE  Ensure(f, v) \in GoodAccess
<1>. DEFINE a == Store(f, v)
<1>1. a \in GoodAccess
  BY StoreGood
<1>2. {} \in SUBSET Register(a.reg)
  OBVIOUS
<1>3. [a EXCEPT !.ensure = TRUE] \in GoodAccess
  <2>. HIDE DEF a
  <2>. QED BY <1>1, <1>2, VariantGood
<1>. QED BY <1>3 DEF Ensure

LEMMA WriteGood ==
  ASSUME NEW reg \in {\h50, \h51, \h55, \h57}, NEW v
  PROVE  write_reg(reg, v) \in GoodAccess
<1>. DEFINE w == WholeRegister(reg)
<1>1. reg \in Byte
  BY DEF Byte
<1>2. w.reg = reg /\ (w.len < 8) \in BOOLEAN
  BY DEF WholeRegister, Rw
<1>3. Slice(w) = Register(reg)
  BY <1>1, WholeSlice
<1>4. \A g \in Field : Slice(g) \subseteq Slice(w) \/ Slice(g) \cap Slice(w) = {}
  BY <1>3, WholeRegisterAssumption
<1>5. OnesOf(w, v) \in SUBSET Slice(w)
  BY OnesInSlice
<1>6. {} \in SUBSET Register(reg) /\ FALSE \in BOOLEAN /\ Slice(w) \in SUBSET Register(reg)
  BY <1>3
<1>. HIDE DEF w
<1>7. Store(w, v) \in GoodAccess
  BY <1>1, <1>2, <1>4, <1>5, <1>6, MakeAccess DEF Store
<1>. QED BY <1>7 DEF write_reg, w

-----------------------------------------------------------------------------
\* Every call is made of good accesses.

Good(c) == c.accesses \in Seq(GoodAccess)

LEMMA CallGood ==
  ASSUME NEW accesses \in Seq(GoodAccess), NEW answer, NEW holds
  PROVE  Good(Call(accesses, answer, holds))
  BY DEF Good, Call

\* One, two, three or five accesses in a row.
LEMMA Sequences ==
  /\ <<>> \in Seq(GoodAccess)
  /\ \A a \in GoodAccess : <<a>> \in Seq(GoodAccess)
  /\ \A a, b \in GoodAccess : <<a, b>> \in Seq(GoodAccess)
  /\ \A a, b, c \in GoodAccess : <<a, b, c>> \in Seq(GoodAccess)
  /\ \A a, b, c, d, e \in GoodAccess : <<a, b, c, d, e>> \in Seq(GoodAccess)
<1>1. <<>> \in Seq(GoodAccess)
  OBVIOUS
<1>2. \A a \in GoodAccess : <<a>> \in Seq(GoodAccess)
  OBVIOUS
<1>3. \A a, b \in GoodAccess : <<a, b>> \in Seq(GoodAccess)
  OBVIOUS
<1>4. \A a, b, c \in GoodAccess : <<a, b, c>> \in Seq(GoodAccess)
  OBVIOUS
<1>5. \A a, b, c, d, e \in GoodAccess : <<a, b, c, d, e>> \in Seq(GoodAccess)
  OBVIOUS
<1>. QED BY <1>1, <1>2, <1>3, <1>4, <1>5

\* The fields the calls name have setters.
LEMMA NamedWritable ==
  /\ \A c \in 0 .. 1 : /\ input_enable(c) \in Writable
                       /\ fifo_tag_intr_enable(c) \in Writable
                       /\ intr_low_g(c) \in Writable
                       /\ intr_any_motion(c) \in Writable
  /\ step_detector_enable \in Writable /\ step_counter_enable \in Writable
  /\ intr_significant_motion_select \in Writable
  /\ accel_offset_enable \in Writable /\ gyro_offset_enable \in Writable
  /\ AccelOffsets \subseteq Writable
  /\ \A pair \in GyroOffsets : pair[1] \in Writable /\ pair[2] \in Writable
  /\ step_config_0 \in Writable /\ step_config_1 \in Writable /\ step_config_2 \in Writable
  /\ command_register \in Writable /\ foc_gyro_enable \in Writable
  /\ foc_accel_x \in Writable /\ foc_accel_y \in Writable /\ foc_accel_z \in Writable
<1>1. \A c \in 0 .. 1 : /\ input_enable(c) \in Writable
                        /\ intr_low_g(c) \in Writable
                        /\ intr_any_motion(c) \in Writable
  BY DEF Writable, PinSettings
<1>2. \A c \in 0 .. 1 : fifo_tag_intr_enable(c) \in Writable
  BY DEF Writable, SensorSettings, fifo_tag_intr_enable
<1>3. step_detector_enable \in Writable /\ intr_significant_motion_select \in Writable
  BY DEF Writable, InterruptSettings
<1>4. /\ step_counter_enable \in Writable /\ accel_offset_enable \in Writable
      /\ gyro_offset_enable \in Writable /\ step_config_0 \in Writable
      /\ step_config_1 \in Writable /\ step_config_2 \in Writable
      /\ command_register \in Writable /\ foc_gyro_enable \in Writable
      /\ foc_accel_x \in Writable /\ foc_accel_y \in Writable /\ foc_accel_z \in Writable
  BY DEF Writable, OtherSettings
<1>5. AccelOffsets \subseteq Writable
  BY DEF Writable, OtherSettings, AccelOffsets
<1>6. \A pair \in GyroOffsets : pair[1] \in Writable /\ pair[2] \in Writable
  BY DEF Writable, OtherSettings, GyroOffsets
<1>. QED BY <1>1, <1>2, <1>3, <1>4, <1>5, <1>6

LEMMA PlainGood ==
  /\ \A f \in Writable : \A v : Good(Set(f, v))
  /\ \A c, v : c \in 0 .. 1 => Good(set_fifo_tag_intr_enable(c, v))
<1>1. \A f \in Writable : \A v : Good(Set(f, v))
  BY StoreGood, CallGood, Sequences DEF Set, OutOfRange
<1>2. \A c, v : c \in 0 .. 1 => Good(set_fifo_tag_intr_enable(c, v))
  BY NamedWritable, StoreGood, CallGood, Sequences DEF set_fifo_tag_intr_enable, OutOfRange
<1>. QED BY <1>1, <1>2

\* The calls about interrupts that share an engine, with any channel.
LEMMA SharedGood ==
  ASSUME NEW c, NEW v
  PROVE  Good(set_intr_low_g(c, v)) /\ Good(set_intr_any_motion(c, v))
<1>1. Good(set_intr_low_g(c, v))
  <2>. DEFINE d == Ensure(step_detector_enable, 0)
              e == Ensure(step_counter_enable, 0)
              s == Store(intr_low_g(c), v)
  <2>1. d \in GoodAccess /\ e \in GoodAccess
    BY NamedWritable, EnsureGood
  <2>2. CASE c \in 0 .. 1
    <3>1. s \in GoodAccess
      BY <2>2, NamedWritable, StoreGood
    <3>. HIDE DEF d, e, s
    <3>2. Append(<<d, e>>, s) \in Seq(GoodAccess)
      BY <2>1, <3>1, Sequences
    <3>. QED BY <2>2, <3>2, CallGood DEF set_intr_low_g, d, e, s
  <2>3. CASE c \notin 0 .. 1
    <3>1. <<d, e>> \in Seq(GoodAccess)
      BY <2>1, Sequences
    <3>. QED BY <2>3, <3>1, CallGood DEF set_intr_low_g, OutOfRange
  <2>. QED BY <2>2, <2>3
<1>2. Good(set_intr_any_motion(c, v))
  <2>. DEFINE m == Ensure(intr_significant_motion_select, 0)
              s == Store(intr_any_motion(c), v)
  <2>1. m \in GoodAccess
    BY NamedWritable, EnsureGood
  <2>2. CASE c \in 0 .. 1
    <3>1. s \in GoodAccess
      BY <2>2, NamedWritable, StoreGood
    <3>. HIDE DEF m, s
    <3>2. Append(<<m>>, s) \in Seq(GoodAccess)
      BY <2>1, <3>1, Sequences
    <3>. QED BY <2>2, <3>2, CallGood DEF set_intr_any_motion, m, s
  <2>3. CASE c \notin 0 .. 1
    <3>1. <<m>> \in Seq(GoodAccess)
      BY <2>1, Sequences
    <3>. QED BY <2>3, <3>1, CallGood DEF set_intr_any_motion, OutOfRange
  <2>. QED BY <2>2, <2>3
<1>. QED BY <1>1, <1>2

\* The calls that write whole registers.
LEMMA WholeGood ==
  ASSUME NEW c \in Pin
  PROVE  Good(map_significant_motion_intr(c)) /\ Good(map_step_detector_intr(c))
<1>1. c \in 0 .. 1 => \h55 + 2 * c \in {\h50, \h51, \h55, \h57}
  OBVIOUS
<1>2. Good(map_significant_motion_intr(c))
  <2>. DEFINE m == Ensure(intr_significant_motion_select, 1)
              w == write_reg(\h55 + 2 * c, 4)
              e == write_reg(\h50, 7)
  <2>1. m \in GoodAccess /\ e \in GoodAccess /\ (c \in 0 .. 1 => w \in GoodAccess)
    BY <1>1, NamedWritable, EnsureGood, WriteGood
  <2>. HIDE DEF m, w, e
  <2>2. <<m>> \in Seq(GoodAccess) /\ (c \in 0 .. 1 => <<m>> \o <<w, e>> \in Seq(GoodAccess))
    BY <2>1, Sequences
  <2>3. CASE c \in 0 .. 1
    BY <2>2, <2>3, CallGood DEF map_significant_motion_intr, m, w, e
  <2>4. CASE c \notin 0 .. 1
    BY <2>2, <2>4, CallGood DEF map_significant_motion_intr, OutOfRange, m, w, e
  <2>. QED BY <2>3, <2>4
<1>3. Good(map_step_detector_intr(c))
  <2>. DEFINE d == Ensure(step_detector_enable, 1)
              w == write_reg(\h55 + 2 * c, 1)
              e == write_reg(\h51, 8)
  <2>1. d \in GoodAccess /\ e \in GoodAccess /\ (c \in 0 .. 1 => w \in GoodAccess)
    BY <1>1, NamedWritable, EnsureGood, WriteGood
  <2>. HIDE DEF d, w, e
  <2>2. <<d>> \in Seq(GoodAccess) /\ (c \in 0 .. 1 => <<d>> \o <<w, e>> \in Seq(GoodAccess))
    BY <2>1, Sequences
  <2>3. CASE c \in 0 .. 1
    BY <2>2, <2>3, CallGood DEF map_step_detector_intr, d, w, e
  <2>4. CASE c \notin 0 .. 1
    BY <2>2, <2>4, CallGood DEF map_step_detector_intr, OutOfRange, d, w, e
  <2>. QED BY <2>3, <2>4
<1>. QED BY <1>2, <1>3

\* The offsets, the steps, and the fast compensation.
LEMMA OffsetGood ==
  /\ \A f \in AccelOffsets : \A v : Good(set_accel_offset_compensation(f, v))
  /\ \A pair \in GyroOffsets : \A v : Good(set_gyro_offset_compensation(pair, v))
<1>1. \A f \in AccelOffsets : \A v : Good(set_accel_offset_compensation(f, v))
  BY NamedWritable, StoreGood, CallGood, Sequences DEF set_accel_offset_compensation
<1>2. ASSUME NEW pair \in GyroOffsets, NEW v
      PROVE  Good(set_gyro_offset_compensation(pair, v))
  <2>. DEFINE low == v % 256
              found == OnesOf(WholeRegister(pair[2].reg), low)
              e == Store(gyro_offset_enable, 1)
              l == Store(pair[1], low)
              h == Store(pair[2], (v \div 256) % 4)
              s == [h EXCEPT !.found = found]
              holds == {<<gyro_offset_enable, 1>>, <<pair[1], low>>,
                        <<pair[2], (v \div 256) % 4>>}
  <2>1. e \in GoodAccess /\ l \in GoodAccess /\ h \in GoodAccess
    BY NamedWritable, StoreGood
  <2>2. pair[2].reg \in Byte
    BY NamedWritable, WritableAssumption
  <2>3. found \in SUBSET Register(pair[2].reg)
    BY <2>2, OnesInSlice, WholeSlice
  <2>4. h.reg = pair[2].reg
    BY DEF Store
  <2>. HIDE DEF found, e, l, h
  <2>5. s \in GoodAccess
    BY <2>1, <2>3, <2>4, VariantGood
  <2>. HIDE DEF s
  <2>6. <<e, l, s>> \in Seq(GoodAccess)
    BY <2>1, <2>5, Sequences
  <2>7. set_gyro_offset_compensation(pair, v) = Call(<<e, l, s>>, "success", holds)
    BY Zenon DEF set_gyro_offset_compensation, s, h, l, e, found
  <2>. HIDE DEF holds
  <2>. QED BY <2>6, <2>7, CallGood
<1>. QED BY <1>1, <1>2

LEMMA StepGood ==
  /\ \A m : Good(set_step_mode(m))
  /\ Good(clear_step_counter)
<1>1. ASSUME NEW v PROVE Good(set_step_config(v))
  <2>. DEFINE p == v % 256
              q == (v \div 256) % 8
              r == v \div 4096
              a == Store(step_config_0, p)
              b == Store(step_config_1, q)
              c == Store(step_config_2, r)
              found == OnesOf(step_config_1, q)
              kept == Register(step_config_2.reg) \ Slice(step_config_1)
              d == [c EXCEPT !.found = found, !.kept = kept]
              holds == {<<step_config_0, p>>, <<step_config_1, q>>, <<step_config_2, r>>}
  <2>1. set_step_config(v) = Call(<<a, b, d>>, "success", holds)
    <3>1. LET parts == <<p, q, r>>
          IN  parts[1] = p /\ parts[2] = q /\ parts[3] = r
      OBVIOUS
    <3>. QED BY <3>1 DEF set_step_config
  <2>2. a \in GoodAccess /\ b \in GoodAccess /\ c \in GoodAccess
    BY NamedWritable, StoreGood
  <2>3. found \in SUBSET Register(c.reg) /\ kept \in SUBSET Register(c.reg)
    <3>1. c.reg = step_config_2.reg /\ step_config_1.reg = step_config_2.reg
      BY DEF Store, step_config_1, step_config_2, Rw
    <3>2. Slice(step_config_1) \subseteq Register(step_config_1.reg)
      BY NamedWritable, WritableSlice
    <3>. QED BY <3>1, <3>2, OnesInSlice
  <2>. HIDE DEF a, b, c, found, kept
  <2>4. d \in GoodAccess
    BY <2>2, <2>3, VariantGood
  <2>. HIDE DEF d
  <2>5. <<a, b, d>> \in Seq(GoodAccess)
    BY <2>2, <2>4, Sequences
  <2>. HIDE DEF holds
  <2>. QED BY <2>5, <2>1, CallGood
<1>2. Good(OutOfRange(<<>>))
  BY CallGood, Sequences DEF OutOfRange
<1>3. ASSUME NEW m PROVE Good(set_step_mode(m))
  BY <1>1, <1>2 DEF set_step_mode
<1>4. Good(clear_step_counter)
  BY NamedWritable, PlainGood DEF clear_step_counter
<1>. QED BY <1>3, <1>4

LEMMA FocGood ==
  /\ \A axis \in 0 .. 3 : \A v : Good(set_accel_foc_trigger(axis, v))
  /\ \A x, y, z : Good(accel_foc_trigger_xyz(x, y, z))
  /\ \A v : Good(set_foc_gyro_enable(v))
<1>1. ASSUME NEW axis \in 0 .. 3, NEW v PROVE Good(set_accel_foc_trigger(axis, v))
  <2>. DEFINE a == Store(accel_offset_enable, 1)
              b == Store(FocAxis[axis + 1], v)
              c == Store(command_register, START_FOC_ACCEL_GYRO)
  <2>1. a \in GoodAccess /\ c \in GoodAccess
    BY NamedWritable, StoreGood
  <2>2. CASE axis \in 0 .. 2
    <3>1. FocAxis[axis + 1] \in Writable
      BY <2>2, NamedWritable DEF FocAxis
    <3>2. b \in GoodAccess
      BY <3>1, StoreGood
    <3>. HIDE DEF a, b, c
    <3>3. <<a, b, c>> \in Seq(GoodAccess)
      BY <2>1, <3>2, Sequences
    <3>. QED BY <2>2, <3>3, CallGood DEF set_accel_foc_trigger, a, b, c
  <2>3. CASE axis \notin 0 .. 2
    <3>. HIDE DEF a, c
    <3>1. <<a>> \in Seq(GoodAccess)
      BY <2>1, Sequences
    <3>. QED BY <2>3, <3>1, CallGood DEF set_accel_foc_trigger, a
  <2>. QED BY <2>2, <2>3
<1>2. ASSUME NEW x, NEW y, NEW z PROVE Good(accel_foc_trigger_xyz(x, y, z))
  BY NamedWritable, StoreGood, CallGood, Sequences DEF accel_foc_trigger_xyz
<1>3. ASSUME NEW v PROVE Good(set_foc_gyro_enable(v))
  BY NamedWritable, StoreGood, CallGood, Sequences DEF set_foc_gyro_enable
<1>. QED BY <1>1, <1>2, <1>3

LEMMA CallsGood == \A c \in Calls : Good(c)
<1>1. Used \subseteq Writable
  BY ConstantsAssumption
<1>2. \A f \in Used, v \in Inputs : Good(Set(f, v))
  BY <1>1, PlainGood
<1>3. \A c \in 0 .. 1, v \in Inputs : Good(set_fifo_tag_intr_enable(c, v))
  BY PlainGood
<1>4. \A c \in Pin, v \in Inputs :
        Good(set_intr_low_g(c, v)) /\ Good(set_intr_any_motion(c, v))
  BY SharedGood
<1>5. \A c \in Pin : Good(map_significant_motion_intr(c)) /\ Good(map_step_detector_intr(c))
  BY WholeGood
<1>. HIDE DEF Good
<1>. QED BY <1>2, <1>3, <1>4, <1>5, OffsetGood, StepGood, FocGood DEF Calls

-----------------------------------------------------------------------------
\* The invariant: the accesses still to be made are good ones.

IInv ==
  /\ TypeOK
  /\ todo \in Seq(GoodAccess)

LEMMA Weaker == Seq(GoodAccess) \subseteq Seq(AccessType)
  BY DEF GoodAccess

\* The next access, and what is left after it.
LEMMA NextAccess ==
  ASSUME IInv, todo # <<>>
  PROVE  Head(todo) \in GoodAccess /\ Tail(todo) \in Seq(GoodAccess)
  BY DEF IInv

\* No access leaves the device.
LEMMA StaysInDevice ==
  ASSUME NEW bits \in SUBSET Bit, NEW a \in GoodAccess
  PROVE  Stored(bits, a) \in SUBSET Bit /\ Spoilt(bits, a) \in SUBSET Bit
  BY DEF Stored, Spoilt, GoodAccess, AccessType

LEMMA InitInv == Init => IInv
<1>. SUFFICES ASSUME Init PROVE IInv
  OBVIOUS
<1>1. todo \in Seq(GoodAccess)
  BY DEF Init
<1>2. registers \subseteq Bit
  BY ConstantsAssumption DEF Init
<1>3. calls \in 0 .. MaxCalls /\ failures \in 0 .. MaxFailures
  BY ConstantsAssumption DEF Init
<1>. QED BY <1>1, <1>2, <1>3, Weaker DEF Init, IInv, TypeOK

LEMMA NextInv == IInv /\ [Next]_vars => IInv'
<1>. SUFFICES ASSUME IInv, [Next]_vars PROVE IInv'
  OBVIOUS
<1>. USE ConstantsAssumption
<1>1. ASSUME NEW c \in Calls, Begin(c) PROVE IInv'
  <2>1. todo' \in Seq(GoodAccess)
    BY <1>1, CallsGood DEF Begin, Good
  <2>2. calls' \in 0 .. MaxCalls
    BY <1>1 DEF Begin, IInv, TypeOK
  <2>. QED BY <1>1, <2>1, <2>2, Weaker DEF Begin, IInv, TypeOK
<1>2. CASE Access
  <2>1. Head(todo) \in GoodAccess /\ todo' \in Seq(GoodAccess)
    BY <1>2, NextAccess DEF Access
  <2>2. registers' \in SUBSET Bit
    BY <1>2, <2>1, StaysInDevice DEF Access, IInv, TypeOK
  <2>. QED BY <1>2, <2>1, <2>2, Weaker DEF Access, IInv, TypeOK
<1>3. CASE FailedAccess
  <2>1. Head(todo) \in GoodAccess /\ todo' \in Seq(GoodAccess)
    BY <1>3, NextAccess DEF FailedAccess
  <2>2. registers' \in SUBSET Bit
    <3>1. registers \in SUBSET Bit
      BY DEF IInv, TypeOK
    <3>2. Spoilt(registers, Head(todo)) \in SUBSET Bit
      BY <2>1, <3>1, StaysInDevice
    <3>3. registers' = registers \/ registers' = Spoilt(registers, Head(todo))
      BY <1>3 DEF FailedAccess
    <3>. QED BY <3>1, <3>2, <3>3
  <2>3. failures' \in 0 .. MaxFailures
    BY <1>3 DEF FailedAccess, IInv, TypeOK
  <2>. QED BY <1>3, <2>1, <2>2, <2>3, Weaker DEF FailedAccess, IInv, TypeOK
<1>4. CASE FailedLook
  <2>1. Head(todo) \in GoodAccess /\ Tail(todo) \in Seq(GoodAccess)
    BY <1>4, NextAccess DEF FailedLook
  <2>2. [Head(todo) EXCEPT !.ensure = FALSE] \in GoodAccess
    BY <2>1, VariantGood
  <2>3. todo' \in Seq(GoodAccess)
    BY <1>4, <2>1, <2>2 DEF FailedLook
  <2>4. failures' \in 0 .. MaxFailures
    BY <1>4 DEF FailedLook, IInv, TypeOK
  <2>. QED BY <1>4, <2>3, <2>4, Weaker DEF FailedLook, IInv, TypeOK
<1>5. CASE UNCHANGED vars
  BY <1>5 DEF vars, IInv, TypeOK
<1>. QED BY <1>1, <1>2, <1>3, <1>4, <1>5 DEF Next

THEOREM Invariance == Spec => []IInv
  BY InitInv, NextInv, PTL DEF Spec

\* The variables keep to their domains; no access of the driver leaves the eight bits
\* of a register of the device.
THEOREM TypeCorrect == Spec => []TypeOK
<1>1. IInv => TypeOK
  BY DEF IInv
<1>. QED BY <1>1, Invariance, PTL

-----------------------------------------------------------------------------
\* The refinement. The settings of the abstract specification:

Held == [f \in Observed |-> registers \cap SliceOf[f]]

\* A field lies wholly in what an access assigns, or wholly outside it.
LEMMA Covered ==
  ASSUME NEW a \in GoodAccess, NEW f \in Observed
  PROVE  /\ SliceOf[f] = Slice(f)
         /\ SliceOf[f] \subseteq a.region \/ SliceOf[f] \cap a.region = {}
<1>1. f \in Field
  BY ConstantsAssumption
<1>. QED BY <1>1 DEF SliceOf, GoodAccess

LEMMA InitPromise == Init => Promise!Init
  BY DEF Init, Promise!Init

\* An access assigns what it is meant to and nothing else.
LEMMA AccessAssigns == IInv /\ Access => Promise!Assign
<1>. SUFFICES ASSUME IInv, Access PROVE Promise!Assign
  OBVIOUS
<1>. DEFINE a == Head(todo)
<1>1. a \in GoodAccess
  BY NextAccess DEF Access
<1>2. ASSUME NEW f \in Observed
      PROVE  registers' \cap SliceOf[f] =
               IF f \in DOMAIN Assignment THEN Assignment[f] ELSE Held[f]
  <2>1. CASE f \in Named
    <3>1. SliceOf[f] \subseteq a.region /\ Assignment[f] = a.ones \cap SliceOf[f]
      BY <1>1, <2>1, Covered DEF Named, Assignment
    <3>2. registers' \cap SliceOf[f] = a.ones \cap SliceOf[f]
      BY <3>1 DEF Access, Stored, Needed
    <3>. QED BY <2>1, <3>1, <3>2 DEF Assignment
  <2>2. CASE f \notin Named
    <3>1. SliceOf[f] \cap a.region = {}
      BY <2>2 DEF Named, Access
    <3>2. a.ones \subseteq a.region
      BY <1>1 DEF GoodAccess
    <3>3. registers' \cap SliceOf[f] = registers \cap SliceOf[f]
      BY <3>1, <3>2 DEF Access, Stored
    <3>. QED BY <2>2, <3>3 DEF Assignment, Held
  <2>. QED BY <2>1, <2>2
<1>3. failures' = failures
  BY DEF Access
<1>4. SliceOf' = SliceOf
  BY DEF SliceOf
<1>. QED BY <1>2, <1>3, <1>4 DEF Promise!Assign, Held

\* A failed one is not made, or damages at most the other fields of its register.
LEMMA FailureDamages == IInv /\ FailedAccess => Promise!Forgo \/ Promise!Damage
<1>. SUFFICES ASSUME IInv, FailedAccess PROVE Promise!Forgo \/ Promise!Damage
  OBVIOUS
<1>. DEFINE a == Head(todo)
            lost == {f \in Observed : SliceOf[f] \cap Register(a.reg) # {}}
<1>1. a \in GoodAccess
  BY NextAccess DEF FailedAccess
<1>2. SliceOf' = SliceOf
  BY DEF SliceOf
<1>3. failures' = failures + 1
  BY DEF FailedAccess
<1>4. CASE registers' = registers
  BY <1>2, <1>3, <1>4 DEF Promise!Forgo
<1>5. CASE registers' = Spoilt(registers, a)
  <2>1. lost \in Neighbours
    BY <1>1 DEF Neighbours, GoodAccess, AccessType
  <2>2. DOMAIN Assignment \subseteq lost
    BY <1>1 DEF Assignment, Named, GoodAccess
  <2>3. ASSUME NEW f \in Named
        PROVE  registers' \cap SliceOf[f] = Assignment[f]
    <3>1. SliceOf[f] \subseteq a.region /\ Assignment[f] = a.ones \cap SliceOf[f]
      BY <1>1, Covered DEF Named, Assignment
    <3>. QED BY <1>5, <3>1 DEF Spoilt
  <2>4. ASSUME NEW f \in Observed, f \notin lost
        PROVE  registers' \cap SliceOf[f] = registers \cap SliceOf[f]
    <3>1. SliceOf[f] \cap Register(a.reg) = {}
      BY <2>4
    <3>2. a.found \cup a.region \cup a.ones \subseteq Register(a.reg)
      BY <1>1 DEF GoodAccess
    <3>. QED BY <1>5, <3>1, <3>2 DEF Spoilt
  <2>5. Held' = [f \in Observed |-> IF f \in DOMAIN Assignment THEN Assignment[f]
                                   ELSE IF f \in lost THEN Held'[f] ELSE Held[f]]
    <3>1. DOMAIN Assignment = Named /\ Named \subseteq Observed
      BY DEF Assignment, Named
    <3>. HIDE DEF lost
    <3>. QED BY <1>2, <2>3, <2>4, <3>1 DEF Held
  <2>. HIDE DEF lost
  <2>. QED BY <1>3, <2>1, <2>2, <2>5 DEF Promise!Damage, Held
<1>. QED BY <1>4, <1>5 DEF FailedAccess

\* A failed look leaves the device alone.
LEMMA LookForgoes == FailedLook => Promise!Forgo
<1>1. SliceOf' = SliceOf
  BY DEF SliceOf
<1>. QED BY <1>1 DEF FailedLook, Promise!Forgo

\* Between two accesses nothing is assigned.
LEMMA BeginIdles == ASSUME NEW c, Begin(c) PROVE Promise!Assign
<1>1. DOMAIN Assignment = {}
  BY DEF Begin, Assignment, Named
<1>2. SliceOf' = SliceOf
  BY DEF SliceOf
<1>3. Held' = [f \in Observed |->
                 IF f \in DOMAIN Assignment THEN Assignment[f] ELSE Held[f]]
  BY <1>1, <1>2 DEF Held, Begin
<1>4. failures' = failures
  BY DEF Begin
<1>. QED BY <1>3, <1>4 DEF Promise!Assign, Held

LEMMA NextPromise == IInv /\ [Next]_vars => [Promise!Next]_(Promise!vars)
<1>. SUFFICES ASSUME IInv, [Next]_vars PROVE [Promise!Next]_(Promise!vars)
  OBVIOUS
<1>1. CASE Access
  BY <1>1, AccessAssigns DEF Promise!Next
<1>2. CASE FailedAccess
  BY <1>2, FailureDamages DEF Promise!Next
<1>3. CASE \E c \in Calls : Begin(c)
  BY <1>3, BeginIdles DEF Promise!Next
<1>4. CASE FailedLook
  BY <1>4, LookForgoes DEF Promise!Next
<1>5. CASE UNCHANGED vars
  <2>1. SliceOf' = SliceOf
    BY DEF SliceOf
  <2>2. Named' = Named
    BY <1>5, <2>1 DEF Named, vars
  <2>3. Assignment' = Assignment
    BY <1>5, <2>1, <2>2 DEF Assignment, vars
  <2>. QED BY <1>5, <2>1, <2>3 DEF Promise!vars, vars
<1>. QED BY <1>1, <1>2, <1>3, <1>4, <1>5 DEF Next

\* The read-modify-write of registers that settings share implements settings that
\* are independent of each other, with any fields followed, any arguments and
\* any number of failed transfers.
THEOREM ImplementsSettings == Spec => IsSettings
  BY InitPromise, NextPromise, Invariance, PTL DEF Spec, IsSettings, Promise!Spec

-----------------------------------------------------------------------------
\* What is stored in a field is read back from it.

LEMMA Powers ==
  /\ 2^0 = 1 /\ 2^1 = 2 /\ 2^2 = 4 /\ 2^3 = 8 /\ 2^4 = 16
  /\ 2^5 = 32 /\ 2^6 = 64 /\ 2^7 = 128 /\ 2^8 = 256
<1>1. 2^0 = 1 /\ 2^1 = 2
  OBVIOUS
<1>2. 2^2 = 2 * 2^1 /\ 2^3 = 2 * 2^2 /\ 2^4 = 2 * 2^3 /\ 2^5 = 2 * 2^4
  OBVIOUS
<1>3. 2^6 = 2 * 2^5 /\ 2^7 = 2 * 2^6 /\ 2^8 = 2 * 2^7
  OBVIOUS
<1>. QED BY <1>1, <1>2, <1>3

\* One bit more of a number.
LEMMA OneBitMore ==
  ASSUME NEW v \in Nat, NEW n \in 1 .. 8
  PROVE  v % 2^n = (v % 2^(n - 1)) + (IF (v \div 2^(n - 1)) % 2 = 1 THEN 2^(n - 1) ELSE 0)
<1>1. n \in {1, 2, 3, 4, 5, 6, 7, 8}
  OBVIOUS
<1>2. CASE n = 1
  BY <1>2, Powers
<1>3. CASE n = 2
  BY <1>3, Powers
<1>4. CASE n = 3
  BY <1>4, Powers
<1>5. CASE n = 4
  BY <1>5, Powers
<1>6. CASE n = 5
  BY <1>6, Powers
<1>7. CASE n = 6
  BY <1>7, Powers
<1>8. CASE n = 7
  BY <1>8, Powers
<1>9. CASE n = 8
  BY <1>9, Powers
<1>. QED BY <1>1, <1>2, <1>3, <1>4, <1>5, <1>6, <1>7, <1>8, <1>9

\* The bits of a field that a stored number sets.
LEMMA OnesAt ==
  ASSUME NEW f \in Writable, NEW v \in Nat, NEW i \in 0 .. f.len - 1
  PROVE  BitOf(f, i) \in OnesOf(f, v) <=> (v \div 2^i) % 2 = 1
<1>1. ASSUME NEW j \in 0 .. f.len - 1, BitOf(f, i) = BitOf(f, j)
      PROVE  i = j
  <2>1. f.pos + i = f.pos + j
    BY <1>1, BitPlace
  <2>2. f.pos \in 0 .. 7 /\ f.len \in Int
    BY WritableAssumption
  <2>. QED BY <2>1, <2>2
<1>. QED BY <1>1 DEF OnesOf

LEMMA ReadBack ==
  ASSUME NEW f \in Writable, NEW bits, NEW v \in Nat, bits \cap Slice(f) = OnesOf(f, v)
  PROVE  ValueIn(bits, f) = v % 2^f.len
<1>. DEFINE Sum(low) == [n \in 0 .. f.len |->
               IF n = 0 THEN 0
               ELSE low[n - 1] + (IF BitOf(f, n - 1) \in bits THEN 2^(n - 1) ELSE 0)]
            w == [n \in 0 .. f.len |-> v % 2^n]
            low == CHOOSE low : low = Sum(low)
<1>1. f.len \in 1 .. 8
  BY WritableAssumption
<1>2. \A n \in 1 .. f.len :
        BitOf(f, n - 1) \in bits <=> (v \div 2^(n - 1)) % 2 = 1
  <2> SUFFICES ASSUME NEW n \in 1 .. f.len
               PROVE  BitOf(f, n - 1) \in bits <=> (v \div 2^(n - 1)) % 2 = 1
    OBVIOUS
  <2>1. n - 1 \in 0 .. f.len - 1
    BY <1>1
  <2>2. BitOf(f, n - 1) \in Slice(f)
    BY <2>1 DEF Slice
  <2>. QED BY <2>1, <2>2, OnesAt
<1>3. w = Sum(w)
  <2>1. ASSUME NEW n \in 0 .. f.len
        PROVE  w[n] = Sum(w)[n]
    <3>1. CASE n = 0
      <4>1. w[0] = 0
        BY <1>1, Powers
      <4>. QED BY <3>1, <4>1
    <3>2. CASE n # 0
      <4>1. n \in 1 .. 8 /\ n \in 1 .. f.len /\ n - 1 \in 0 .. f.len
        BY <1>1, <3>2
      <4>2. w[n] = w[n - 1] + (IF (v \div 2^(n - 1)) % 2 = 1 THEN 2^(n - 1) ELSE 0)
        BY <4>1, OneBitMore
      <4>. QED BY <1>2, <3>2, <4>1, <4>2
    <3>. QED BY <3>1, <3>2
  <2>. QED BY <2>1
<1>4. low = Sum(low)
  <2>. HIDE DEF Sum, w
  <2>. QED BY <1>3, Zenon
<1>5. /\ low[0] = 0
      /\ \A n \in 1 .. f.len : low[n] = low[n - 1]
                     + (IF (v \div 2^(n - 1)) % 2 = 1 THEN 2^(n - 1) ELSE 0)
  <2>. HIDE DEF low
  <2>1. \A n \in 0 .. f.len : low[n] = Sum(low)[n]
    BY <1>4
  <2>2. 0 \in 0 .. f.len /\ \A n \in 1 .. f.len : n \in 0 .. f.len /\ n # 0
    BY <1>1
  <2>. QED BY <1>2, <2>1, <2>2
<1>. HIDE DEF low
<1>6. \A n \in 1 .. f.len : low[n - 1] = v % 2^(n - 1) => low[n] = v % 2^n
  <2> SUFFICES ASSUME NEW n \in 1 .. f.len, low[n - 1] = v % 2^(n - 1)
               PROVE  low[n] = v % 2^n
    OBVIOUS
  <2>1. n \in 1 .. 8
    BY <1>1
  <2>. QED BY <1>5, <2>1, OneBitMore
<1>7. low[f.len] = v % 2^f.len
  <2>. DEFINE P(n) == n <= f.len => low[n] = v % 2^n
  <2>1. P(0)
    BY <1>5, Powers
  <2>2. ASSUME NEW n \in 1 .. 8, P(n - 1)
        PROVE  P(n)
    BY <1>1, <1>6, <2>2
  <2>. HIDE DEF P
  <2>3. P(1) /\ P(2) /\ P(3) /\ P(4)
    BY <2>1, <2>2
  <2>4. P(5) /\ P(6) /\ P(7) /\ P(8)
    BY <2>2, <2>3
  <2>5. \A n \in 1 .. 8 : P(n)
    BY <2>3, <2>4
  <2>6. P(f.len)
    BY <1>1, <2>5
  <2>7. f.len <= f.len
    BY <1>1
  <2>. QED BY <2>6, <2>7 DEF P
<1>. QED BY <1>7 DEF ValueIn, low

-----------------------------------------------------------------------------
\* What each call does to the settings it names.

\* An access leaves the bits of the field alone, or makes them those of v.
Assigns(a, f, v) == Slice(f) \cap a.region = {} \/ a.ones \cap Slice(f) = OnesOf(f, v)
Covers(a, f) == Slice(f) \subseteq a.region

\* Every access assigns to the field, if anything, the same number, one that is read
\* back as w; and one does.
Sets(accesses, f, w) ==
  /\ f \in Writable
  /\ \E v \in Nat :
       /\ w = v % 2^f.len
       /\ \A i \in 1 .. Len(accesses) : Assigns(accesses[i], f, v)
       /\ \E i \in 1 .. Len(accesses) : Covers(accesses[i], f)

Keeps(c) ==
  c.answer = "success" => \A h \in c.holds : Sets(c.accesses, h[1], h[2])

\* A call keeps what each of its pairs says.
LEMMA CallKeeps ==
  ASSUME NEW accesses, NEW answer, NEW holds,
         \A h \in holds : Sets(accesses, h[1], h[2])
  PROVE  Keeps(Call(accesses, answer, holds))
  BY DEF Keeps, Call

LEMMA RefusalKeeps ==
  ASSUME NEW accesses, NEW answer
  PROVE  /\ Keeps(OutOfRange(accesses))
         /\ Keeps(Call(accesses, answer, {}))
  BY DEF Keeps, OutOfRange, Call

\* The same of a call of one, two, three or five accesses.
LEMMA SetsOne ==
  ASSUME NEW f \in Writable, NEW v \in Nat, NEW a,
         Assigns(a, f, v), Covers(a, f)
  PROVE  Sets(<<a>>, f, v % 2^f.len)
<1>. DEFINE s == <<a>>
<1>1. Len(s) = 1 /\ s[1] = a
  OBVIOUS
<1>2. 1 .. 1 = {1}
  OBVIOUS
<1>. HIDE DEF s
<1>3. /\ \A i \in 1 .. Len(s) : Assigns(s[i], f, v)
      /\ \E i \in 1 .. Len(s) : Covers(s[i], f)
  BY <1>1, <1>2
<1>4. Sets(s, f, v % 2^f.len)
  BY <1>3 DEF Sets
<1>. QED BY <1>4 DEF s

LEMMA SetsTwo ==
  ASSUME NEW f \in Writable, NEW v \in Nat, NEW a, NEW b,
         Assigns(a, f, v), Assigns(b, f, v), Covers(a, f) \/ Covers(b, f)
  PROVE  Sets(<<a, b>>, f, v % 2^f.len)
<1>. DEFINE s == <<a, b>>
<1>1. Len(s) = 2 /\ s[1] = a /\ s[2] = b
  OBVIOUS
<1>2. 1 .. 2 = {1, 2}
  OBVIOUS
<1>. HIDE DEF s
<1>3. /\ \A i \in 1 .. Len(s) : Assigns(s[i], f, v)
      /\ \E i \in 1 .. Len(s) : Covers(s[i], f)
  BY <1>1, <1>2
<1>4. Sets(s, f, v % 2^f.len)
  BY <1>3 DEF Sets
<1>. QED BY <1>4 DEF s

LEMMA SetsThree ==
  ASSUME NEW f \in Writable, NEW v \in Nat, NEW a, NEW b, NEW c,
         Assigns(a, f, v), Assigns(b, f, v), Assigns(c, f, v),
         Covers(a, f) \/ Covers(b, f) \/ Covers(c, f)
  PROVE  Sets(<<a, b, c>>, f, v % 2^f.len)
<1>. DEFINE s == <<a, b, c>>
<1>1. Len(s) = 3 /\ s[1] = a /\ s[2] = b /\ s[3] = c
  OBVIOUS
<1>2. 1 .. 3 = {1, 2, 3}
  OBVIOUS
<1>. HIDE DEF s
<1>3. /\ \A i \in 1 .. Len(s) : Assigns(s[i], f, v)
      /\ \E i \in 1 .. Len(s) : Covers(s[i], f)
  BY <1>1, <1>2
<1>4. Sets(s, f, v % 2^f.len)
  BY <1>3 DEF Sets
<1>. QED BY <1>4 DEF s

LEMMA SetsFive ==
  ASSUME NEW f \in Writable, NEW v \in Nat, NEW a, NEW b, NEW c, NEW d, NEW e,
         Assigns(a, f, v), Assigns(b, f, v), Assigns(c, f, v), Assigns(d, f, v),
         Assigns(e, f, v),
         Covers(a, f) \/ Covers(b, f) \/ Covers(c, f) \/ Covers(d, f) \/ Covers(e, f)
  PROVE  Sets(<<a, b, c, d, e>>, f, v % 2^f.len)
<1>. DEFINE s == <<a, b, c, d, e>>
<1>1. Len(s) = 5 /\ s[1] = a /\ s[2] = b /\ s[3] = c /\ s[4] = d /\ s[5] = e
  OBVIOUS
<1>2. 1 .. 5 = {1, 2, 3, 4, 5}
  OBVIOUS
<1>. HIDE DEF s
<1>3. /\ \A i \in 1 .. Len(s) : Assigns(s[i], f, v)
      /\ \E i \in 1 .. Len(s) : Covers(s[i], f)
  BY <1>1, <1>2
<1>4. Sets(s, f, v % 2^f.len)
  BY <1>3 DEF Sets
<1>. QED BY <1>4 DEF s

\* An access to a field assigns to it what is stored, and nothing to any other field.
LEMMA StoreAssigns ==
  ASSUME NEW f \in Writable, NEW v
  PROVE  /\ Assigns(Store(f, v), f, v) /\ Covers(Store(f, v), f)
         /\ Assigns(Ensure(f, v), f, v) /\ Covers(Ensure(f, v), f)
         /\ \A g \in Writable : \A u :
              g # f => Assigns(Store(g, u), f, v) /\ Assigns(Ensure(g, u), f, v)
<1>1. \A g, u : /\ Store(g, u).region = Slice(g) /\ Store(g, u).ones = OnesOf(g, u)
                /\ Ensure(g, u).region = Slice(g) /\ Ensure(g, u).ones = OnesOf(g, u)
  BY DEF Store, Ensure
<1>2. OnesOf(f, v) \cap Slice(f) = OnesOf(f, v)
  BY OnesInSlice
<1>3. \A g \in Writable : g # f => Slice(f) \cap Slice(g) = {}
  BY FieldAssumption DEF Field
<1>. QED BY <1>1, <1>2, <1>3 DEF Assigns, Covers

\* So do the variants of it whose buffer holds something else.
LEMMA VariantAssigns ==
  ASSUME NEW f, NEW v, NEW g, NEW u, NEW found
  PROVE  /\ Assigns([Store(g, u) EXCEPT !.found = found], f, v) <=> Assigns(Store(g, u), f, v)
         /\ Covers([Store(g, u) EXCEPT !.found = found], f) <=> Covers(Store(g, u), f)
  BY DEF Assigns, Covers, Store

\* A whole register assigns one to the one-bit fields whose bit is one in it.
LEMMA WholeAssigns ==
  ASSUME NEW reg \in Byte, NEW v \in Nat, NEW f \in Writable
  PROVE  /\ f.reg # reg => \A u : Assigns(write_reg(reg, v), f, u)
         /\ f.reg = reg /\ f.len = 1 /\ (v \div 2^f.pos) % 2 = 1 =>
              Assigns(write_reg(reg, v), f, 1) /\ Covers(write_reg(reg, v), f)
<1>. DEFINE w == WholeRegister(reg)
<1>1. write_reg(reg, v).region = Register(reg) /\ write_reg(reg, v).ones = OnesOf(w, v)
  BY WholeSlice DEF write_reg, Store
<1>2. Slice(f) \subseteq Register(f.reg)
  BY WritableSlice
<1>3. CASE f.reg # reg
  <2>1. Slice(f) \cap Register(reg) = {}
    BY <1>2, <1>3 DEF Register
  <2>. QED BY <1>1, <1>3, <2>1 DEF Assigns
<1>4. CASE f.reg = reg /\ f.len = 1 /\ (v \div 2^f.pos) % 2 = 1
  <2>1. f.pos \in 0 .. 7
    BY WritableAssumption
  <2>2. Slice(f) = {<<reg, f.pos>>}
    <3>1. 0 .. f.len - 1 = {0} /\ f.pos + 0 = f.pos
      BY <1>4, <2>1
    <3>2. BitOf(f, 0) = <<reg, f.pos>>
      BY <1>4, <3>1, BitPlace
    <3>. QED BY <3>1, <3>2 DEF Slice
  <2>3. BitOf(f, 0) \in OnesOf(f, 1)
    <3>1. 0 \in 0 .. f.len - 1 /\ (1 \div 2^0) % 2 = 1
      BY <1>4, Powers
    <3>. QED BY <3>1, OnesAt
  <2>4. OnesOf(f, 1) = Slice(f)
    <3>1. BitOf(f, 0) \in Slice(f)
      BY <2>3, OnesInSlice
    <3>. QED BY <2>2, <2>3, <3>1, OnesInSlice
  <2>5. <<reg, f.pos>> \in OnesOf(w, v)
    <3>1. BitOf(w, f.pos) = <<reg, f.pos>>
      BY <2>1, WholeBits
    <3>2. f.pos \in {j \in 0 .. w.len - 1 : (v \div 2^j) % 2 = 1}
      BY <1>4, <2>1 DEF WholeRegister, Rw
    <3>. QED BY <3>1, <3>2 DEF OnesOf
  <2>. HIDE DEF w
  <2>. QED BY <1>1, <1>2, <1>4, <2>2, <2>4, <2>5 DEF Assigns, Covers
<1>. QED BY <1>3, <1>4

\* The widths of the fields the calls name.
LEMMA NamedWidths ==
  /\ \A c : /\ input_enable(c).len = 1 /\ fifo_tag_intr_enable(c).len = 1
            /\ intr_low_g(c).len = 1 /\ intr_any_motion(c).len = 1
            /\ intr_enable_0(c).len = 1 /\ intr_enable_1(c).len = 1
  /\ step_detector_enable.len = 1 /\ step_counter_enable.len = 1
  /\ intr_significant_motion_select.len = 1
  /\ accel_offset_enable.len = 1 /\ gyro_offset_enable.len = 1 /\ foc_gyro_enable.len = 1
  /\ \A f \in AccelOffsets : f.len = 8
  /\ \A pair \in GyroOffsets : pair[1].len = 8 /\ pair[2].len = 2
  /\ step_config_0.len = 8 /\ step_config_1.len = 3 /\ step_config_2.len = 4
  /\ foc_accel_x.len = 2 /\ foc_accel_y.len = 2 /\ foc_accel_z.len = 2
<1>1. \A c : /\ input_enable(c).len = 1 /\ fifo_tag_intr_enable(c).len = 1
             /\ intr_low_g(c).len = 1 /\ intr_any_motion(c).len = 1
             /\ intr_enable_0(c).len = 1 /\ intr_enable_1(c).len = 1
  BY DEF input_enable, fifo_tag_intr_enable, fifo_tag_intr1_enable, fifo_tag_intr2_enable,
         intr_low_g, intr_any_motion, intr_enable_0, intr_enable_1, Rw
<1>2. /\ step_detector_enable.len = 1 /\ step_counter_enable.len = 1
      /\ intr_significant_motion_select.len = 1
      /\ accel_offset_enable.len = 1 /\ gyro_offset_enable.len = 1 /\ foc_gyro_enable.len = 1
  BY DEF step_detector_enable, step_counter_enable, intr_significant_motion_select,
         accel_offset_enable, gyro_offset_enable, foc_gyro_enable, Rw
<1>3. \A f \in AccelOffsets : f.len = 8
  BY DEF AccelOffsets, accel_offset_compensation_xaxis, accel_offset_compensation_yaxis,
         accel_offset_compensation_zaxis, Rw
<1>4. \A pair \in GyroOffsets : pair[1].len = 8 /\ pair[2].len = 2
  BY DEF GyroOffsets, gyro_offset_x_low, gyro_offset_x_high, gyro_offset_y_low,
         gyro_offset_y_high, gyro_offset_z_low, gyro_offset_z_high, Rw
<1>5. /\ step_config_0.len = 8 /\ step_config_1.len = 3 /\ step_config_2.len = 4
      /\ foc_accel_x.len = 2 /\ foc_accel_y.len = 2 /\ foc_accel_z.len = 2
  BY DEF step_config_0, step_config_1, step_config_2, foc_accel_x, foc_accel_y,
         foc_accel_z, Rw
<1>. QED BY <1>1, <1>2, <1>3, <1>4, <1>5

\* The fields that one call sets are different ones.
LEMMA NamedApart ==
  /\ \A c : /\ input_enable(c) # fifo_tag_intr_enable(c)
            /\ intr_low_g(c) # step_detector_enable /\ intr_low_g(c) # step_counter_enable
            /\ intr_any_motion(c) # intr_significant_motion_select
  /\ step_detector_enable # step_counter_enable
  /\ \A f \in AccelOffsets : f # accel_offset_enable
  /\ \A pair \in GyroOffsets : /\ pair[1] # pair[2] /\ pair[1] # gyro_offset_enable
                               /\ pair[2] # gyro_offset_enable
  /\ step_config_0 # step_config_1 /\ step_config_0 # step_config_2
  /\ step_config_1 # step_config_2
  /\ \A f \in {foc_accel_x, foc_accel_y, foc_accel_z} :
       f # accel_offset_enable /\ f # command_register
  /\ foc_accel_x # foc_accel_y /\ foc_accel_x # foc_accel_z /\ foc_accel_y # foc_accel_z
  /\ accel_offset_enable # command_register /\ gyro_offset_enable # command_register
  /\ foc_gyro_enable # gyro_offset_enable /\ foc_gyro_enable # command_register
<1>1. \A c : input_enable(c) # fifo_tag_intr_enable(c)
  BY DEF input_enable, fifo_tag_intr_enable, fifo_tag_intr1_enable, fifo_tag_intr2_enable, Rw
<1>2. \A c : intr_low_g(c).pos = 0 /\ intr_any_motion(c).pos = 2
  BY DEF intr_low_g, intr_any_motion, Rw
<1>3. /\ step_detector_enable.pos = 3 /\ step_counter_enable.pos = 3
      /\ intr_significant_motion_select.pos = 1
      /\ step_detector_enable # step_counter_enable
  BY DEF step_detector_enable, step_counter_enable, intr_significant_motion_select, Rw
<1>4. \A f \in AccelOffsets : f # accel_offset_enable
  BY DEF AccelOffsets, accel_offset_compensation_xaxis, accel_offset_compensation_yaxis,
         accel_offset_compensation_zaxis, accel_offset_enable, Rw
<1>5. \A pair \in GyroOffsets : /\ pair[1] # pair[2] /\ pair[1] # gyro_offset_enable
                                /\ pair[2] # gyro_offset_enable
  BY DEF GyroOffsets, gyro_offset_x_low, gyro_offset_x_high, gyro_offset_y_low,
         gyro_offset_y_high, gyro_offset_z_low, gyro_offset_z_high, gyro_offset_enable, Rw
<1>6. /\ step_config_0 # step_config_1 /\ step_config_0 # step_config_2
      /\ step_config_1 # step_config_2
  BY DEF step_config_0, step_config_1, step_config_2, Rw
<1>7. /\ \A f \in {foc_accel_x, foc_accel_y, foc_accel_z} : f.reg = \h69
      /\ foc_accel_x.pos = 4 /\ foc_accel_y.pos = 2 /\ foc_accel_z.pos = 0
      /\ foc_gyro_enable.reg = \h69
      /\ accel_offset_enable.reg = \h77 /\ gyro_offset_enable.reg = \h77
      /\ command_register.reg = \h7E
  BY DEF foc_accel_x, foc_accel_y, foc_accel_z, foc_gyro_enable, accel_offset_enable,
         gyro_offset_enable, command_register, Rw
<1>. QED BY <1>1, <1>2, <1>3, <1>4, <1>5, <1>6, <1>7

\* The accesses of a call that is put together of two lists.
LEMMA Joined ==
  ASSUME NEW a, NEW b, NEW c
  PROVE  /\ Append(<<a>>, b) = <<a, b>>
         /\ Append(<<a, b>>, c) = <<a, b, c>>
         /\ <<a>> \o <<b, c>> = <<a, b, c>>
<1>. DEFINE T == {a, b, c}
            s == Append(<<a>>, b)
            t == Append(<<a, b>>, c)
            u == <<a>> \o <<b, c>>
            v == <<a, b>>
            w == <<a, b, c>>
<1>1. s \in Seq(T) /\ t \in Seq(T) /\ u \in Seq(T) /\ v \in Seq(T) /\ w \in Seq(T)
  OBVIOUS
<1>2. Len(s) = 2 /\ Len(v) = 2 /\ Len(t) = 3 /\ Len(u) = 3 /\ Len(w) = 3
  OBVIOUS
<1>3. s[1] = a /\ s[2] = b /\ v[1] = a /\ v[2] = b
  OBVIOUS
<1>4. t[1] = a /\ t[2] = b /\ t[3] = c /\ w[1] = a /\ w[2] = b /\ w[3] = c
  OBVIOUS
<1>5. u[1] = a /\ u[2] = b /\ u[3] = c
  OBVIOUS
<1>6. 1 .. 2 = {1, 2} /\ 1 .. 3 = {1, 2, 3}
  OBVIOUS
<1>. HIDE DEF T, s, t, u, v, w
<1>7. s = v
  BY <1>1, <1>2, <1>3, <1>6, SeqEqual
<1>8. t = w
  BY <1>1, <1>2, <1>4, <1>6, SeqEqual
<1>9. u = w
  BY <1>1, <1>2, <1>4, <1>5, <1>6, SeqEqual
<1>. QED BY <1>7, <1>8, <1>9 DEF s, t, u, v, w

\* The plain setters.
LEMMA PlainKeeps ==
  ASSUME NEW v \in Byte
  PROVE  /\ \A f \in Writable : Keeps(Set(f, v))
         /\ \A c \in 0 .. 1 : Keeps(set_fifo_tag_intr_enable(c, v))
<1>. USE DEF Byte
<1>0. v \in Nat
  OBVIOUS
<1>1. ASSUME NEW f \in Writable PROVE Keeps(Set(f, v))
  <2>1. Sets(<<Store(f, v)>>, f, v % 2^f.len)
    BY StoreAssigns, SetsOne
  <2>2. \A h \in {<<f, v % 2^f.len>>} : Sets(<<Store(f, v)>>, h[1], h[2])
    BY <2>1
  <2>3. Keeps(Call(<<Store(f, v)>>, "success", {<<f, v % 2^f.len>>}))
    BY <2>2, CallKeeps
  <2>. QED BY <2>3, RefusalKeeps DEF Set
<1>2. ASSUME NEW c \in 0 .. 1 PROVE Keeps(set_fifo_tag_intr_enable(c, v))
  <2>. DEFINE f == input_enable(c)
              g == fifo_tag_intr_enable(c)
  <2>1. f \in Writable /\ g \in Writable /\ f # g /\ f.len = 1 /\ g.len = 1
    BY NamedWritable, NamedApart, NamedWidths
  <2>2. v \in 0 .. 1 => v % 2^1 = v
    BY Powers
  <2>. HIDE DEF f, g
  <2>. DEFINE a == Store(f, v)
              b == Store(g, v)
  <2>3. /\ Assigns(a, f, v) /\ Covers(a, f) /\ Assigns(b, f, v)
        /\ Assigns(a, g, v) /\ Assigns(b, g, v) /\ Covers(b, g)
    BY <2>1, StoreAssigns
  <2>. HIDE DEF a, b
  <2>4. Sets(<<a, b>>, f, v % 2^f.len) /\ Sets(<<a, b>>, g, v % 2^g.len)
    BY <1>0, <2>1, <2>3, SetsTwo
  <2>5. v \in 0 .. 1 => \A h \in {<<f, v>>, <<g, v>>} : Sets(<<a, b>>, h[1], h[2])
    BY <2>1, <2>2, <2>4
  <2>. QED BY <2>5, CallKeeps, RefusalKeeps DEF set_fifo_tag_intr_enable, a, b, f, g
<1>. QED BY <1>1, <1>2

\* The calls about interrupts that share an engine.
LEMMA SharedKeeps ==
  ASSUME NEW c \in Pin, NEW v \in Byte
  PROVE  Keeps(set_intr_low_g(c, v)) /\ Keeps(set_intr_any_motion(c, v))
<1>. USE DEF Byte, Pin
<1>0. v \in Nat /\ 0 \in Nat
  OBVIOUS
<1>1. v % 2^1 = v % 2 /\ 0 % 2^1 = 0
  BY Powers
<1>2. Keeps(set_intr_low_g(c, v))
  <2>1. CASE c \in 0 .. 1
    <3>. DEFINE d == step_detector_enable
                e == step_counter_enable
                f == intr_low_g(c)
                x == Ensure(d, 0)
                y == Ensure(e, 0)
                z == Store(f, v)
    <3>1. /\ d \in Writable /\ e \in Writable /\ f \in Writable
          /\ d # e /\ d # f /\ e # f /\ d.len = 1 /\ e.len = 1 /\ f.len = 1
      BY <2>1, NamedWritable, NamedApart, NamedWidths
    <3>2. set_intr_low_g(c, v) =
            Call(Append(<<x, y>>, z), "success", {<<f, v % 2>>, <<d, 0>>, <<e, 0>>})
      BY <2>1 DEF set_intr_low_g
    <3>. HIDE DEF d, e, f
    <3>3. /\ Assigns(x, d, 0) /\ Assigns(y, d, 0) /\ Assigns(z, d, 0) /\ Covers(x, d)
          /\ Assigns(x, e, 0) /\ Assigns(y, e, 0) /\ Assigns(z, e, 0) /\ Covers(y, e)
          /\ Assigns(x, f, v) /\ Assigns(y, f, v) /\ Assigns(z, f, v) /\ Covers(z, f)
      BY <3>1, StoreAssigns
    <3>. HIDE DEF x, y, z
    <3>4. /\ Sets(<<x, y, z>>, d, 0 % 2^d.len) /\ Sets(<<x, y, z>>, e, 0 % 2^e.len)
          /\ Sets(<<x, y, z>>, f, v % 2^f.len)
      BY <1>0, <3>1, <3>3, SetsThree
    <3>5. \A h \in {<<f, v % 2>>, <<d, 0>>, <<e, 0>>} : Sets(<<x, y, z>>, h[1], h[2])
      BY <1>1, <3>1, <3>4
    <3>6. Keeps(Call(<<x, y, z>>, "success", {<<f, v % 2>>, <<d, 0>>, <<e, 0>>}))
      BY <3>5, CallKeeps
    <3>7. Append(<<x, y>>, z) = <<x, y, z>>
      BY Joined
    <3>. QED BY <3>2, <3>6, <3>7
  <2>. QED BY <2>1, RefusalKeeps DEF set_intr_low_g
<1>3. Keeps(set_intr_any_motion(c, v))
  <2>1. CASE c \in 0 .. 1
    <3>. DEFINE d == intr_significant_motion_select
                f == intr_any_motion(c)
                x == Ensure(d, 0)
                y == Store(f, v)
    <3>1. d \in Writable /\ f \in Writable /\ d # f /\ d.len = 1 /\ f.len = 1
      BY <2>1, NamedWritable, NamedApart, NamedWidths
    <3>2. set_intr_any_motion(c, v) =
            Call(Append(<<x>>, y), "success", {<<f, v % 2>>, <<d, 0>>})
      BY <2>1 DEF set_intr_any_motion
    <3>. HIDE DEF d, f
    <3>3. /\ Assigns(x, d, 0) /\ Assigns(y, d, 0) /\ Covers(x, d)
          /\ Assigns(x, f, v) /\ Assigns(y, f, v) /\ Covers(y, f)
      BY <3>1, StoreAssigns
    <3>. HIDE DEF x, y
    <3>4. Sets(<<x, y>>, d, 0 % 2^d.len) /\ Sets(<<x, y>>, f, v % 2^f.len)
      BY <1>0, <3>1, <3>3, SetsTwo
    <3>5. \A h \in {<<f, v % 2>>, <<d, 0>>} : Sets(<<x, y>>, h[1], h[2])
      BY <1>1, <3>1, <3>4
    <3>6. Keeps(Call(<<x, y>>, "success", {<<f, v % 2>>, <<d, 0>>}))
      BY <3>5, CallKeeps
    <3>7. Append(<<x>>, y) = <<x, y>>
      BY Joined
    <3>. QED BY <3>2, <3>6, <3>7
  <2>. QED BY <2>1, RefusalKeeps DEF set_intr_any_motion
<1>. QED BY <1>2, <1>3

\* The accesses of those calls, to a field of one bit that is to be one.
LEMMA OneBit ==
  ASSUME NEW f \in Writable, f.len = 1, NEW a, NEW b, NEW c,
         Assigns(a, f, 1), Assigns(b, f, 1), Assigns(c, f, 1),
         Covers(a, f) \/ Covers(b, f) \/ Covers(c, f)
  PROVE  Sets(<<a, b, c>>, f, 1)
<1>1. 1 \in Nat /\ 1 % 2^1 = 1
  BY Powers
<1>2. Sets(<<a, b, c>>, f, 1 % 2^f.len)
  BY <1>1, SetsThree
<1>. QED BY <1>1, <1>2

LEMMA OneBitAccesses ==
  ASSUME NEW f \in Writable, f.len = 1
  PROVE  /\ \A d \in Writable : d # f => Assigns(Ensure(d, 1), f, 1)
         /\ Assigns(Ensure(f, 1), f, 1) /\ Covers(Ensure(f, 1), f)
         /\ \A reg \in Byte : \A v \in Nat :
              /\ f.reg # reg => Assigns(write_reg(reg, v), f, 1)
              /\ f.reg = reg /\ (v \div 2^f.pos) % 2 = 1 =>
                   Assigns(write_reg(reg, v), f, 1) /\ Covers(write_reg(reg, v), f)
<1>1. \A d \in Writable : d # f => Assigns(Ensure(d, 1), f, 1)
  BY StoreAssigns
<1>2. Assigns(Ensure(f, 1), f, 1) /\ Covers(Ensure(f, 1), f)
  BY StoreAssigns
<1>3. ASSUME NEW reg \in Byte, NEW v \in Nat
      PROVE  /\ f.reg # reg => Assigns(write_reg(reg, v), f, 1)
             /\ f.reg = reg /\ (v \div 2^f.pos) % 2 = 1 =>
                  Assigns(write_reg(reg, v), f, 1) /\ Covers(write_reg(reg, v), f)
  BY WholeAssigns
<1>. QED BY <1>1, <1>2, <1>3

\* The calls that write whole registers.
LEMMA WholeKeeps ==
  ASSUME NEW c \in Pin
  PROVE  Keeps(map_significant_motion_intr(c)) /\ Keeps(map_step_detector_intr(c))
<1>. DEFINE r == \h55 + 2 * c
<1>1. c \in 0 .. 1 => r \in {\h55, \h57} /\ r \in Byte
  BY DEF Byte
<1>2. \h50 \in Byte /\ \h51 \in Byte /\ 1 \in Nat /\ 4 \in Nat /\ 7 \in Nat /\ 8 \in Nat
  BY DEF Byte
<1>3. Keeps(map_significant_motion_intr(c))
  <2>1. CASE c \in 0 .. 1
    <3>. DEFINE d == intr_significant_motion_select
                f == intr_any_motion(c)
                g(axis) == intr_enable_0(axis)
                x == Ensure(d, 1)
                y == write_reg(r, 4)
                z == write_reg(\h50, 7)
                named == {<<d, 1>>, <<f, 1>>} \cup {<<g(axis), 1>> : axis \in 0 .. 2}
    <3>1. /\ d \in Writable /\ d.reg = \h62 /\ d.len = 1
          /\ f \in Writable /\ f.reg = r /\ f.pos = 2 /\ f.len = 1
      BY <2>1, NamedWritable, NamedWidths
         DEF intr_significant_motion_select, intr_any_motion, Rw
    <3>2. \A axis \in 0 .. 2 : /\ g(axis) \in Writable /\ g(axis).reg = \h50
                               /\ g(axis).pos = axis /\ g(axis).len = 1
      <4>1. \A axis \in 0 .. 2 : g(axis) \in Writable
        BY DEF Writable, EnableSettings
      <4>. QED BY <4>1 DEF intr_enable_0, Rw
    <3>3. map_significant_motion_intr(c) = Call(<<x>> \o <<y, z>>, "success", named)
      BY <2>1 DEF map_significant_motion_intr
    <3>4. (4 \div 2^2) % 2 = 1 /\ \A axis \in 0 .. 2 : (7 \div 2^axis) % 2 = 1
      <4>1. 0 .. 2 = {0, 1, 2}
        OBVIOUS
      <4>. QED BY <4>1, Powers
    <3>5. r \in Byte /\ r # \h50 /\ r # \h62
      BY <1>1, <2>1
    <3>. HIDE DEF d, f, g, r
    <3>6. Assigns(x, d, 1) /\ Covers(x, d) /\ Assigns(y, d, 1) /\ Assigns(z, d, 1)
      BY <1>2, <3>1, <3>5, OneBitAccesses
    <3>7. d # f /\ \A axis \in 0 .. 2 : d # g(axis)
      BY <3>1, <3>2, <3>5
    <3>8. Assigns(x, f, 1) /\ Assigns(y, f, 1) /\ Covers(y, f) /\ Assigns(z, f, 1)
      <4>1. (4 \div 2^f.pos) % 2 = 1
        BY <3>1, <3>4
      <4>2. Assigns(x, f, 1)
        BY <3>1, <3>7, OneBitAccesses
      <4>3. Assigns(y, f, 1) /\ Covers(y, f)
        BY <1>2, <3>1, <3>5, <4>1, OneBitAccesses
      <4>4. Assigns(z, f, 1)
        BY <1>2, <3>1, <3>5, OneBitAccesses
      <4>. QED BY <4>2, <4>3, <4>4
    <3>9. \A axis \in 0 .. 2 :
             /\ Assigns(x, g(axis), 1) /\ Assigns(y, g(axis), 1)
             /\ Assigns(z, g(axis), 1) /\ Covers(z, g(axis))
      <4> SUFFICES ASSUME NEW axis \in 0 .. 2
                   PROVE  /\ Assigns(x, g(axis), 1) /\ Assigns(y, g(axis), 1)
                          /\ Assigns(z, g(axis), 1) /\ Covers(z, g(axis))
        OBVIOUS
      <4>. DEFINE e == g(axis)
      <4>1. /\ e \in Writable /\ e.reg = \h50 /\ e.len = 1 /\ (7 \div 2^e.pos) % 2 = 1
            /\ d # e
        BY <3>2, <3>4, <3>7
      <4>. HIDE DEF e
      <4>2. /\ Assigns(x, e, 1) /\ Assigns(y, e, 1) /\ Assigns(z, e, 1) /\ Covers(z, e)
        BY <1>2, <3>1, <3>5, <4>1, OneBitAccesses
      <4>. QED BY <4>2 DEF e
    <3>. HIDE DEF x, y, z
    <3>10. Sets(<<x, y, z>>, d, 1) /\ Sets(<<x, y, z>>, f, 1)
      BY <3>1, <3>6, <3>8, OneBit
    <3>11. \A axis \in 0 .. 2 : Sets(<<x, y, z>>, g(axis), 1)
      BY <3>2, <3>9, OneBit
    <3>12. \A h \in named : Sets(<<x, y, z>>, h[1], h[2])
      BY <3>10, <3>11
    <3>. HIDE DEF named
    <3>13. Keeps(Call(<<x, y, z>>, "success", named))
      BY <3>12, CallKeeps
    <3>14. <<x>> \o <<y, z>> = <<x, y, z>>
      BY Joined
    <3>. QED BY <3>3, <3>13, <3>14
  <2>. QED BY <2>1, RefusalKeeps DEF map_significant_motion_intr
<1>4. Keeps(map_step_detector_intr(c))
  <2>1. CASE c \in 0 .. 1
    <3>. DEFINE d == step_detector_enable
                f == intr_low_g(c)
                g == intr_enable_1(3)
                x == Ensure(d, 1)
                y == write_reg(r, 1)
                z == write_reg(\h51, 8)
                named == {<<d, 1>>, <<f, 1>>, <<g, 1>>}
    <3>1. /\ d \in Writable /\ d.reg = \h52 /\ d.len = 1
          /\ f \in Writable /\ f.reg = r /\ f.pos = 0 /\ f.len = 1
      BY <2>1, NamedWritable, NamedWidths DEF step_detector_enable, intr_low_g, Rw
    <3>2. g \in Writable /\ g.reg = \h51 /\ g.pos = 3 /\ g.len = 1
      <4>1. g \in Writable
        BY DEF Writable, EnableSettings
      <4>. QED BY <4>1 DEF intr_enable_1, Rw
    <3>3. map_step_detector_intr(c) = Call(<<x>> \o <<y, z>>, "success", named)
      BY <2>1 DEF map_step_detector_intr
    <3>4. (1 \div 2^0) % 2 = 1 /\ (8 \div 2^3) % 2 = 1
      BY Powers
    <3>5. r \in Byte /\ r # \h51 /\ r # \h52
      BY <1>1, <2>1
    <3>. HIDE DEF d, f, g, r
    <3>6. Assigns(x, d, 1) /\ Covers(x, d) /\ Assigns(y, d, 1) /\ Assigns(z, d, 1)
      BY <1>2, <3>1, <3>5, OneBitAccesses
    <3>7. d # f /\ d # g
      BY <3>1, <3>2, <3>5
    <3>8. Assigns(x, f, 1) /\ Assigns(y, f, 1) /\ Covers(y, f) /\ Assigns(z, f, 1)
      <4>1. (1 \div 2^f.pos) % 2 = 1
        BY <3>1, <3>4
      <4>2. Assigns(x, f, 1)
        BY <3>1, <3>7, OneBitAccesses
      <4>3. Assigns(y, f, 1) /\ Covers(y, f)
        BY <1>2, <3>1, <3>5, <4>1, OneBitAccesses
      <4>4. Assigns(z, f, 1)
        BY <1>2, <3>1, <3>5, OneBitAccesses
      <4>. QED BY <4>2, <4>3, <4>4
    <3>9. Assigns(x, g, 1) /\ Assigns(y, g, 1) /\ Assigns(z, g, 1) /\ Covers(z, g)
      <4>1. (8 \div 2^g.pos) % 2 = 1
        BY <3>2, <3>4
      <4>2. Assigns(x, g, 1)
        BY <3>1, <3>2, <3>7, OneBitAccesses
      <4>3. Assigns(y, g, 1)
        BY <1>2, <3>2, <3>5, OneBitAccesses
      <4>4. Assigns(z, g, 1) /\ Covers(z, g)
        BY <1>2, <3>2, <4>1, OneBitAccesses
      <4>. QED BY <4>2, <4>3, <4>4
    <3>. HIDE DEF x, y, z
    <3>10. Sets(<<x, y, z>>, d, 1) /\ Sets(<<x, y, z>>, f, 1)
      BY <3>1, <3>6, <3>8, OneBit
    <3>11. Sets(<<x, y, z>>, g, 1)
      BY <3>2, <3>9, OneBit
    <3>12. \A h \in named : Sets(<<x, y, z>>, h[1], h[2])
      BY <3>10, <3>11
    <3>. HIDE DEF named
    <3>13. Keeps(Call(<<x, y, z>>, "success", named))
      BY <3>12, CallKeeps
    <3>14. <<x>> \o <<y, z>> = <<x, y, z>>
      BY Joined
    <3>. QED BY <3>3, <3>13, <3>14
  <2>. QED BY <2>1, RefusalKeeps DEF map_step_detector_intr
<1>. QED BY <1>3, <1>4

\* The manual offsets.
LEMMA OffsetKeeps ==
  ASSUME NEW v \in Byte
  PROVE  /\ \A f \in AccelOffsets : Keeps(set_accel_offset_compensation(f, v))
         /\ \A pair \in GyroOffsets : Keeps(set_gyro_offset_compensation(pair, v + 256 * v))
<1>0. v \in Nat /\ 0 \in Nat /\ 1 \in Nat
  BY DEF Byte
<1>1. 1 % 2^1 = 1 /\ v % 2^8 = v
  BY Powers DEF Byte
<1>2. ASSUME NEW f \in AccelOffsets PROVE Keeps(set_accel_offset_compensation(f, v))
  <2>. DEFINE e == accel_offset_enable
              a == Store(e, 1)
              b == Store(f, v)
              named == {<<e, 1>>, <<f, v>>}
  <2>1. e \in Writable /\ f \in Writable /\ e # f /\ e.len = 1 /\ f.len = 8
    BY NamedWritable, NamedApart, NamedWidths
  <2>2. set_accel_offset_compensation(f, v) = Call(<<a, b>>, "success", named)
    BY DEF set_accel_offset_compensation
  <2>. HIDE DEF e
  <2>3. /\ Assigns(a, e, 1) /\ Covers(a, e) /\ Assigns(b, e, 1)
        /\ Assigns(a, f, v) /\ Assigns(b, f, v) /\ Covers(b, f)
    BY <2>1, StoreAssigns
  <2>. HIDE DEF a, b
  <2>4. Sets(<<a, b>>, e, 1) /\ Sets(<<a, b>>, f, v)
    BY <1>0, <1>1, <2>1, <2>3, SetsTwo
  <2>5. \A h \in named : Sets(<<a, b>>, h[1], h[2])
    BY <2>4
  <2>. HIDE DEF named
  <2>. QED BY <2>2, <2>5, CallKeeps
<1>3. ASSUME NEW pair \in GyroOffsets
      PROVE  Keeps(set_gyro_offset_compensation(pair, v + 256 * v))
  <2>. DEFINE e == gyro_offset_enable
              l == pair[1]
              h == pair[2]
              low == (v + 256 * v) % 256
              high == ((v + 256 * v) \div 256) % 4
              found == OnesOf(WholeRegister(h.reg), low)
              a == Store(e, 1)
              b == Store(l, low)
              d == [Store(h, high) EXCEPT !.found = found]
              named == {<<e, 1>>, <<l, low>>, <<h, high>>}
  <2>1. /\ e \in Writable /\ l \in Writable /\ h \in Writable /\ e # l /\ e # h /\ l # h
        /\ e.len = 1 /\ l.len = 8 /\ h.len = 2
    BY NamedWritable, NamedApart, NamedWidths
  <2>2. set_gyro_offset_compensation(pair, v + 256 * v) = Call(<<a, b, d>>, "success", named)
    BY SMT DEF set_gyro_offset_compensation
  <2>3. low \in Nat /\ high \in Nat /\ low % 2^8 = low /\ high % 2^2 = high
    BY Powers DEF Byte
  <2>. HIDE DEF e, l, h, low, high, found
  <2>4. /\ Assigns(a, e, 1) /\ Covers(a, e) /\ Assigns(b, e, 1)
        /\ Assigns(a, l, low) /\ Assigns(b, l, low) /\ Covers(b, l)
        /\ Assigns(a, h, high) /\ Assigns(b, h, high)
    BY <2>1, StoreAssigns
  <2>5. Assigns(d, e, 1) /\ Assigns(d, l, low) /\ Assigns(d, h, high) /\ Covers(d, h)
    <3>1. /\ Assigns(Store(h, high), e, 1) /\ Assigns(Store(h, high), l, low)
          /\ Assigns(Store(h, high), h, high) /\ Covers(Store(h, high), h)
      BY <2>1, StoreAssigns
    <3>. QED BY <3>1, VariantAssigns
  <2>. HIDE DEF a, b, d
  <2>6. Sets(<<a, b, d>>, e, 1) /\ Sets(<<a, b, d>>, l, low) /\ Sets(<<a, b, d>>, h, high)
    BY <1>0, <1>1, <2>1, <2>3, <2>4, <2>5, SetsThree
  <2>7. \A x \in named : Sets(<<a, b, d>>, x[1], x[2])
    BY <2>6
  <2>. HIDE DEF named
  <2>. QED BY <2>2, <2>7, CallKeeps
<1>. QED BY <1>2, <1>3

\* The step counter.
LEMMA StepConfigKeeps ==
  ASSUME NEW v \in {\h315, \h2D, \h71D}
  PROVE  Keeps(set_step_config(v))
<1>. DEFINE d == step_config_0
            e == step_config_1
            f == step_config_2
            p == v % 256
            q == (v \div 256) % 8
            r == v \div 4096
            a == Store(d, p)
            b == Store(e, q)
            c == [Store(f, r) EXCEPT !.found = OnesOf(e, q),
                                     !.kept = Register(f.reg) \ Slice(e)]
            named == {<<d, p>>, <<e, q>>, <<f, r>>}
<1>1. /\ d \in Writable /\ e \in Writable /\ f \in Writable /\ d # e /\ d # f /\ e # f
  BY NamedWritable, NamedApart
<1>2. d.len = 8 /\ e.len = 3 /\ f.len = 4
  BY NamedWidths
<1>3. set_step_config(v) = Call(<<a, b, c>>, "success", named)
  <2>1. LET parts == <<p, q, r>>
        IN  parts[1] = p /\ parts[2] = q /\ parts[3] = r
    OBVIOUS
  <2>. QED BY <2>1 DEF set_step_config
<1>4. /\ p \in Nat /\ q \in Nat /\ r \in Nat
      /\ p % 2^d.len = p /\ q % 2^e.len = q /\ r % 2^f.len = r
  <2>1. v \in 0 .. 2047
    OBVIOUS
  <2>2. p \in 0 .. 255 /\ q \in 0 .. 7 /\ r = 0
    BY <2>1
  <2>. HIDE DEF d, e, f, p, q, r
  <2>. QED BY <1>2, <2>2, Powers
<1>. HIDE DEF d, e, f, p, q, r
<1>5. p \in Nat /\ q \in Nat /\ r \in Nat
  BY <1>4
<1>6. /\ Assigns(a, d, p) /\ Covers(a, d) /\ Assigns(b, d, p)
      /\ Assigns(a, e, q) /\ Assigns(b, e, q) /\ Covers(b, e)
      /\ Assigns(a, f, r) /\ Assigns(b, f, r)
  BY <1>1, StoreAssigns
<1>7. Assigns(c, d, p) /\ Assigns(c, e, q) /\ Assigns(c, f, r) /\ Covers(c, f)
  <2>1. /\ Assigns(Store(f, r), d, p) /\ Assigns(Store(f, r), e, q)
        /\ Assigns(Store(f, r), f, r) /\ Covers(Store(f, r), f)
    BY <1>1, StoreAssigns
  <2>2. c.region = Store(f, r).region /\ c.ones = Store(f, r).ones
    BY DEF Store
  <2>. HIDE DEF c
  <2>. QED BY <2>1, <2>2 DEF Assigns, Covers
<1>. HIDE DEF a, b, c
<1>8. Sets(<<a, b, c>>, d, p) /\ Sets(<<a, b, c>>, e, q) /\ Sets(<<a, b, c>>, f, r)
  <2>1. Sets(<<a, b, c>>, d, p % 2^d.len)
    BY <1>1, <1>5, <1>6, <1>7, SetsThree
  <2>2. Sets(<<a, b, c>>, e, q % 2^e.len)
    BY <1>1, <1>5, <1>6, <1>7, SetsThree
  <2>3. Sets(<<a, b, c>>, f, r % 2^f.len)
    BY <1>1, <1>5, <1>6, <1>7, SetsThree
  <2>. QED BY <1>4, <2>1, <2>2, <2>3
<1>9. \A h \in named : Sets(<<a, b, c>>, h[1], h[2])
  BY <1>8
<1>. HIDE DEF named
<1>. QED BY <1>3, <1>9, CallKeeps

LEMMA StepKeeps ==
  /\ \A m : Keeps(set_step_mode(m))
  /\ Keeps(clear_step_counter)
<1>1. ASSUME NEW m PROVE Keeps(set_step_mode(m))
  BY StepConfigKeeps, RefusalKeeps DEF set_step_mode
<1>2. Keeps(clear_step_counter)
  BY NamedWritable, PlainKeeps DEF clear_step_counter, Byte
<1>. QED BY <1>1, <1>2

\* The fast offset compensation.
LEMMA FocKeeps ==
  ASSUME NEW v \in Byte
  PROVE  /\ \A axis \in 0 .. 3 : Keeps(set_accel_foc_trigger(axis, v))
         /\ Keeps(accel_foc_trigger_xyz(v, v, v))
         /\ Keeps(set_foc_gyro_enable(v))
<1>. DEFINE k == command_register
            e == accel_offset_enable
            x == foc_accel_x
            y == foc_accel_y
            z == foc_accel_z
            g == gyro_offset_enable
            h == foc_gyro_enable
<1>1. v \in Nat /\ 1 \in Nat /\ START_FOC_ACCEL_GYRO \in Nat
  BY DEF Byte, START_FOC_ACCEL_GYRO
<1>2. 1 % 2^1 = 1 /\ v % 2^2 = v % 4 /\ v % 2^1 = v % 2
  BY Powers
<1>3. /\ k \in Writable
      /\ e \in Writable /\ e.len = 1 /\ e # k
      /\ g \in Writable /\ g.len = 1 /\ g # k
      /\ h \in Writable /\ h.len = 1 /\ h # k /\ h # g
  BY NamedWritable, NamedWidths, NamedApart
<1>4. /\ x \in Writable /\ x.len = 2 /\ x # k /\ x # e
      /\ y \in Writable /\ y.len = 2 /\ y # k /\ y # e
      /\ z \in Writable /\ z.len = 2 /\ z # k /\ z # e
      /\ x # y /\ x # z /\ y # z
  BY NamedWritable, NamedWidths, NamedApart
<1>5. ASSUME NEW axis \in 0 .. 3 PROVE Keeps(set_accel_foc_trigger(axis, v))
  <2>1. CASE axis \in 0 .. 2
    <3>. DEFINE f == FocAxis[axis + 1]
                a == Store(e, 1)
                b == Store(f, v)
                c == Store(k, START_FOC_ACCEL_GYRO)
                named == {<<e, 1>>, <<f, v % 4>>}
    <3>1. f \in Writable /\ f.len = 2 /\ f # k /\ f # e
      <4>1. f \in {x, y, z}
        BY <2>1 DEF FocAxis
      <4>. HIDE DEF f, x, y, z, k, e
      <4>. QED BY <1>4, <4>1
    <3>2. set_accel_foc_trigger(axis, v) = Call(<<a, b, c>>, "success", named)
      BY <2>1 DEF set_accel_foc_trigger
    <3>. HIDE DEF e, k, f
    <3>3. /\ Assigns(a, e, 1) /\ Covers(a, e) /\ Assigns(b, e, 1) /\ Assigns(c, e, 1)
          /\ Assigns(a, f, v) /\ Assigns(b, f, v) /\ Covers(b, f) /\ Assigns(c, f, v)
      BY <1>3, <3>1, StoreAssigns
    <3>. HIDE DEF a, b, c
    <3>4. Sets(<<a, b, c>>, e, 1)
      BY <1>3, <3>3, OneBit
    <3>5. Sets(<<a, b, c>>, f, v % 4)
      <4>1. Sets(<<a, b, c>>, f, v % 2^f.len)
        BY <1>1, <3>1, <3>3, SetsThree
      <4>. QED BY <1>2, <3>1, <4>1
    <3>6. \A p \in named : Sets(<<a, b, c>>, p[1], p[2])
      BY <3>4, <3>5
    <3>. HIDE DEF named
    <3>. QED BY <3>2, <3>6, CallKeeps
  <2>. QED BY <2>1, RefusalKeeps DEF set_accel_foc_trigger
<1>6. Keeps(accel_foc_trigger_xyz(v, v, v))
  <2>. DEFINE a == Store(e, 1)
              b == Store(x, v)
              c == Store(y, v)
              d == Store(z, v)
              s == Store(k, START_FOC_ACCEL_GYRO)
              all == <<a, b, c, d, s>>
              named == {<<e, 1>>, <<x, v % 4>>, <<y, v % 4>>, <<z, v % 4>>}
  <2>1. accel_foc_trigger_xyz(v, v, v) = Call(all, "success", named)
    BY DEF accel_foc_trigger_xyz
  <2>. HIDE DEF e, k, x, y, z
  <2>2. /\ Assigns(a, e, 1) /\ Covers(a, e) /\ Assigns(b, e, 1) /\ Assigns(c, e, 1)
        /\ Assigns(d, e, 1) /\ Assigns(s, e, 1)
    BY <1>3, <1>4, StoreAssigns
  <2>3. /\ Assigns(a, x, v) /\ Covers(b, x) /\ Assigns(b, x, v) /\ Assigns(c, x, v)
        /\ Assigns(d, x, v) /\ Assigns(s, x, v)
    BY <1>3, <1>4, StoreAssigns
  <2>4. /\ Assigns(a, y, v) /\ Covers(c, y) /\ Assigns(b, y, v) /\ Assigns(c, y, v)
        /\ Assigns(d, y, v) /\ Assigns(s, y, v)
    BY <1>3, <1>4, StoreAssigns
  <2>5. /\ Assigns(a, z, v) /\ Covers(d, z) /\ Assigns(b, z, v) /\ Assigns(c, z, v)
        /\ Assigns(d, z, v) /\ Assigns(s, z, v)
    BY <1>3, <1>4, StoreAssigns
  <2>. HIDE DEF a, b, c, d, s
  <2>6. Sets(<<a, b, c, d, s>>, e, 1 % 2^e.len)
    BY <1>1, <1>3, <2>2, SetsFive
  <2>7. /\ Sets(<<a, b, c, d, s>>, x, v % 2^x.len) /\ Sets(<<a, b, c, d, s>>, y, v % 2^y.len)
        /\ Sets(<<a, b, c, d, s>>, z, v % 2^z.len)
    BY <1>1, <1>4, <2>3, <2>4, <2>5, SetsFive
  <2>. HIDE DEF all
  <2>8. /\ Sets(all, e, 1) /\ Sets(all, x, v % 4) /\ Sets(all, y, v % 4)
        /\ Sets(all, z, v % 4)
    BY <1>2, <1>3, <1>4, <2>6, <2>7 DEF all
  <2>9. \A p \in named : Sets(all, p[1], p[2])
    BY <2>8
  <2>. HIDE DEF named
  <2>. QED BY <2>1, <2>9, CallKeeps
<1>7. Keeps(set_foc_gyro_enable(v))
  <2>. DEFINE a == Store(g, 1)
              b == Store(h, v)
              c == Store(k, START_FOC_ACCEL_GYRO)
              named == {<<g, 1>>, <<h, v % 2>>}
  <2>1. set_foc_gyro_enable(v) = Call(<<a, b, c>>, "success", named)
    BY DEF set_foc_gyro_enable
  <2>. HIDE DEF g, h, k
  <2>2. /\ Assigns(a, g, 1) /\ Covers(a, g) /\ Assigns(b, g, 1) /\ Assigns(c, g, 1)
        /\ Assigns(a, h, v) /\ Assigns(b, h, v) /\ Covers(b, h) /\ Assigns(c, h, v)
    BY <1>3, StoreAssigns
  <2>. HIDE DEF a, b, c
  <2>3. Sets(<<a, b, c>>, g, 1)
    BY <1>3, <2>2, OneBit
  <2>4. Sets(<<a, b, c>>, h, v % 2)
    <3>1. Sets(<<a, b, c>>, h, v % 2^h.len)
      BY <1>1, <1>3, <2>2, SetsThree
    <3>. QED BY <1>2, <1>3, <3>1
  <2>5. \A p \in named : Sets(<<a, b, c>>, p[1], p[2])
    BY <2>3, <2>4
  <2>. HIDE DEF named
  <2>. QED BY <2>1, <2>5, CallKeeps
<1>. QED BY <1>5, <1>6, <1>7

LEMMA CallsKeep == \A c \in Calls : Keeps(c)
<1>1. Used \subseteq Writable /\ Inputs \subseteq Byte
  BY ConstantsAssumption
<1>2. \A f \in Used, v \in Inputs : Keeps(Set(f, v))
  BY <1>1, PlainKeeps
<1>3. \A c \in 0 .. 1, v \in Inputs : Keeps(set_fifo_tag_intr_enable(c, v))
  BY <1>1, PlainKeeps
<1>4. \A c \in Pin, v \in Inputs :
        Keeps(set_intr_low_g(c, v)) /\ Keeps(set_intr_any_motion(c, v))
  BY <1>1, SharedKeeps
<1>5. \A c \in Pin : Keeps(map_significant_motion_intr(c)) /\ Keeps(map_step_detector_intr(c))
  BY WholeKeeps
<1>6. \A v \in Inputs :
        /\ \A f \in AccelOffsets : Keeps(set_accel_offset_compensation(f, v))
        /\ \A pair \in GyroOffsets : Keeps(set_gyro_offset_compensation(pair, v + 256 * v))
  BY <1>1, OffsetKeeps
<1>7. \A v \in Inputs :
        /\ \A axis \in 0 .. 3 : Keeps(set_accel_foc_trigger(axis, v))
        /\ Keeps(accel_foc_trigger_xyz(v, v, v)) /\ Keeps(set_foc_gyro_enable(v))
  BY <1>1, FocKeeps
<1>. QED BY <1>2, <1>3, <1>4, <1>5, <1>6, <1>7, StepKeeps DEF Calls

-----------------------------------------------------------------------------
\* What a call under way has still to do.

\* A field a call names holds the number asked for, or an access still to be made
\* gives it that number; none takes it away.
Settled(f, w) ==
  /\ f \in Writable
  /\ \E v \in Nat :
       /\ w = v % 2^f.len
       /\ \A i \in 1 .. Len(todo) : Assigns(todo[i], f, v)
       /\ \/ registers \cap Slice(f) = OnesOf(f, v)
          \/ \E i \in 1 .. Len(todo) : Covers(todo[i], f)

Kept ==
  call.answer = "success" /\ ~failed => \A h \in call.holds : Settled(h[1], h[2])

LEMMA InitKept == Init => Kept
  BY DEF Init, Kept, NoCall, Call

LEMMA BeginKeeps == ASSUME NEW c \in Calls, Begin(c) PROVE Kept'
<1> SUFFICES ASSUME c.answer = "success", NEW h \in c.holds
             PROVE  Settled(h[1], h[2])'
  BY DEF Begin, Kept
<1>1. Sets(c.accesses, h[1], h[2])
  BY CallsKeep DEF Keeps
<1>2. todo' = c.accesses
  BY DEF Begin
<1>. QED BY <1>1, <1>2 DEF Sets, Settled

\* A field that the next access gives its number holds it afterwards, and so does one
\* that it leaves alone and that held it.
LEMMA AccessGives ==
  ASSUME IInv, Access, NEW f \in Writable, NEW v \in Nat, Assigns(Head(todo), f, v),
         registers \cap Slice(f) = OnesOf(f, v) \/ Covers(Head(todo), f)
  PROVE  registers' \cap Slice(f) = OnesOf(f, v)
<1>. DEFINE a == Head(todo)
<1>1. a \in GoodAccess
  BY NextAccess DEF Access
<1>2. Slice(f) \subseteq a.region \/ Slice(f) \cap a.region = {}
  BY <1>1 DEF GoodAccess, Field
<1>3. a.ones \subseteq a.region
  BY <1>1 DEF GoodAccess
<1>4. \/ registers' = (registers \ a.region) \cup a.ones
      \/ registers' = registers /\ registers \cap a.region = a.ones
  BY DEF Access, Needed, Stored
<1>5. OnesOf(f, v) \subseteq Slice(f)
  BY OnesInSlice
<1>6. Slice(f) \cap a.region = {} \/ a.ones \cap Slice(f) = OnesOf(f, v)
  BY DEF Assigns
<1>7. registers \cap Slice(f) = OnesOf(f, v) \/ Slice(f) \subseteq a.region
  BY DEF Covers
<1>. HIDE DEF a
<1>8. CASE Slice(f) \cap a.region = {}
  BY <1>3, <1>4, <1>5, <1>7, <1>8
<1>9. CASE Slice(f) \subseteq a.region /\ a.ones \cap Slice(f) = OnesOf(f, v)
  BY <1>3, <1>4, <1>9
<1>. QED BY <1>2, <1>6, <1>8, <1>9

LEMMA AccessKeeps == IInv /\ Kept /\ Access => Kept'
<1> SUFFICES ASSUME IInv, Kept, Access, call.answer = "success", ~failed,
                    NEW h \in call.holds
             PROVE  Settled(h[1], h[2])'
  BY DEF Access, Kept
<1>. DEFINE f == h[1]
            w == h[2]
<1>1. Settled(f, w)
  BY DEF Kept
<1>. HIDE DEF f, w
<1>2. PICK v \in Nat :
        /\ w = v % 2^f.len
        /\ \A i \in 1 .. Len(todo) : Assigns(todo[i], f, v)
        /\ \/ registers \cap Slice(f) = OnesOf(f, v)
           \/ \E i \in 1 .. Len(todo) : Covers(todo[i], f)
  BY <1>1 DEF Settled
<1>3. f \in Writable
  BY <1>1 DEF Settled
<1>4. /\ Len(todo) \in Nat /\ Len(todo) >= 1 /\ Head(todo) = todo[1]
      /\ todo' = Tail(todo) /\ Len(todo') = Len(todo) - 1
      /\ \A i \in 1 .. Len(todo') : todo'[i] = todo[i + 1]
  BY DEF Access, IInv
<1>5. Assigns(Head(todo), f, v)
  BY <1>2, <1>4
<1>6. \A i \in 1 .. Len(todo') : Assigns(todo'[i], f, v)
  BY <1>2, <1>4
<1>7. \/ registers' \cap Slice(f) = OnesOf(f, v)
      \/ \E i \in 1 .. Len(todo') : Covers(todo'[i], f)
  <2>1. CASE registers \cap Slice(f) = OnesOf(f, v) \/ Covers(Head(todo), f)
    BY <1>3, <1>5, <2>1, AccessGives
  <2>2. CASE \E i \in 1 .. Len(todo) : i # 1 /\ Covers(todo[i], f)
    <3>1. PICK i \in 1 .. Len(todo) : i # 1 /\ Covers(todo[i], f)
      BY <2>2
    <3>2. i - 1 \in 1 .. Len(todo') /\ todo'[i - 1] = todo[i]
      BY <1>4, <3>1
    <3>. QED BY <3>1, <3>2
  <2>. QED BY <1>2, <1>4, <2>1, <2>2
<1>8. Settled(f, w)'
  BY <1>2, <1>3, <1>6, <1>7 DEF Settled
<1>. QED BY <1>8 DEF f, w

LEMMA NextKept == IInv /\ Kept /\ [Next]_vars => Kept'
<1>. SUFFICES ASSUME IInv, Kept, [Next]_vars PROVE Kept'
  OBVIOUS
<1>1. ASSUME NEW c \in Calls, Begin(c) PROVE Kept'
  BY <1>1, BeginKeeps
<1>2. CASE Access
  BY <1>2, AccessKeeps
<1>3. CASE FailedAccess \/ FailedLook
  BY <1>3 DEF FailedAccess, FailedLook, Kept
<1>4. CASE UNCHANGED vars
  BY <1>4 DEF vars, Kept, Settled
<1>. QED BY <1>1, <1>2, <1>3, <1>4 DEF Next

\* When a call has reported success and none of its transfers failed, every setting
\* it names is read back as the number asked for.
THEOREM SettingsAreHeld == Spec => []HeldAsAsked
<1>1. IInv /\ Kept => HeldAsAsked
  <2> SUFFICES ASSUME Kept, todo = <<>>, call.answer = "success", ~failed,
                      NEW h \in call.holds
               PROVE  ValueIn(registers, h[1]) = h[2]
    BY DEF HeldAsAsked
  <2>1. Settled(h[1], h[2])
    BY DEF Kept
  <2>2. 1 .. Len(todo) = {}
    OBVIOUS
  <2>3. PICK v \in Nat : h[2] = v % 2^h[1].len /\ registers \cap Slice(h[1]) = OnesOf(h[1], v)
    BY <2>1, <2>2 DEF Settled
  <2>4. h[1] \in Writable
    BY <2>1 DEF Settled
  <2>. QED BY <2>3, <2>4, ReadBack
<1>. QED BY <1>1, Invariance, InitKept, NextKept, PTL DEF Spec

-----------------------------------------------------------------------------
\* The running modes (Bmi160Modes), whose calls are programs.

\* The instructions of the calls; those that do not start the offset compensation;
\* and of these the ones that do not jump.
Conditions == {"mag_on", "mag_off", "manual", "not_manual", "auto_condition"}
Fields ==
  {"none", "command_register", "mag_write_data", "mag_write_addr", "mag_read_addr",
   "mag_manual_enable", "target_page", "paging_enable", "pullup_configuration",
   "i2c_device_addr", "if_mode", "mag_output_data_rate", "output_enable_0",
   "output_enable_1", "intr_level_0", "intr_level_1", "fifo_time_enable",
   "fifo_stop_on_full", "intr_fifo_wm_0", "intr_fifo_wm_1", "fifo_wm", "accel_bw", "gyro_bw",
   "gyro_output_data_rate", "accel_output_data_rate", "fifo_header_enable",
   "fifo_mag_enable", "fifo_accel_enable", "fifo_gyro_enable", "intr_enable_0_x",
   "intr_enable_0_y", "intr_enable_0_z", "intr_enable_2_x", "intr_enable_2_y",
   "intr_enable_2_z", "gyro_sleep_trigger", "gyro_wakeup_trigger", "gyro_sleep_state",
   "gyro_wakeup_intr", "register_6C", "accel_offset_enable", "foc_accel_x", "foc_accel_y",
   "foc_accel_z", "gyro_offset_enable", "foc_gyro_enable"}
Operations == {"put", "get_if_mode", "awake", "trim", "auto_condition", "foc_rdy", "up"}
Instructions ==
  {i \in [op : Operations,
          field : Fields, value : Byte, when : SUBSET Conditions] :
     /\ i.op = "auto_condition" \/ i.field = "mag_manual_enable" => i.value \in 0 .. 1
     /\ i.field = "if_mode" => i.value \in {0, 2}}
ModeEnds ==
  [op : {"mode"}, field : Fields, value : Mode, when : SUBSET Conditions]
Plain ==
  {i \in Instructions \cup ModeEnds :
     /\ i.op # "foc_rdy"
     /\ i.field = "command_register" => i.value # START_FOC}
Straight == {i \in Plain : i.op \notin {"awake", "get_if_mode"}}
Legal == Instructions \cup ModeEnds

\* The instructions that have nothing to do with the magnetometer.
MagFields ==
  {"if_mode", "mag_manual_enable", "mag_read_addr", "mag_write_data", "mag_write_addr"}
Quiet ==
  {i \in Legal :
     /\ i.op \in {"put", "foc_rdy", "up"}
     /\ i.field \notin MagFields
     /\ i.field = "command_register" => i.value \notin {24, 25}}
NoRead == {i \in Legal : i.op # "get_if_mode"}
Ordinary == Straight \cap Quiet

\* Putting a value into a setting is a straight instruction, unless it is the command
\* that starts the compensation.
LEMMA Puts ==
  ASSUME NEW v \in Byte
  PROVE  /\ \A f \in Fields : f \notin {"mag_manual_enable", "command_register", "if_mode"} =>
               Put(f, v) \in Straight
         /\ v \in 0 .. 1 => Put("mag_manual_enable", v) \in Straight
         /\ v \in {0, 2} => Put("if_mode", v) \in Straight
         /\ v # 3 => Command(v) \in Straight
<1>1. ASSUME NEW f \in Fields, f = "mag_manual_enable" => v \in 0 .. 1,
             f = "if_mode" => v \in {0, 2}, f = "command_register" => v # 3
      PROVE  Put(f, v) \in Straight
  <2>. DEFINE i == [op |-> "put", field |-> f, value |-> v, when |-> {}]
  <2>1. Put(f, v) = i
    BY DEF Put, Instruction
  <2>2. i.op = "put" /\ i.field = f /\ i.value = v
    OBVIOUS
  <2>3. i \in [op : Operations,
          field : Fields, value : Byte, when : SUBSET Conditions]
    BY DEF Operations
  <2>. HIDE DEF i
  <2>4. i \in Instructions
    BY <1>1, <2>2, <2>3 DEF Instructions
  <2>5. i.field = "command_register" => i.value # START_FOC
    BY <1>1, <2>2 DEF START_FOC
  <2>6. i \in Plain
    BY <2>2, <2>4, <2>5 DEF Plain
  <2>. QED BY <2>1, <2>2, <2>6 DEF Straight
<1>. QED BY <1>1 DEF Command, Fields

\* So is what is not a transfer to a setting; the wake-up jumps back, and the interface
\* is read by a mode alone.
LEMMA Dos ==
  ASSUME NEW v \in Byte
  PROVE  /\ \A op \in {"trim", "up"} : Do(op, v) \in Straight
         /\ Do("awake", v) \in Plain /\ Do("get_if_mode", v) \in Plain
         /\ v \in 0 .. 1 => Do("auto_condition", v) \in Straight
<1>1. ASSUME NEW op \in {"get_if_mode", "awake", "trim", "auto_condition", "up"},
             op = "auto_condition" => v \in 0 .. 1
      PROVE  Do(op, v) \in Plain /\ Do(op, v).op = op
  <2>. DEFINE i == [op |-> op, field |-> "none", value |-> v, when |-> {}]
  <2>1. Do(op, v) = i
    BY DEF Do, Instruction
  <2>2. i.op = op /\ i.field = "none" /\ i.value = v
    OBVIOUS
  <2>a. "none" \in Fields
    BY DEF Fields
  <2>3. i \in [op : Operations,
          field : Fields, value : Byte, when : SUBSET Conditions]
    BY <2>a DEF Operations
  <2>. HIDE DEF i
  <2>. QED BY <1>1, <2>1, <2>2, <2>3 DEF Plain, Instructions
<1>. QED BY <1>1 DEF Straight

\* The end of a mode is straight.
LEMMA DoMode == \A m \in Mode : Do("mode", m) \in Straight
<1>. DEFINE M == Mode
<1>1. ASSUME NEW m \in M PROVE Do("mode", m) \in Straight
  <2>. HIDE DEF M
  <2>. DEFINE i == [op |-> "mode", field |-> "none", value |-> m, when |-> {}]
  <2>1. Do("mode", m) = i
    BY DEF Do, Instruction
  <2>2. i.op = "mode" /\ i.field = "none"
    OBVIOUS
  <2>a. "none" \in Fields
    BY DEF Fields
  <2>3. i \in [op : {"mode"}, field : Fields, value : M, when : SUBSET Conditions]
    BY <2>a DEF Operations
  <2>. HIDE DEF i
  <2>. QED BY <2>1, <2>2, <2>3 DEF Plain, Straight, ModeEnds, M
<1>. QED BY <1>1

\* Programs that jump back only as far as they go.
Sound(code) ==
  /\ code \in Seq(Plain)
  /\ \A p \in 1 .. Len(code) : code[p].op = "awake" => p > 3

\* A program of straight instructions does not jump.
LEMMA StraightIsSound == \A code \in Seq(Straight) : Sound(code)
<1>1. Seq(Straight) \subseteq Seq(Plain)
  BY DEF Straight
<1>2. ASSUME NEW code \in Seq(Straight), NEW p \in 1 .. Len(code) PROVE code[p].op # "awake"
  <2>1. code[p] \in Straight
    OBVIOUS
  <2>. QED BY <2>1 DEF Straight
<1>. QED BY <1>1, <1>2 DEF Sound

\* One sound program after another is sound.
LEMMA Joins ==
  ASSUME NEW a, NEW b, Sound(a), Sound(b)
  PROVE  Sound(a \o b)
<1>. DEFINE c == a \o b
<1>1. c \in Seq(Plain) /\ Len(a) \in Nat /\ Len(b) \in Nat /\ Len(c) = Len(a) + Len(b)
  BY DEF Sound
<1>2. /\ \A p \in 1 .. Len(a) : c[p] = a[p]
      /\ \A p \in Len(a) + 1 .. Len(c) : c[p] = b[p - Len(a)]
  BY DEF Sound
<1>3. ASSUME NEW p \in 1 .. Len(c), c[p].op = "awake" PROVE p > 3
  <2>. HIDE DEF c
  <2>1. CASE p \in 1 .. Len(a)
    BY <1>2, <1>3, <2>1 DEF Sound
  <2>2. CASE p \in Len(a) + 1 .. Len(c)
    <3>1. p - Len(a) \in 1 .. Len(b) /\ b[p - Len(a)].op = "awake"
      BY <1>1, <1>2, <1>3, <2>2
    <3>2. p - Len(a) > 3
      BY <3>1 DEF Sound
    <3>. QED BY <1>1, <3>2
  <2>. QED BY <1>1, <2>1, <2>2
<1>. QED BY <1>1, <1>3 DEF Sound

\* A condition around a program leaves it straight, and sound.
LEMMA Conditional ==
  ASSUME NEW c \in Conditions, NEW code
  PROVE  /\ code \in Seq(Straight) => When(c, code) \in Seq(Straight)
         /\ Sound(code) => Sound(When(c, code))
<1>. DEFINE w == When(c, code)
            With(i) == [i EXCEPT !.when = @ \cup {c}]
<1>0. ASSUME NEW i \in Plain
      PROVE  With(i) \in Plain /\ With(i).op = i.op
  <2>1. CASE i \in Instructions
    <3>1. With(i) \in [op : Operations, field : Fields, value : Byte, when : SUBSET Conditions]
      BY <2>1 DEF Instructions
    <3>2. With(i).op = i.op /\ With(i).field = i.field /\ With(i).value = i.value
      BY <2>1 DEF Instructions
    <3>. HIDE DEF With
    <3>3. With(i) \in Instructions
      BY <2>1, <3>1, <3>2 DEF Instructions
    <3>. QED BY <3>2, <3>3 DEF Plain
  <2>2. CASE i \in ModeEnds
    <3>. DEFINE M == Mode
    <3>0. ModeEnds = [op : {"mode"}, field : Fields, value : M, when : SUBSET Conditions]
      BY DEF ModeEnds
    <3>. HIDE DEF M
    <3>1. With(i) \in ModeEnds
      BY <2>2, <3>0
    <3>2. With(i).op = i.op /\ With(i).field = i.field /\ With(i).value = i.value
      BY <2>2, <3>0
    <3>. HIDE DEF With
    <3>. QED BY <3>1, <3>2 DEF Plain
  <2>. QED BY <2>1, <2>2 DEF Plain
<1>1. ASSUME code \in Seq(Plain)
      PROVE  /\ w \in Seq(Plain) /\ Len(w) = Len(code)
             /\ \A p \in 1 .. Len(code) : w[p] \in Plain /\ w[p].op = code[p].op
  <2>1. DOMAIN code = 1 .. Len(code) /\ Len(code) \in Nat /\ \A p \in 1 .. Len(code) : code[p] \in Plain
    BY <1>1
  <2>2. w = [p \in 1 .. Len(code) |-> With(code[p])]
    BY <2>1 DEF When
  <2>. HIDE DEF With, w
  <2>3. w \in [1 .. Len(code) -> Plain]
    BY <1>0, <2>1, <2>2
  <2>4. w \in Seq(Plain) /\ Len(w) = Len(code)
    BY <2>1, <2>3
  <2>. QED BY <1>0, <2>1, <2>2, <2>4
<1>2. ASSUME code \in Seq(Straight) PROVE w \in Seq(Straight)
  <2>1. code \in Seq(Plain) /\ Len(code) \in Nat
        /\ \A p \in 1 .. Len(code) : code[p] \in Straight
    BY <1>2 DEF Straight
  <2>. HIDE DEF w
  <2>2. \A p \in 1 .. Len(w) : w[p] \in Straight
    BY <1>1, <2>1 DEF Straight
  <2>. QED BY <1>1, <2>1, <2>2
<1>3. ASSUME Sound(code) PROVE Sound(w)
  <2>. HIDE DEF w
  <2>. QED BY <1>1, <1>3 DEF Sound
<1>. HIDE DEF w
<1>. QED BY <1>2, <1>3 DEF w

\* Writing to the BMM150, and reading a trim value, are straight.
LEMMA MagAccess ==
  ASSUME NEW a \in Byte, NEW v \in Byte
  PROVE  MagWrite(a, v) \in Seq(Straight) /\ MagRead("trim", a) \in Seq(Straight)
<1>1. /\ Put("mag_write_data", v) \in Straight
      /\ Put("mag_write_addr", a) \in Straight
      /\ Put("mag_read_addr", a) \in Straight
  BY Puts DEF Fields
<1>2. Do("trim", a) \in Straight
  BY Dos
<1>. QED BY <1>1, <1>2 DEF MagWrite, MagRead

\* The wake-up jumps back three instructions, over which it goes itself.
LEMMA WakeUpSound == Sound(mag_wakeup)
<1>. DEFINE a == Put("mag_write_data", 1)
            b == Put("mag_write_addr", 75)
            c == Put("mag_read_addr", 75)
            d == Do("awake", 75)
            s == <<a, b>> \o <<c, d>>
<1>1. a \in Straight /\ b \in Straight /\ c \in Straight
  BY Puts DEF Fields, Byte
<1>2. d \in Plain
  BY Dos DEF Byte
<1>3. a \in Plain /\ b \in Plain /\ c \in Plain
      /\ a.op # "awake" /\ b.op # "awake" /\ c.op # "awake"
  BY <1>1 DEF Straight
<1>4. mag_wakeup = s
  BY DEF mag_wakeup, MagWrite, MagRead, PowerControl
<1>. HIDE DEF a, b, c, d
<1>5. s \in Seq(Plain) /\ Len(s) = 4 /\ s[1] = a /\ s[2] = b /\ s[3] = c
  BY <1>2, <1>3
<1>6. 1 .. 4 = {1, 2, 3, 4}
  OBVIOUS
<1>. HIDE DEF s
<1>7. \A p \in 1 .. Len(s) : s[p].op = "awake" => p > 3
  BY <1>3, <1>5, <1>6
<1>. QED BY <1>4, <1>5, <1>7 DEF Sound

\* It does not read the interface.
LEMMA WakeUpNoRead == mag_wakeup \in Seq(NoRead)
<1>. DEFINE a == Put("mag_write_data", 1)
            b == Put("mag_write_addr", 75)
            c == Put("mag_read_addr", 75)
            d == Do("awake", 75)
<1>1. Straight \subseteq NoRead /\ Plain \subseteq Legal
  BY DEF Straight, NoRead, Plain, Legal
<1>2. a \in NoRead /\ b \in NoRead /\ c \in NoRead
  BY <1>1, Puts DEF Fields, Byte
<1>3. d \in NoRead
  <2>1. d \in Plain
    BY Dos DEF Byte
  <2>2. d.op = "awake"
    BY DEF Do, Instruction
  <2>. HIDE DEF d
  <2>. QED BY <1>1, <2>1, <2>2 DEF NoRead
<1>4. mag_wakeup = <<a, b>> \o <<c, d>>
  BY DEF mag_wakeup, MagWrite, MagRead, PowerControl
<1>. HIDE DEF a, b, c, d
<1>. QED BY <1>2, <1>3, <1>4

\* Reading the trim values is straight.
LEMMA TrimStraight == read_mag_trim \in Seq(Straight)
<1>. DEFINE T == TrimRegisters
            At(n) == MagRead("trim", T[(n + 1) \div 2])[2 - (n % 2)]
<1>1. Len(T) = 16 /\ \A i \in 1 .. 16 : T[i] \in Byte
  BY DEF TrimRegisters, Byte
<1>2. read_mag_trim = [n \in 1 .. 32 |-> At(n)]
  BY <1>1 DEF read_mag_trim
<1>. HIDE DEF T
<1>3. ASSUME NEW n \in 1 .. 32 PROVE At(n) \in Straight
  <2>1. (n + 1) \div 2 \in 1 .. 16 /\ 2 - (n % 2) \in {1, 2}
    OBVIOUS
  <2>2. /\ Put("mag_read_addr", T[(n + 1) \div 2]) \in Straight
        /\ Do("trim", T[(n + 1) \div 2]) \in Straight
    BY <1>1, <2>1, Puts, Dos DEF Fields
  <2>. QED BY <2>1, <2>2 DEF MagRead
<1>. HIDE DEF At
<1>4. [n \in 1 .. 32 |-> At(n)] \in Seq(Straight)
  BY <1>3
<1>. QED BY <1>2, <1>4

\* So are the changes between manual and automatic mode.
LEMMA Straights ==
  /\ manual \in Seq(Straight) /\ automatic \in Seq(Straight)
  /\ \A a, v \in Byte : MagWrite(a, v) \in Seq(Straight)
<1>1. Put("mag_manual_enable", 1) \in Straight
      /\ Put("mag_manual_enable", 0) \in Straight
  BY Puts DEF Byte
<1>2. /\ <<Put("mag_manual_enable", 1)>> \in Seq(Straight)
      /\ <<Put("mag_manual_enable", 0)>> \in Seq(Straight)
  BY <1>1
<1>3. manual \in Seq(Straight) /\ automatic \in Seq(Straight)
  BY <1>2, Conditional DEF manual, automatic, Conditions
<1>. QED BY <1>3, MagAccess

\* So are the presets, whatever repetitions and rate they set.
LEMMA PresetStraight ==
  /\ \A xy, z, dr \in Byte : set_mag_presetmode(xy, z, dr) \in Seq(Straight)
  /\ preset \in Seq(Straight)
  /\ \A p \in DOMAIN Preset : Preset[p] \in Seq(Straight)
<1>1. ASSUME NEW xy \in Byte, NEW z \in Byte, NEW dr \in Byte
      PROVE  set_mag_presetmode(xy, z, dr) \in Seq(Straight)
  <2>. DEFINE a == MagWrite(Repetitions.xy, xy)
              b == MagWrite(Repetitions.z, z)
              c == MagWrite(PowerMode, dr)
              d == MagWrite(PowerMode, 2)
              e == <<Put("mag_read_addr", DataRegister)>>
              f == When("auto_condition", d \o e \o automatic)
  <2>0. Repetitions.xy \in Byte /\ Repetitions.z \in Byte
        /\ PowerMode \in Byte /\ DataRegister \in Byte /\ 2 \in Byte
    BY DEF Repetitions, PowerMode, DataRegister, Byte
  <2>1. a \in Seq(Straight) /\ b \in Seq(Straight) /\ c \in Seq(Straight) /\ d \in Seq(Straight)
    BY <2>0, MagAccess
  <2>2. Put("mag_read_addr", DataRegister) \in Straight
    BY <2>0, Puts DEF Fields
  <2>3. e \in Seq(Straight)
    BY <2>2
  <2>. HIDE DEF a, b, c, d, e
  <2>4. d \o e \o automatic \in Seq(Straight)
    BY <2>1, <2>3, Straights
  <2>5. f \in Seq(Straight)
    BY <2>4, Conditional DEF Conditions
  <2>. HIDE DEF f
  <2>6. manual \o a \o b \o c \o f \in Seq(Straight)
    BY <2>1, <2>5, Straights
  <2>. QED BY <2>6 DEF set_mag_presetmode, a, b, c, d, e, f
<1>2. /\ Preset.low_power \in Seq(Straight) /\ Preset.regular \in Seq(Straight)
      /\ Preset.high_accuracy \in Seq(Straight) /\ Preset.enhanced \in Seq(Straight)
  <2>1. /\ 1 \in Byte /\ 2 \in Byte /\ 4 \in Byte /\ 14 \in Byte /\ 23 \in Byte
        /\ 82 \in Byte /\ 42 \in Byte /\ 7 \in Byte /\ 26 \in Byte
    BY DEF Byte
  <2>. HIDE DEF Byte
  <2>. QED BY <1>1, <2>1 DEF Preset
<1>3. preset \in Seq(Straight)
  <2>1. Do("auto_condition", 1) \in Straight /\ Do("auto_condition", 0) \in Straight
    BY Dos DEF Byte
  <2>. DEFINE a == <<Do("auto_condition", 1)>>
              b == <<Do("auto_condition", 0)>>
  <2>2. a \in Seq(Straight) /\ b \in Seq(Straight)
    BY <2>1
  <2>. HIDE DEF a, b
  <2>3. a \o Preset.regular \o b \in Seq(Straight)
    BY <1>2, <2>2
  <2>. QED BY <2>3 DEF preset, a, b
<1>4. DOMAIN Preset = {"low_power", "regular", "high_accuracy", "enhanced"}
  BY DEF Preset
<1>. QED BY <1>1, <1>2, <1>3, <1>4

\* The three programs around the magnetometer are sound; initialising and suspending
\* never read the interface.
LEMMA InterfaceSound ==
  /\ Sound(mag_interface_init) /\ mag_interface_init \in Seq(NoRead)
  /\ mag_suspend \in Seq(Straight)
  /\ Sound(mag_force)
<1>0. PowerMode = 76 /\ PowerControl = 75 /\ DataRegister = 66
  BY DEF PowerMode, PowerControl, DataRegister
<1>1. /\ Command(17) \in Straight /\ Command(25) \in Straight
      /\ Command(55) \in Straight /\ Command(154) \in Straight
      /\ Command(192) \in Straight /\ Command(24) \in Straight
  BY Puts DEF Byte
<1>2. /\ Put("target_page", 1) \in Straight /\ Put("target_page", 0) \in Straight
      /\ Put("paging_enable", 1) \in Straight
      /\ Put("pullup_configuration", 3) \in Straight
      /\ Put("i2c_device_addr", 19) \in Straight
      /\ Put("mag_output_data_rate", 5) \in Straight
      /\ Put("mag_read_addr", 66) \in Straight
  BY Puts DEF Byte, Fields
<1>3. /\ Put("mag_manual_enable", 1) \in Straight
      /\ Put("mag_manual_enable", 0) \in Straight
      /\ Put("if_mode", 2) \in Straight
  BY Puts DEF Byte
<1>4. /\ MagWrite(76, 6) \in Seq(Straight) /\ MagWrite(76, 2) \in Seq(Straight)
      /\ MagWrite(75, 0) \in Seq(Straight)
  <2>1. 76 \in Byte /\ 75 \in Byte /\ 6 \in Byte /\ 2 \in Byte /\ 0 \in Byte
    BY DEF Byte
  <2>. QED BY <2>1, MagAccess
<1>5. Sound(mag_interface_init) /\ mag_interface_init \in Seq(NoRead)
  <2>. DEFINE a == <<Command(17), Command(25), Command(55),
                     Command(154), Command(192), Put("target_page", 1),
                     Put("paging_enable", 1), Put("pullup_configuration", 3),
                     Put("target_page", 0), Put("i2c_device_addr", 19),
                     Put("mag_manual_enable", 1), Put("if_mode", 2)>>
              b == MagWrite(76, 6)
              c == MagWrite(76, 2)
              d == <<Put("mag_output_data_rate", 5), Put("mag_read_addr", 66),
                     Put("mag_manual_enable", 0)>>
  <2>1. a \in Seq(Straight) /\ d \in Seq(Straight)
    BY <1>1, <1>2, <1>3
  <2>. HIDE DEF a, b, c, d
  <2>2. Sound(a) /\ Sound(b) /\ Sound(c) /\ Sound(d) /\ Sound(mag_wakeup)
        /\ Sound(read_mag_trim) /\ Sound(preset)
    BY <1>4, <2>1, StraightIsSound, WakeUpSound, TrimStraight, PresetStraight DEF b, c
  <2>3. Sound(a \o mag_wakeup \o b \o read_mag_trim \o preset \o c \o d)
    BY <2>2, Joins
  <2>4. Seq(Straight) \subseteq Seq(NoRead)
    BY DEF Straight, NoRead, Plain, Legal
  <2>5. /\ a \in Seq(NoRead) /\ b \in Seq(NoRead) /\ c \in Seq(NoRead) /\ d \in Seq(NoRead)
        /\ read_mag_trim \in Seq(NoRead) /\ preset \in Seq(NoRead)
    BY <1>4, <2>1, <2>4, TrimStraight, PresetStraight DEF b, c
  <2>6. a \o mag_wakeup \o b \o read_mag_trim \o preset \o c \o d
          \in Seq(NoRead)
    BY <2>5, WakeUpNoRead
  <2>. QED BY <1>0, <2>3, <2>6 DEF mag_interface_init, a, b, c, d
<1>6. mag_suspend \in Seq(Straight)
  <2>. DEFINE a == <<Command(17)>>
              b == <<Command(24)>>
              c == MagWrite(75, 0)
  <2>1. a \in Seq(Straight) /\ b \in Seq(Straight)
    BY <1>1
  <2>. HIDE DEF a, b, c
  <2>2. a \o manual \o manual \o c \o b \in Seq(Straight)
    BY <1>4, <2>1, Straights DEF c
  <2>. QED BY <1>0, <2>2 DEF mag_suspend, a, b, c
<1>7. Sound(mag_force)
  <2>. DEFINE a == <<Command(17)>>
              b == <<Command(25)>>
              c == MagWrite(76, 2)
              d == <<Put("mag_read_addr", 66)>>
  <2>1. a \in Seq(Straight) /\ b \in Seq(Straight) /\ d \in Seq(Straight)
    BY <1>1, <1>2
  <2>. HIDE DEF a, b, c, d
  <2>2. Sound(a) /\ Sound(b) /\ Sound(c) /\ Sound(d) /\ Sound(mag_wakeup)
        /\ Sound(manual) /\ Sound(automatic) /\ Sound(preset)
    BY <1>4, <2>1, StraightIsSound, WakeUpSound, Straights, PresetStraight DEF c
  <2>3. Sound(a \o manual \o b \o manual \o mag_wakeup \o c \o preset
                \o d \o automatic \o automatic)
    BY <2>2, Joins
  <2>. QED BY <1>0, <2>3 DEF mag_force, a, b, c, d
<1>. QED BY <1>5, <1>6, <1>7

\* The numbers the modes put into settings.
LEMMA Ones ==
  /\ \A f \in Fields : f \notin MagFields \cup {"command_register"} =>
       \A v \in {0, 1, 2, 3, 4, 5, 6, 8, 9, 10, 12, 19} : Put(f, v) \in Ordinary
  /\ \A v \in {17, 18, 20, 21, 55, 154, 192} : Command(v) \in Ordinary
<1>1. {0, 1, 2, 3, 4, 5, 6, 8, 9, 10, 12, 19, 17, 18, 20, 21, 55, 154, 192} \subseteq Byte
  BY DEF Byte
<1>2. ASSUME NEW f \in Fields, NEW v \in Byte, f \notin MagFields, Put(f, v) \in Straight,
             f = "command_register" => v \notin {24, 25}
      PROVE  Put(f, v) \in Ordinary
  <2>. DEFINE i == Put(f, v)
  <2>1. i.op = "put" /\ i.field = f /\ i.value = v
    BY DEF Put, Instruction
  <2>2. i \in Straight
    BY <1>2
  <2>. HIDE DEF i
  <2>3. i \in Quiet
    BY <1>2, <2>1, <2>2 DEF Quiet, Legal, Straight, Plain
  <2>. QED BY <2>2, <2>3 DEF Ordinary, i
<1>3. ASSUME NEW f \in Fields, f \notin MagFields \cup {"command_register"},
             NEW v \in {0, 1, 2, 3, 4, 5, 6, 8, 9, 10, 12, 19}
      PROVE  Put(f, v) \in Ordinary
  <2>1. Put(f, v) \in Straight
    BY <1>1, <1>3, Puts DEF MagFields
  <2>. QED BY <1>1, <1>2, <1>3, <2>1
<1>4. ASSUME NEW v \in {17, 18, 20, 21, 55, 154, 192} PROVE Command(v) \in Ordinary
  <2>1. Command(v) \in Straight
    BY <1>1, <1>4, Puts
  <2>2. "command_register" \in Fields \ MagFields
    BY DEF Fields, MagFields
  <2>. QED BY <1>1, <1>2, <1>4, <2>1, <2>2 DEF Command
<1>. QED BY <1>3, <1>4

\* Waking both sensors has nothing to do with the magnetometer.
LEMMA AwakeOrdinary ==
  \A a, g \in {0, 2} : \A r \in {6, 8, 9, 10, 12} : AwakeAt(a, g, r) \in Seq(Ordinary)
<1> SUFFICES ASSUME NEW a \in {0, 2}, NEW g \in {0, 2}, NEW r \in {6, 8, 9, 10, 12}
             PROVE  AwakeAt(a, g, r) \in Seq(Ordinary)
  OBVIOUS
<1>1. {"accel_bw", "gyro_bw", "gyro_output_data_rate", "accel_output_data_rate"}
        \subseteq Fields \ (MagFields \cup {"command_register"})
  BY DEF Fields, MagFields
<1>2. Put("accel_bw", a) \in Ordinary /\ Put("gyro_bw", g) \in Ordinary
  BY <1>1, Ones
<1>3. Put("gyro_output_data_rate", r) \in Ordinary
      /\ Put("accel_output_data_rate", r) \in Ordinary
  BY <1>1, Ones
<1>4. Command(17) \in Ordinary /\ Command(21) \in Ordinary
  BY Ones
<1>. QED BY <1>2, <1>3, <1>4 DEF AwakeAt

\* Nor have the interrupt pins and the FIFO.
LEMMA PinsAndFifo ==
  /\ interrupt_configuration \in Seq(Ordinary)
  /\ fifo_configuration \in Seq(Ordinary)
<1>1. /\ Put("output_enable_0", 1) \in Ordinary /\ Put("output_enable_1", 1) \in Ordinary
      /\ Put("intr_level_0", 1) \in Ordinary /\ Put("intr_level_1", 1) \in Ordinary
  BY Ones DEF Fields, MagFields
<1>2. /\ Put("fifo_time_enable", 1) \in Ordinary
      /\ Put("fifo_stop_on_full", 1) \in Ordinary
      /\ Put("intr_fifo_wm_0", 1) \in Ordinary /\ Put("intr_fifo_wm_1", 1) \in Ordinary
      /\ Put("fifo_wm", 2) \in Ordinary
  BY Ones DEF Fields, MagFields
<1>. QED BY <1>1, <1>2 DEF interrupt_configuration, fifo_configuration

\* The running modes.
LEMMA ModeNames ==
  Mode = {"nine_dof_fifo", "imu_fifo", "imu", "advance_power_save", "pedometer",
                "head_tracking", "navigation", "remote_control", "indoor_navigation"}
  BY DEF Mode, Configuration

\* What a mode does after the magnetometer is as it needs it has nothing to do with it.
LEMMA ConfigurationOrdinary == \A m \in Mode : Configuration[m] \in Seq(Ordinary)
<1>1. /\ AwakeAt(2, 2, 8) \in Seq(Ordinary) /\ AwakeAt(2, 2, 12) \in Seq(Ordinary)
      /\ AwakeAt(0, 2, 6) \in Seq(Ordinary) /\ AwakeAt(0, 0, 9) \in Seq(Ordinary)
      /\ AwakeAt(0, 0, 10) \in Seq(Ordinary)
  BY AwakeOrdinary
<1>2. /\ Configuration["imu"] = AwakeAt(2, 2, 8)
      /\ Configuration["head_tracking"] = AwakeAt(2, 2, 12)
      /\ Configuration["navigation"] = AwakeAt(0, 2, 6)
      /\ Configuration["remote_control"] = AwakeAt(0, 0, 9)
      /\ Configuration["indoor_navigation"] = AwakeAt(0, 0, 10)
  BY DEF Configuration
<1>3. Configuration["nine_dof_fifo"] \in Seq(Ordinary)
  <2>. DEFINE a == <<Put("fifo_header_enable", 1), Put("fifo_mag_enable", 1),
                     Put("fifo_accel_enable", 1), Put("fifo_gyro_enable", 1)>>
  <2>1. /\ Put("fifo_header_enable", 1) \in Ordinary
        /\ Put("fifo_mag_enable", 1) \in Ordinary
        /\ Put("fifo_accel_enable", 1) \in Ordinary
        /\ Put("fifo_gyro_enable", 1) \in Ordinary
    BY Ones DEF Fields, MagFields
  <2>2. a \in Seq(Ordinary)
    BY <2>1
  <2>3. Configuration["nine_dof_fifo"]
          = AwakeAt(2, 2, 8) \o interrupt_configuration \o a \o fifo_configuration
    BY DEF Configuration
  <2>. HIDE DEF a
  <2>. QED BY <1>1, <2>2, <2>3, PinsAndFifo
<1>4. Configuration["imu_fifo"] \in Seq(Ordinary)
  <2>. DEFINE a == <<Put("fifo_header_enable", 1), Put("fifo_accel_enable", 1),
                     Put("fifo_gyro_enable", 1)>>
  <2>1. /\ Put("fifo_header_enable", 1) \in Ordinary
        /\ Put("fifo_accel_enable", 1) \in Ordinary
        /\ Put("fifo_gyro_enable", 1) \in Ordinary
    BY Ones DEF Fields, MagFields
  <2>2. a \in Seq(Ordinary)
    BY <2>1
  <2>3. Configuration["imu_fifo"]
          = AwakeAt(2, 2, 8) \o interrupt_configuration \o a \o fifo_configuration
    BY DEF Configuration
  <2>. HIDE DEF a
  <2>. QED BY <1>1, <2>2, <2>3, PinsAndFifo
<1>5. Configuration["advance_power_save"] \in Seq(Ordinary)
  <2>. DEFINE a == <<Command(17), Put("accel_bw", 2), Put("gyro_bw", 2),
                     Put("gyro_output_data_rate", 8), Put("accel_output_data_rate", 8)>>
              b == <<Put("intr_enable_0_x", 1), Put("intr_enable_0_y", 1),
                     Put("intr_enable_0_z", 1)>>
              c == <<Put("intr_enable_2_x", 1), Put("intr_enable_2_y", 1),
                     Put("intr_enable_2_z", 1)>>
              d == <<Put("gyro_sleep_trigger", 4), Put("gyro_wakeup_trigger", 2),
                     Put("gyro_sleep_state", 0), Put("gyro_wakeup_intr", 0)>>
  <2>1. /\ Command(17) \in Ordinary /\ Put("accel_bw", 2) \in Ordinary
        /\ Put("gyro_bw", 2) \in Ordinary
        /\ Put("gyro_output_data_rate", 8) \in Ordinary
        /\ Put("accel_output_data_rate", 8) \in Ordinary
    BY Ones DEF Fields, MagFields
  <2>2. /\ Put("intr_enable_0_x", 1) \in Ordinary
        /\ Put("intr_enable_0_y", 1) \in Ordinary
        /\ Put("intr_enable_0_z", 1) \in Ordinary
        /\ Put("intr_enable_2_x", 1) \in Ordinary
        /\ Put("intr_enable_2_y", 1) \in Ordinary
        /\ Put("intr_enable_2_z", 1) \in Ordinary
    BY Ones DEF Fields, MagFields
  <2>3. /\ Put("gyro_sleep_trigger", 4) \in Ordinary
        /\ Put("gyro_wakeup_trigger", 2) \in Ordinary
        /\ Put("gyro_sleep_state", 0) \in Ordinary
        /\ Put("gyro_wakeup_intr", 0) \in Ordinary
    BY Ones DEF Fields, MagFields
  <2>4. a \in Seq(Ordinary) /\ b \in Seq(Ordinary) /\ c \in Seq(Ordinary) /\ d \in Seq(Ordinary)
    BY <2>1, <2>2, <2>3
  <2>5. Configuration["advance_power_save"] = a \o b \o c \o d
    BY DEF Configuration
  <2>. HIDE DEF a, b, c, d
  <2>. QED BY <2>4, <2>5
<1>6. Configuration["pedometer"] \in Seq(Ordinary)
  <2>1. /\ Command(18) \in Ordinary /\ Command(20) \in Ordinary
        /\ Put("accel_bw", 0) \in Ordinary
        /\ Put("accel_output_data_rate", 6) \in Ordinary
    BY Ones DEF Fields, MagFields
  <2>2. Configuration["pedometer"]
          = <<Command(18), Command(20), Put("accel_bw", 0),
              Put("accel_output_data_rate", 6)>>
    BY DEF Configuration
  <2>. QED BY <2>1, <2>2
<1>. QED BY <1>1, <1>2, <1>3, <1>4, <1>5, <1>6, ModeNames

\* A mode, up to the last settings it makes.
Interface(m) ==
  <<Do("get_if_mode", 0)>>
    \o (IF m \in WithMag THEN When("mag_off", mag_interface_init)
        ELSE When("mag_on", mag_suspend \o <<Put("if_mode", 0)>>))

\* Every mode is sound.
LEMMA ModeSound ==
  ASSUME NEW m \in Mode
  PROVE  Sound(Interface(m)) /\ Sound(config_running_mode(m))
<1>1. Sound(<<Do("get_if_mode", 0)>>)
  <2>. DEFINE i == Do("get_if_mode", 0)
              c == <<i>>
  <2>0. i \in Plain
    BY Dos DEF Byte
  <2>1. i.op = "get_if_mode"
    BY DEF Do, Instruction
  <2>. HIDE DEF i
  <2>2. c \in Seq(Plain) /\ Len(c) = 1 /\ c[1] = i
    BY <2>0
  <2>3. 1 .. 1 = {1}
    OBVIOUS
  <2>. HIDE DEF c
  <2>4. Sound(c)
    BY <2>1, <2>2, <2>3 DEF Sound
  <2>. QED BY <2>4 DEF c, i
<1>2. Sound(When("mag_off", mag_interface_init))
  BY InterfaceSound, Conditional DEF Conditions
<1>3. Sound(When("mag_on", mag_suspend \o <<Put("if_mode", 0)>>))
  <2>1. Put("if_mode", 0) \in Straight
    BY Puts DEF Byte
  <2>. DEFINE a == <<Put("if_mode", 0)>>
  <2>2. a \in Seq(Straight)
    BY <2>1
  <2>. HIDE DEF a
  <2>3. mag_suspend \o a \in Seq(Straight)
    BY <2>2, InterfaceSound
  <2>4. Sound(When("mag_on", mag_suspend \o a))
    BY <2>3, StraightIsSound, Conditional DEF Conditions
  <2>. QED BY <2>4 DEF a
<1>4. Sound(Interface(m))
  BY <1>1, <1>2, <1>3, Joins DEF Interface
<1>5. Sound(<<Do("mode", m)>>)
  <2>1. Do("mode", m) \in Straight
    BY DoMode
  <2>. DEFINE i == Do("mode", m)
  <2>. HIDE DEF i
  <2>2. <<i>> \in Seq(Straight)
    BY <2>1 DEF i
  <2>. QED BY <2>2, StraightIsSound DEF i
<1>6. Sound(Configuration[m])
  <2>1. Seq(Ordinary) \subseteq Seq(Straight)
    BY DEF Ordinary
  <2>. QED BY <2>1, ConfigurationOrdinary, StraightIsSound
<1>7. Sound(Interface(m) \o Configuration[m] \o <<Do("mode", m)>>)
  BY <1>4, <1>5, <1>6, Joins
<1>. QED BY <1>4, <1>7 DEF config_running_mode, Interface

\* The initialisation is sound.
LEMMA InitializeSound == Sound(initialize_sensor)
<1>. DEFINE i == Put("register_6C", 0)
<1>1. i \in Straight
  BY Ones DEF Fields, MagFields, Ordinary
<1>. HIDE DEF i
<1>2. <<i>> \in Seq(Straight)
  BY <1>1
<1>3. Sound(<<i>>)
  BY <1>2, StraightIsSound
<1>4. /\ Sound(config_running_mode("nine_dof_fifo"))
      /\ Sound(config_running_mode("pedometer"))
  BY ModeNames, ModeSound
<1>. QED BY <1>3, <1>4, Joins DEF initialize_sensor, i

\* The calls after start-up.
LEMMA CodeSound ==
  \A c \in DOMAIN Code : c # "start_up" => Sound(Code[c])
<1>1. DOMAIN Code =
        {"nine_dof_fifo", "imu_fifo", "imu", "advance_power_save", "pedometer",
         "head_tracking", "navigation", "remote_control", "indoor_navigation"}
          \cup {"low_power", "regular", "high_accuracy", "enhanced"}
          \cup {"mag_force", "start_up"}
  BY DEF Code
<1>2. ASSUME NEW c \in {"nine_dof_fifo", "imu_fifo", "imu", "advance_power_save", "pedometer",
                        "head_tracking", "navigation", "remote_control", "indoor_navigation"}
      PROVE  Sound(Code[c])
  <2>1. Code[c] = config_running_mode(c)
    BY DEF Code
  <2>. QED BY <2>1, ModeNames, ModeSound
<1>3. ASSUME NEW c \in {"low_power", "regular", "high_accuracy", "enhanced"}
      PROVE  Sound(Code[c])
  <2>1. Code[c] = Preset[c]
    BY DEF Code, Preset
  <2>2. c \in DOMAIN Preset
    BY DEF Preset
  <2>. QED BY <2>1, <2>2, PresetStraight, StraightIsSound
<1>4. Sound(Code["mag_force"])
  <2>1. Code["mag_force"] = mag_force
    BY DEF Code
  <2>. QED BY <2>1, InterfaceSound
<1>. QED BY <1>1, <1>2, <1>3, <1>4

-----------------------------------------------------------------------------
\* Start-up: what comes before the two sensors are woken for the compensation, and
\* the rest.
Before == initialize_sensor \o Interface("navigation")

\* The instructions that leave the sensors awake.
Calm ==
  {i \in Legal :
     /\ i.op \in {"put", "foc_rdy", "mode", "up"} /\ i.field \notin MagFields /\ i.when = {}
     /\ i.field = "command_register" => i.value = 3}

FirstSeven ==
  <<Command(17), Command(21), Put("accel_bw", 0), Put("gyro_bw", 2),
    Put("gyro_output_data_rate", 6), Put("accel_output_data_rate", 6),
    Do("mode", "navigation")>>
Rest == FirstSeven \o accel_foc \o gyro_foc \o <<Do("up", 0)>>

\* A plain program is legal.
LEMMA LegalPlain == Seq(Plain) \subseteq Seq(Legal)
  BY DEF Plain, Legal

\* Settings that are neither about the magnetometer nor commands, the command that starts
\* the compensation, its poll and the ends of mode and start-up leave the sensors awake.
LEMMA CalmPuts ==
  /\ \A f \in Fields : f \notin MagFields \cup {"command_register"} =>
       \A v \in {0, 1, 2, 3, 6} : Put(f, v) \in Calm \cap Quiet
  /\ Command(3) \in Calm \cap Quiet
  /\ Do("foc_rdy", 0) \in Calm \cap Quiet /\ Do("up", 0) \in Calm \cap Quiet
  /\ Do("mode", "navigation") \in Calm
<1>0. "command_register" \notin MagFields /\ "none" \notin MagFields
  BY DEF MagFields
<1>1. ASSUME NEW f \in Fields, f \notin MagFields \cup {"command_register"},
             NEW v \in {0, 1, 2, 3, 6}
      PROVE  Put(f, v) \in Calm \cap Quiet
  <2>. DEFINE i == Put(f, v)
  <2>1. i \in Quiet
    BY <1>1, Ones DEF Ordinary
  <2>2. i.field = f /\ i.when = {}
    BY DEF Put, Instruction
  <2>. HIDE DEF i
  <2>3. i \in Calm
    BY <1>1, <2>1, <2>2 DEF Calm, Quiet
  <2>. QED BY <2>1, <2>3 DEF i
<1>2. Command(3) \in Calm \cap Quiet
  <2>. DEFINE i == [op |-> "put", field |-> "command_register", value |-> 3, when |-> {}]
  <2>1. Command(3) = i
    BY DEF Command, Put, Instruction
  <2>2. i \in [op : Operations, field : Fields, value : Byte, when : SUBSET Conditions]
    BY DEF Operations, Fields, Byte
  <2>3. i.op = "put" /\ i.field = "command_register" /\ i.value = 3 /\ i.when = {}
    OBVIOUS
  <2>. HIDE DEF i
  <2>4. i \in Instructions
    BY <2>2, <2>3 DEF Instructions
  <2>. QED BY <1>0, <2>1, <2>3, <2>4 DEF Calm, Legal, Quiet
<1>3. \A op : \A v : /\ Do(op, v).field = "none" /\ Do(op, v).when = {}
                     /\ Do(op, v).op = op
  BY DEF Do, Instruction
<1>4. Do("up", 0) \in Straight /\ Do("mode", "navigation") \in Straight
  BY Dos, DoMode, ModeNames DEF Byte
<1>5. ASSUME NEW i \in Legal, i.field = "none", i.when = {}, i.op \in {"foc_rdy", "mode", "up"}
      PROVE  i \in Calm /\ (i.op # "mode" => i \in Quiet)
  BY <1>0, <1>5 DEF Calm, Quiet
<1>6. Do("foc_rdy", 0) \in Legal
  <2>. DEFINE i == [op |-> "foc_rdy", field |-> "none", value |-> 0, when |-> {}]
  <2>1. Do("foc_rdy", 0) = i
    BY DEF Do, Instruction
  <2>2. i \in [op : Operations, field : Fields, value : Byte, when : SUBSET Conditions]
    BY DEF Operations, Fields, Byte
  <2>3. i.op = "foc_rdy" /\ i.field = "none"
    OBVIOUS
  <2>. HIDE DEF i
  <2>4. i \in Instructions
    BY <2>2, <2>3 DEF Instructions
  <2>. QED BY <2>1, <2>4 DEF Legal
<1>7. Straight \subseteq Legal
  BY DEF Straight, Plain, Legal
<1>8. Do("up", 0) \in Calm \cap Quiet /\ Do("mode", "navigation") \in Calm
  BY <1>3, <1>4, <1>5, <1>7
<1>9. Do("foc_rdy", 0) \in Calm \cap Quiet
  BY <1>3, <1>5, <1>6
<1>. QED BY <1>1, <1>2, <1>8, <1>9

\* So does the compensation.
LEMMA FocCalm ==
  /\ accel_foc \in Seq(Calm \cap Quiet) /\ gyro_foc \in Seq(Calm \cap Quiet)
  /\ <<Do("up", 0)>> \in Seq(Calm \cap Quiet)
<1>. DEFINE K == Calm \cap Quiet
<1>1. /\ Put("accel_offset_enable", 1) \in K /\ Put("foc_accel_x", 3) \in K
      /\ Put("foc_accel_y", 3) \in K /\ Put("foc_accel_z", 1) \in K
      /\ Put("gyro_offset_enable", 1) \in K /\ Put("foc_gyro_enable", 1) \in K
  BY CalmPuts DEF Fields, MagFields
<1>2. /\ START_FOC = 3 /\ Command(3) \in K
      /\ Do("foc_rdy", 0) \in K /\ Do("up", 0) \in K
  BY CalmPuts DEF START_FOC
<1>. HIDE DEF K
<1>3. accel_foc \in Seq(K)
  BY <1>1, <1>2 DEF accel_foc
<1>4. gyro_foc \in Seq(K)
  BY <1>1, <1>2 DEF gyro_foc
<1>5. <<Do("up", 0)>> \in Seq(K)
  <2>. DEFINE i == Do("up", 0)
  <2>1. i \in K
    BY <1>2
  <2>. HIDE DEF i
  <2>2. <<i>> \in Seq(K)
    BY <2>1
  <2>. QED BY <2>2 DEF i
<1>. QED BY <1>3, <1>4, <1>5 DEF K

\* The first seven instructions of the rest.
LEMMA FirstSevenAre ==
  /\ FirstSeven \in Seq(Legal) /\ Len(FirstSeven) = 7
  /\ FirstSeven[1] = Command(17) /\ FirstSeven[2] = Command(21)
  /\ FirstSeven[1] \in Straight /\ FirstSeven[2] \in Straight
  /\ \A p \in 3 .. 7 : FirstSeven[p] \in Calm
<1>1. Command(17) \in Straight /\ Command(21) \in Straight
  BY Ones DEF Ordinary
<1>2. /\ Put("accel_bw", 0) \in Calm /\ Put("gyro_bw", 2) \in Calm
      /\ Put("gyro_output_data_rate", 6) \in Calm
      /\ Put("accel_output_data_rate", 6) \in Calm
      /\ Do("mode", "navigation") \in Calm
  BY CalmPuts DEF Fields, MagFields
<1>3. Straight \subseteq Legal /\ Calm \subseteq Legal
  BY DEF Straight, Plain, Legal, Calm
<1>4. 3 .. 7 = {3, 4, 5, 6, 7}
  OBVIOUS
<1>. QED BY <1>1, <1>2, <1>3, <1>4 DEF FirstSeven

Cat(s, t) == s \o t

\* Concatenation, as an operator of its own: the prover then sees its associativity.
LEMMA Cats ==
  /\ \A s, t \in Seq(Legal) : Cat(s, t) \in Seq(Legal)
  /\ \A s, t, u \in Seq(Legal) : Cat(Cat(s, t), u) = Cat(s, Cat(t, u))
<1>. SUFFICES ASSUME NEW s \in Seq(Legal), NEW t \in Seq(Legal), NEW u \in Seq(Legal)
     PROVE  s \o t \in Seq(Legal) /\ (s \o t) \o u = s \o (t \o u)
  BY DEF Cat
<1>1. s \o t \in Seq(Legal)
  BY ConcatProperties
<1>2. (s \o t) \o u = s \o (t \o u)
  BY ConcatAssociative
<1>. QED BY <1>1, <1>2

\* Start-up is what comes before and the rest.
LEMMA StartUpSplit == start_up = Before \o Rest
<1>. DEFINE a == initialize_sensor
            b == Interface("navigation")
            c == AwakeAt(0, 2, 6)
            d == <<Do("mode", "navigation")>>
            e == accel_foc
            f == gyro_foc
            g == <<Do("up", 0)>>
<1>1. config_running_mode("navigation") = b \o c \o d
  BY DEF config_running_mode, Interface, Configuration
<1>2. start_up = a \o (b \o c \o d) \o e \o f \o g
  BY <1>1 DEF start_up
<1>3. /\ a \in Seq(Legal) /\ b \in Seq(Legal) /\ e \in Seq(Legal) /\ f \in Seq(Legal)
      /\ g \in Seq(Legal)
  <2>1. a \in Seq(Plain) /\ b \in Seq(Plain)
    BY InitializeSound, ModeSound, ModeNames DEF Sound
  <2>2. Seq(Calm \cap Quiet) \subseteq Seq(Legal)
    BY DEF Calm
  <2>. QED BY <2>1, <2>2, LegalPlain, FocCalm
<1>4. c \in Seq(Legal) /\ d \in Seq(Legal) /\ c \o d = FirstSeven
  <2>. DEFINE i == Command(17)
              j == Command(21)
              k == Put("accel_bw", 0)
              l == Put("gyro_bw", 2)
              m == Put("gyro_output_data_rate", 6)
              n == Put("accel_output_data_rate", 6)
              o == Do("mode", "navigation")
  <2>1. /\ c = <<i, j, k, l, m, n>> /\ d = <<o>> /\ FirstSeven = <<i, j, k, l, m, n, o>>
    BY DEF AwakeAt, FirstSeven
  <2>2. /\ i \in Legal /\ j \in Legal /\ k \in Legal /\ l \in Legal /\ m \in Legal
        /\ n \in Legal /\ o \in Legal
    <3>1. 1 .. 7 = {1, 2, 3, 4, 5, 6, 7}
      OBVIOUS
    <3>2. Straight \subseteq Legal /\ Calm \subseteq Legal
      BY DEF Straight, Plain, Legal, Calm
    <3>. QED BY <3>2, CalmPuts, Ones DEF Fields, MagFields, Ordinary
  <2>. HIDE DEF c, d, i, j, k, l, m, n, o
  <2>3. c \in Seq(Legal) /\ d \in Seq(Legal)
    BY <2>1, <2>2
  <2>4. <<i, j, k, l, m, n>> \o <<o>> = <<i, j, k, l, m, n, o>>
    <3>. DEFINE s == <<i, j, k, l, m, n>> \o <<o>>
                t == <<i, j, k, l, m, n, o>>
    <3>1. /\ s \in Seq({i, j, k, l, m, n, o}) /\ t \in Seq({i, j, k, l, m, n, o})
          /\ Len(s) = 7 /\ Len(t) = 7
      OBVIOUS
    <3>2. /\ s[1] = t[1] /\ s[2] = t[2] /\ s[3] = t[3] /\ s[4] = t[4] /\ s[5] = t[5]
          /\ s[6] = t[6] /\ s[7] = t[7]
      OBVIOUS
    <3>3. 1 .. 7 = {1, 2, 3, 4, 5, 6, 7}
      OBVIOUS
    <3>. HIDE DEF s, t
    <3>4. \A p \in 1 .. 7 : s[p] = t[p]
      BY <3>2, <3>3
    <3>. QED BY <3>1, <3>4, SeqEqual DEF s, t
  <2>. QED BY <2>1, <2>3, <2>4
<1>. HIDE DEF a, b, c, d, e, f, g
<1>5. a \o (b \o c \o d) \o e \o f \o g = (a \o b) \o ((c \o d) \o e \o f \o g)
  <2>0. c \in Seq(Legal) /\ d \in Seq(Legal)
    BY <1>4
  <2>. DEFINE x == Cat(a, b)
              y == Cat(c, d)
              z == Cat(y, e)
              w == Cat(z, f)
  <2>1. x \in Seq(Legal) /\ y \in Seq(Legal)
    BY <1>3, <2>0, Cats
  <2>2. Cat(a, Cat(Cat(b, c), d)) = Cat(x, y)
    <3>1. Cat(Cat(b, c), d) = Cat(b, y)
      BY <1>3, <2>0, Cats
    <3>. HIDE DEF y
    <3>. QED BY <1>3, <2>1, <3>1, Cats
  <2>. HIDE DEF x, y
  <2>3. z \in Seq(Legal) /\ Cat(Cat(x, y), e) = Cat(x, z)
    BY <1>3, <2>1, Cats
  <2>. HIDE DEF z
  <2>4. w \in Seq(Legal) /\ Cat(Cat(x, z), f) = Cat(x, w)
    BY <1>3, <2>1, <2>3, Cats
  <2>. HIDE DEF w
  <2>5. Cat(Cat(x, w), g) = Cat(x, Cat(w, g))
    BY <1>3, <2>1, <2>4, Cats
  <2>. QED BY <2>2, <2>3, <2>4, <2>5, Zenon DEF x, y, z, w, Cat
<1>6. a \o b = Before /\ (c \o d) \o e \o f \o g = Rest
  BY <1>4 DEF Before, Rest, a, b, e, f, g
<1>. QED BY <1>2, <1>5, <1>6

\* What comes before is sound.
LEMMA BeforeSound == Sound(Before)
<1>1. Sound(Interface("navigation"))
  BY ModeSound, ModeNames
<1>. QED BY <1>1, InitializeSound, Joins DEF Before

\* The rest wakes the accelerometer, then the gyroscope, and leaves them awake.
LEMMA RestIs ==
  /\ Rest \in Seq(Legal) /\ Len(Rest) \in Nat /\ Len(Rest) >= 7
  /\ Rest[1] = Command(17) /\ Rest[2] = Command(21)
  /\ Rest[1] \in Straight /\ Rest[2] \in Straight
  /\ \A p \in 3 .. Len(Rest) : Rest[p] \in Calm
<1>. DEFINE e == accel_foc
            f == gyro_foc
            g == <<Do("up", 0)>>
            r == e \o f \o g
            s == FirstSeven
<1>1. r \in Seq(Calm) /\ Rest = Cat(Cat(Cat(s, e), f), g)
  <2>1. e \in Seq(Calm) /\ f \in Seq(Calm) /\ g \in Seq(Calm)
    <3>1. Seq(Calm \cap Quiet) \subseteq Seq(Calm)
      OBVIOUS
    <3>. QED BY <3>1, FocCalm
  <2>2. Rest = s \o e \o f \o g
    BY DEF Rest
  <2>. HIDE DEF e, f, g, s
  <2>3. r \in Seq(Calm)
    BY <2>1
  <2>. QED BY <2>2, <2>3, Zenon DEF Cat
<1>2. /\ s \in Seq(Legal) /\ e \in Seq(Legal) /\ f \in Seq(Legal) /\ g \in Seq(Legal)
  <2>1. Seq(Calm \cap Quiet) \subseteq Seq(Legal)
    BY DEF Calm
  <2>. QED BY <2>1, FocCalm, FirstSevenAre
<1>. HIDE DEF e, f, g, s
<1>3. Rest = s \o r
  <2>1. Cat(s, e) \in Seq(Legal) /\ Cat(e, f) \in Seq(Legal)
    BY <1>2, Cats
  <2>2. Cat(Cat(s, e), f) = Cat(s, Cat(e, f))
    BY <1>2, Cats
  <2>3. Cat(Cat(s, Cat(e, f)), g) = Cat(s, Cat(Cat(e, f), g))
    BY <1>2, <2>1, Cats
  <2>. QED BY <1>1, <2>2, <2>3, Zenon DEF Cat, r
<1>4. r \in Seq(Legal) /\ Len(r) \in Nat /\ \A p \in 1 .. Len(r) : r[p] \in Calm
  <2>1. Seq(Calm) \subseteq Seq(Legal)
    BY DEF Calm
  <2>. HIDE DEF r
  <2>. QED BY <1>1, <2>1
<1>. HIDE DEF r
<1>5. /\ s \o r \in Seq(Legal) /\ Len(s \o r) = 7 + Len(r)
      /\ \A p \in 1 .. 7 : (s \o r)[p] = s[p]
      /\ \A p \in 8 .. 7 + Len(r) : (s \o r)[p] = r[p - 7]
  <2>1. Len(s) = 7
    BY FirstSevenAre DEF s
  <2>2. /\ s \o r \in Seq(Legal) /\ Len(s \o r) = Len(s) + Len(r)
        /\ \A p \in 1 .. Len(s) : (s \o r)[p] = s[p]
        /\ \A p \in Len(s) + 1 .. Len(s) + Len(r) : (s \o r)[p] = r[p - Len(s)]
    BY <1>2, <1>4
  <2>. QED BY <1>4, <2>1, <2>2
<1>6. ASSUME NEW p \in 3 .. Len(Rest) PROVE Rest[p] \in Calm
  <2>1. CASE p \in 3 .. 7
    BY <1>3, <1>5, <2>1, FirstSevenAre DEF s
  <2>2. CASE p \in 8 .. 7 + Len(r)
    <3>1. p - 7 \in 1 .. Len(r)
      BY <1>4, <2>2
    <3>. QED BY <1>3, <1>4, <1>5, <2>2, <3>1
  <2>. QED BY <1>3, <1>4, <1>5, <2>1, <2>2
<1>7. Rest[1] = s[1] /\ Rest[2] = s[2]
  BY <1>3, <1>5
<1>. QED BY <1>3, <1>4, <1>5, <1>6, <1>7, FirstSevenAre DEF s

Woken == Len(Before)

\* Start-up, instruction by instruction.
LEMMA StartUpIs ==
  /\ Woken \in Nat
  /\ start_up \in Seq(Legal) /\ Len(start_up) \in Nat
  /\ \A p \in 1 .. Len(start_up) :
       /\ p <= Woken => /\ start_up[p] \in Plain
                        /\ start_up[p].op = "awake" => p > 3
       /\ p = Woken + 1 => start_up[p] = Command(17)
       /\ p = Woken + 2 => start_up[p] = Command(21)
       /\ p \in {Woken + 1, Woken + 2} => start_up[p] \in Straight
       /\ p > Woken + 2 => start_up[p] \in Calm
<1>. DEFINE a == Before
            r == Rest
            s == start_up
<1>1. s = a \o r
  BY StartUpSplit
<1>2. Sound(a) /\ a \in Seq(Plain) /\ a \in Seq(Legal) /\ Len(a) \in Nat
  BY BeforeSound, LegalPlain DEF Sound
<1>3. /\ r \in Seq(Legal) /\ Len(r) \in Nat /\ Len(r) >= 7
      /\ r[1] = Command(17) /\ r[2] = Command(21)
      /\ r[1] \in Straight /\ r[2] \in Straight
      /\ \A p \in 3 .. Len(r) : r[p] \in Calm
  BY RestIs
<1>4. Woken = Len(a)
  BY DEF Woken
<1>. HIDE DEF a, r, s
<1>5. /\ a \o r \in Seq(Legal) /\ Len(a \o r) = Len(a) + Len(r)
      /\ \A p \in 1 .. Len(a) : (a \o r)[p] = a[p]
      /\ \A p \in Len(a) + 1 .. Len(a) + Len(r) : (a \o r)[p] = r[p - Len(a)]
  BY <1>2, <1>3
<1>6. /\ s \in Seq(Legal) /\ Len(s) = Len(a) + Len(r)
      /\ \A p \in 1 .. Len(a) : s[p] = a[p]
      /\ \A p \in Len(a) + 1 .. Len(a) + Len(r) : s[p] = r[p - Len(a)]
  BY <1>1, <1>5
<1>7. ASSUME NEW p \in 1 .. Len(s)
      PROVE  /\ p <= Len(a) => s[p] \in Plain /\ (s[p].op = "awake" => p > 3)
             /\ p = Len(a) + 1 => s[p] = Command(17)
             /\ p = Len(a) + 2 => s[p] = Command(21)
             /\ p \in {Len(a) + 1, Len(a) + 2} => s[p] \in Straight
             /\ p > Len(a) + 2 => s[p] \in Calm
  <2>1. CASE p <= Len(a)
    <3>1. s[p] = a[p] /\ p \in 1 .. Len(a)
      BY <1>2, <1>3, <1>6, <2>1
    <3>. QED BY <1>2, <2>1, <3>1 DEF Sound
  <2>2. CASE p > Len(a)
    <3>1. s[p] = r[p - Len(a)] /\ p - Len(a) \in 1 .. Len(r)
      <4>1. p \in Len(a) + 1 .. Len(a) + Len(r)
        BY <1>2, <1>3, <1>6, <2>2
      <4>2. p - Len(a) \in 1 .. Len(r)
        BY <1>2, <1>3, <4>1
      <4>. QED BY <1>6, <4>1, <4>2
    <3>2. CASE p > Len(a) + 2
      <4>1. p - Len(a) \in 3 .. Len(r)
        BY <1>2, <1>3, <3>1, <3>2
      <4>. QED BY <1>2, <1>3, <3>1, <3>2, <4>1
    <3>3. CASE p = Len(a) + 1
      <4>1. p - Len(a) = 1
        BY <1>2, <3>3
      <4>. QED BY <1>2, <1>3, <3>1, <3>3, <4>1
    <3>4. CASE p = Len(a) + 2
      <4>1. p - Len(a) = 2
        BY <1>2, <3>4
      <4>. QED BY <1>2, <1>3, <3>1, <3>4, <4>1
    <3>. QED BY <1>2, <1>6, <2>2, <3>2, <3>3, <3>4
  <2>. QED BY <1>2, <1>6, <2>1, <2>2
<1>. QED BY <1>2, <1>3, <1>4, <1>6, <1>7 DEF s

\* The programs of all calls: legal, jumping back no further than their start, with the
\* poll of the compensation unconditional; only start-up starts the compensation.
LEMMA CodeIs ==
  /\ \A c \in DOMAIN Code : Len(Code[c]) \in Nat
  /\ \A c \in DOMAIN Code : \A p \in 1 .. Len(Code[c]) :
       /\ Code[c][p] \in Legal
       /\ Code[c][p].op = "awake" => p > 3
       /\ Code[c][p].op = "foc_rdy" => Code[c][p].when = {}
       /\ c # "start_up" => Code[c][p] \in Plain
<1>. DEFINE C == Code
<1>1. ASSUME NEW c \in DOMAIN C, c # "start_up", NEW p \in 1 .. Len(C[c])
      PROVE  /\ C[c][p] \in Plain /\ C[c][p] \in Legal
             /\ C[c][p].op = "awake" => p > 3
             /\ C[c][p].op = "foc_rdy" => C[c][p].when = {}
  <2>1. Sound(C[c])
    BY <1>1, CodeSound
  <2>. HIDE DEF C
  <2>2. C[c][p] \in Plain
    BY <2>1 DEF Sound
  <2>. QED BY <2>1, <2>2 DEF Sound, Plain, Legal
<1>2. ASSUME NEW p \in 1 .. Len(C["start_up"])
      PROVE  /\ C["start_up"][p] \in Legal
             /\ C["start_up"][p].op = "awake" => p > 3
             /\ C["start_up"][p].op = "foc_rdy" => C["start_up"][p].when = {}
  <2>1. C["start_up"] = start_up
    BY DEF Code
  <2>. DEFINE s == start_up
              i == s[p]
  <2>2. s \in Seq(Legal) /\ p \in 1 .. Len(s) /\ p \in Nat
    BY <1>2, <2>1, StartUpIs
  <2>3. CASE p <= Woken
    <3>1. i \in Plain /\ (i.op = "awake" => p > 3)
      BY <2>2, <2>3, StartUpIs
    <3>. HIDE DEF i, C
    <3>. QED BY <2>1, <3>1 DEF i, Plain, Legal
  <2>4. CASE p \in {Woken + 1, Woken + 2}
    <3>1. i \in Straight
      BY <2>2, <2>4, StartUpIs
    <3>. HIDE DEF i, C
    <3>. QED BY <2>1, <3>1 DEF i, Straight, Plain, Legal
  <2>5. CASE p > Woken + 2
    <3>1. i \in Calm
      BY <2>2, <2>5, StartUpIs
    <3>. HIDE DEF i, C
    <3>. QED BY <2>1, <3>1 DEF i, Calm
  <2>. HIDE DEF s, i, C
  <2>. QED BY <2>2, <2>3, <2>4, <2>5, StartUpIs
<1>3. ASSUME NEW c \in DOMAIN C PROVE Len(C[c]) \in Nat
  <2>1. CASE c = "start_up"
    <3>1. C[c] = start_up
      BY <2>1 DEF Code
    <3>. HIDE DEF C
    <3>. QED BY <3>1, StartUpIs
  <2>2. CASE c # "start_up"
    <3>1. Sound(C[c])
      BY <1>3, <2>2, CodeSound
    <3>. HIDE DEF C
    <3>. QED BY <3>1 DEF Sound
  <2>. QED BY <2>1, <2>2
<1>. HIDE DEF C
<1>4. ASSUME NEW c \in DOMAIN C, NEW p \in 1 .. Len(C[c])
      PROVE  /\ C[c][p] \in Legal
             /\ C[c][p].op = "awake" => p > 3
             /\ C[c][p].op = "foc_rdy" => C[c][p].when = {}
             /\ c # "start_up" => C[c][p] \in Plain
  <2>1. CASE c = "start_up"
    BY <1>2, <2>1
  <2>2. CASE c # "start_up"
    BY <1>1, <2>2
  <2>. QED BY <2>1, <2>2
<1>. QED BY <1>3, <1>4 DEF C

\* The operands of a legal instruction.
LEMMA LegalIs ==
  ASSUME NEW i \in Legal
  PROVE  /\ i.op \in Operations \cup {"mode"} /\ i.field \in Fields /\ i.when \subseteq Conditions
         /\ i.op # "mode" => i.value \in Byte
         /\ i.op = "auto_condition" => i.value \in 0 .. 1
         /\ i.op = "put" /\ i.field = "mag_manual_enable" => i.value \in 0 .. 1
         /\ i.op = "put" /\ i.field = "if_mode" => i.value \in {0, 2}
         /\ i.op = "mode" => i.value \in Mode
<1>1. CASE i \in Instructions
  BY <1>1 DEF Instructions, Operations
<1>2. CASE i \in ModeEnds
  <2>. DEFINE M == Mode
  <2>1. i \in [op : {"mode"}, field : Fields, value : M, when : SUBSET Conditions]
    BY <1>2 DEF ModeEnds
  <2>. HIDE DEF M
  <2>2. i.op = "mode" /\ i.field \in Fields /\ i.value \in M /\ i.when \subseteq Conditions
    BY <2>1
  <2>. QED BY <2>2 DEF M
<1>. QED BY <1>1, <1>2 DEF Legal

\* The invariant.
ModesKept ==
  /\ ModesTypeOK
  /\ held["if_mode"] \in {0, 2}
  /\ ram.tries > 4 => pc <= Len(Code[current]) /\ Code[current][pc].op = "foc_rdy"

\* The program starts in the invariant.
LEMMA ModesKeptInit == ModesInit => ModesKept
<1>. SUFFICES ASSUME ModesInit PROVE ModesKept
  OBVIOUS
<1>. DEFINE C == Code
<1>1. "start_up" \in DOMAIN C
  BY DEF Code
<1>2. Len(C["start_up"]) \in Nat
  BY <1>1, CodeIs
<1>. HIDE DEF C
<1>3. current \in DOMAIN C /\ pc \in 1 .. Len(C[current]) + 1
  BY <1>1, <1>2 DEF ModesInit
<1>4. held \in [Followed -> 0 .. 255] /\ held["if_mode"] = 0
  BY DEF ModesInit, Followed
<1>5. power \in [accel : Power, gyro : Power, mag : Power]
  BY DEF ModesInit, Power
<1>6. \A a \in DOMAIN magnet : magnet[a] \in 0 .. 255
  BY DEF ModesInit
<1>7. ram \in [interface : 0 .. 3, manual : 0 .. 1, auto_condition : 0 .. 1,
               tries : 0 .. Polls, trim : BOOLEAN] /\ ram.tries = 0
  BY DEF ModesInit, Zeroed, Polls
<1>8. /\ present \in BOOLEAN /\ up \in BOOLEAN /\ mode \in Mode \cup {"none"}
      /\ clean \in BOOLEAN
  BY DEF ModesInit
<1>9. /\ later \in 0 .. MaxLater /\ restarts \in 0 .. MaxRestarts
      /\ losses \in 0 .. MaxLosses
  BY BoundsAssumption DEF ModesInit
<1>. QED BY <1>3, <1>4, <1>5, <1>6, <1>7, <1>8, <1>9 DEF ModesKept, ModesTypeOK, C

\* What a step of a call starts from, and what it has to keep of each part.
Programs == Code
HeldOK == held \in [Followed -> 0 .. 255] /\ held["if_mode"] \in {0, 2}
MagnetOK == \A a \in DOMAIN magnet : magnet[a] \in 0 .. 255
PowerOK == power \in [accel : Power, gyro : Power, mag : Power]
RamOK == ram \in [interface : 0 .. 3, manual : 0 .. 1, auto_condition : 0 .. 1,
                  tries : 0 .. 10, trim : BOOLEAN]
PlaceOK == current \in DOMAIN Programs /\ pc \in 1 .. Len(Programs[current]) + 1
TriesOK == ram.tries > 4 => pc <= Len(Programs[current]) /\ Programs[current][pc].op = "foc_rdy"
RestOK ==
  /\ present \in BOOLEAN /\ up \in BOOLEAN /\ mode \in Mode \cup {"none"}
  /\ clean \in BOOLEAN
  /\ later \in 0 .. MaxLater /\ restarts \in 0 .. MaxRestarts
  /\ losses \in 0 .. MaxLosses

\* The invariant in parts.
LEMMA KeptParts ==
  ModesKept <=> HeldOK /\ MagnetOK /\ PowerOK /\ RamOK /\ PlaceOK /\ TriesOK /\ RestOK
  BY Zenon DEF ModesKept, ModesTypeOK, HeldOK, MagnetOK, PowerOK, RamOK, PlaceOK, TriesOK,
               RestOK, Programs, Polls

\* The same after a step.
LEMMA KeptPartsNext ==
  ModesKept' <=> HeldOK' /\ MagnetOK' /\ PowerOK' /\ RamOK' /\ PlaceOK' /\ TriesOK' /\ RestOK'
  BY Zenon DEF ModesKept, ModesTypeOK, HeldOK, MagnetOK, PowerOK, RamOK, PlaceOK, TriesOK,
               RestOK, Programs, Polls

\* A write keeps the parts it changes.
LEMMA WritesKeep ==
  ASSUME NEW i \in Legal, i.op = "put", HeldOK, MagnetOK, PowerOK, RamOK
  PROVE  /\ held' = Changed(i.field, i.value) => HeldOK'
         /\ React(i.field, i.value) => MagnetOK' /\ PowerOK'
         /\ ram' = Noted(i.field, i.value) => RamOK' /\ ram'.tries = ram.tries
<1>. DEFINE f == i.field
            v == i.value
<1>1. /\ v \in 0 .. 255
      /\ f = "mag_manual_enable" => v \in 0 .. 1
      /\ f = "if_mode" => v \in {0, 2}
  BY LegalIs DEF Byte
<1>. HIDE DEF f, v
<1>2. ASSUME held' = Changed(f, v) PROVE HeldOK'
  <2>. DEFINE F == Followed
  <2>0. "if_mode" \in F /\ held \in [F -> 0 .. 255] /\ held["if_mode"] \in {0, 2}
    BY DEF Followed, HeldOK
  <2>1. held' = IF f \in F THEN [held EXCEPT ![f] = v] ELSE held
    BY <1>2 DEF Changed
  <2>. HIDE DEF F
  <2>2. held' \in [F -> 0 .. 255] /\ held'["if_mode"] \in {0, 2}
    BY <1>1, <2>0, <2>1
  <2>. QED BY <2>2 DEF HeldOK, F
<1>3. ASSUME React(f, v) PROVE MagnetOK' /\ PowerOK'
  <2>1. magnet' = IF f = "mag_write_addr" /\ Reaches(v)
                  THEN [magnet EXCEPT ![v] = held["mag_write_data"]] ELSE magnet
    BY <1>3 DEF React
  <2>2. held["mag_write_data"] \in 0 .. 255
    BY DEF HeldOK, Followed
  <2>3. MagnetOK'
    BY <2>1, <2>2 DEF MagnetOK
  <2>. DEFINE p == Commanded(v)
              T == [accel : Power, gyro : Power, mag : Power]
  <2>4. p \in T
    BY DEF PowerOK, Commanded, Power
  <2>5. power' = p \/ power' = power
    BY <1>3 DEF React
  <2>. HIDE DEF p
  <2>6. PowerOK'
    BY <2>4, <2>5 DEF PowerOK
  <2>. QED BY <2>3, <2>6
<1>4. ASSUME ram' = Noted(f, v) PROVE RamOK' /\ ram'.tries = ram.tries
  BY <1>1, <1>4 DEF Noted, RamOK
<1>. QED BY <1>2, <1>3, <1>4 DEF f, v

\* The step of an instruction.
LEMMA InstructionsKeep ==
  ASSUME ModesKept, Running, NEW i, i = Code[current][pc],
         \/ Skip(i) \/ Write(i) \/ FailedWrite(i) \/ ReadInterface(i)
         \/ CheckAwake(i) \/ ReadTrim(i) \/ SetAutoCondition(i)
         \/ PollFoc(i) \/ EndMode(i) \/ EndStartUp(i)
  PROVE  ModesKept'
<1>1. HeldOK /\ MagnetOK /\ PowerOK /\ RamOK /\ PlaceOK /\ TriesOK /\ RestOK
  BY KeptParts
<1>. DEFINE C == Programs
            n == Len(C[current])
<1>2. /\ n \in Nat /\ pc \in 1 .. n /\ i \in Legal /\ i = C[current][pc]
      /\ i.op = "awake" => pc > 3
      /\ i.op = "foc_rdy" => i.when = {}
      /\ i.op # "foc_rdy" => ram.tries <= 4
  <2>1. C = Code
    BY DEF Programs
  <2>2. current \in DOMAIN C /\ pc \in 1 .. n + 1 /\ pc <= n
    BY <1>1, <2>1 DEF PlaceOK, Running
  <2>3. n \in Nat
    BY <2>1, <2>2, CodeIs
  <2>. HIDE DEF C
  <2>4. pc \in 1 .. Len(C[current])
    BY <2>2, <2>3
  <2>5. /\ i \in Legal /\ (i.op = "awake" => pc > 3)
        /\ (i.op = "foc_rdy" => i.when = {})
    BY <2>1, <2>2, <2>4, CodeIs
  <2>6. i.op # "foc_rdy" => ram.tries <= 4
    BY <1>1, <2>1 DEF TriesOK, RamOK, C
  <2>. QED BY <2>1, <2>3, <2>4, <2>5, <2>6
<1>. HIDE DEF C
<1>3. ASSUME UNCHANGED current, pc' \in {pc - 3, pc + 1}, i.op = "awake" \/ pc' = pc + 1
      PROVE  PlaceOK'
  BY <1>1, <1>2, <1>3 DEF PlaceOK, C
<1>4. ASSUME ram'.tries \in 0 .. 4 PROVE TriesOK'
  BY <1>4 DEF TriesOK
<1>5. ASSUME RamOK', ram'.tries = ram.tries, i.op # "foc_rdy" PROVE TriesOK'
  BY <1>1, <1>2, <1>5 DEF TriesOK, RamOK
<1>6. ASSUME UNCHANGED device PROVE HeldOK' /\ MagnetOK' /\ PowerOK' /\ UNCHANGED present
  BY <1>1, <1>6 DEF device, HeldOK, MagnetOK, PowerOK
<1>7. Lost => clean' = FALSE /\ losses' \in 0 .. MaxLosses
  BY <1>1, BoundsAssumption DEF Lost, RestOK
<1>8. NotLost => UNCHANGED <<clean, losses>>
  BY DEF NotLost
<1>9. CASE Skip(i)
  <2>1. i.op # "foc_rdy"
    BY <1>2, <1>9 DEF Skip, Enabled
  <2>2. /\ UNCHANGED device /\ UNCHANGED ram /\ UNCHANGED current /\ pc' = pc + 1
        /\ UNCHANGED <<up, mode, clean, later, restarts, losses>>
    BY <1>9 DEF Skip, counts
  <2>3. RamOK'
    BY <1>1, <2>2 DEF RamOK
  <2>4. RestOK'
    BY <1>1, <1>6, <2>2 DEF RestOK
  <2>. QED BY <1>3, <1>5, <1>6, <2>1, <2>2, <2>3, <2>4, KeptPartsNext
<1>10. CASE Write(i)
  <2>1. /\ i.op = "put" /\ held' = Changed(i.field, i.value)
        /\ React(i.field, i.value) /\ ram' = Noted(i.field, i.value)
        /\ UNCHANGED current /\ pc' = pc + 1
        /\ UNCHANGED <<present, up, mode, clean, later, restarts, losses>>
    BY <1>10 DEF Write, counts
  <2>2. HeldOK' /\ MagnetOK' /\ PowerOK' /\ RamOK' /\ ram'.tries = ram.tries
    BY <1>1, <1>2, <2>1, WritesKeep
  <2>3. RestOK'
    BY <1>1, <2>1 DEF RestOK
  <2>. QED BY <1>3, <1>5, <2>1, <2>2, <2>3, KeptPartsNext
<1>11. CASE FailedWrite(i)
  <2>1. /\ i.op = "put" /\ (held' = held \/ held' = Changed(i.field, i.value))
        /\ ram' = Noted(i.field, i.value) /\ Lost
        /\ UNCHANGED current /\ pc' = pc + 1
        /\ UNCHANGED <<power, magnet, present, up, mode, later, restarts>>
    BY <1>11 DEF FailedWrite
  <2>2. HeldOK' /\ RamOK' /\ ram'.tries = ram.tries
    <3>1. CASE held' = held
      BY <1>1, <1>2, <2>1, <3>1, WritesKeep DEF HeldOK
    <3>2. CASE held' = Changed(i.field, i.value)
      BY <1>1, <1>2, <2>1, <3>2, WritesKeep
    <3>. QED BY <2>1, <3>1, <3>2
  <2>3. MagnetOK' /\ PowerOK'
    BY <1>1, <2>1 DEF MagnetOK, PowerOK
  <2>4. RestOK'
    BY <1>1, <1>7, <2>1 DEF RestOK
  <2>. QED BY <1>3, <1>5, <2>1, <2>2, <2>3, <2>4, KeptPartsNext
<1>12. CASE ReadInterface(i)
  <2>1. /\ i.op = "get_if_mode" /\ UNCHANGED device /\ UNCHANGED current /\ pc' = pc + 1
        /\ UNCHANGED <<up, mode, later, restarts>> /\ (Lost \/ NotLost)
        /\ \/ ram' = [ram EXCEPT !.interface = held["if_mode"]]
           \/ ram' = [ram EXCEPT !.interface = 0]
    BY <1>12 DEF ReadInterface
  <2>2. RamOK' /\ ram'.tries = ram.tries
    BY <1>1, <2>1 DEF RamOK, HeldOK
  <2>3. RestOK'
    BY <1>1, <1>6, <1>7, <1>8, <2>1 DEF RestOK
  <2>. QED BY <1>3, <1>5, <1>6, <2>1, <2>2, <2>3, KeptPartsNext
<1>13. CASE CheckAwake(i)
  <2>1. /\ i.op = "awake" /\ UNCHANGED device /\ UNCHANGED current
        /\ UNCHANGED <<up, mode, later, restarts>> /\ (Lost \/ NotLost)
        /\ GoOn \/ NotAwake
    BY <1>13 DEF CheckAwake
  <2>2. /\ pc' \in {pc - 3, pc + 1} /\ RamOK' /\ ram'.tries \in 0 .. 4
    <3>1. CASE GoOn
      BY <1>1, <3>1 DEF GoOn, RamOK
    <3>2. CASE NotAwake /\ ~GoOn
      <4>1. /\ ram.tries + 1 # 5 /\ pc' = pc - 3
            /\ ram' = [ram EXCEPT !.tries = ram.tries + 1]
        BY <3>2 DEF NotAwake, Tries
      <4>2. ram.tries <= 4
        BY <1>2, <2>1
      <4>. QED BY <1>1, <4>1, <4>2 DEF RamOK
    <3>. QED BY <2>1, <3>1, <3>2
  <2>3. RestOK'
    BY <1>1, <1>6, <1>7, <1>8, <2>1 DEF RestOK
  <2>. QED BY <1>3, <1>4, <1>6, <2>1, <2>2, <2>3, KeptPartsNext
<1>14. CASE ReadTrim(i)
  <2>1. /\ i.op = "trim" /\ UNCHANGED device /\ UNCHANGED current /\ pc' = pc + 1
        /\ UNCHANGED <<up, mode, later, restarts>> /\ (Lost \/ NotLost)
    BY <1>14 DEF ReadTrim
  <2>2. \E b \in BOOLEAN : ram' = [ram EXCEPT !.trim = b]
    <3>1. ((i.value = TrimRegisters[1] \/ ram.trim) /\ Reaches(i.value)
             /\ held["mag_read_addr"] = i.value) \in BOOLEAN
      OBVIOUS
    <3>2. \/ ram' = [ram EXCEPT !.trim = /\ i.value = TrimRegisters[1] \/ ram.trim
                                         /\ Reaches(i.value)
                                         /\ held["mag_read_addr"] = i.value]
          \/ ram' = [ram EXCEPT !.trim = FALSE]
      BY <1>14, Zenon DEF ReadTrim
    <3>. QED BY <3>1, <3>2, Zenon
  <2>3. RamOK' /\ ram'.tries = ram.tries
    BY <1>1, <2>2 DEF RamOK
  <2>4. RestOK'
    BY <1>1, <1>6, <1>7, <1>8, <2>1 DEF RestOK
  <2>. QED BY <1>3, <1>5, <1>6, <2>1, <2>3, <2>4, KeptPartsNext
<1>15. CASE SetAutoCondition(i)
  <2>1. /\ i.op = "auto_condition" /\ UNCHANGED device /\ UNCHANGED current /\ pc' = pc + 1
        /\ ram' = [ram EXCEPT !.auto_condition = i.value]
        /\ UNCHANGED <<up, mode, clean, later, restarts, losses>>
    BY <1>15 DEF SetAutoCondition, counts
  <2>2. i.value \in 0 .. 1
    BY <1>2, <2>1, LegalIs
  <2>3. RamOK' /\ ram'.tries = ram.tries
    BY <1>1, <2>1, <2>2 DEF RamOK
  <2>4. RestOK'
    BY <1>1, <1>6, <2>1 DEF RestOK
  <2>. QED BY <1>3, <1>5, <1>6, <2>1, <2>3, <2>4, KeptPartsNext
<1>16. CASE PollFoc(i)
  <2>1. /\ i.op = "foc_rdy" /\ UNCHANGED device /\ UNCHANGED current
        /\ UNCHANGED <<up, mode, clean, later, restarts, losses>>
        /\ \/ ram' = [ram EXCEPT !.tries = 0] /\ pc' = pc + 1
           \/ ram.tries # 10 /\ ram' = [ram EXCEPT !.tries = ram.tries + 1] /\ pc' = pc
    BY <1>16 DEF PollFoc, counts, Polls
  <2>2. RestOK'
    BY <1>1, <1>6, <2>1 DEF RestOK
  <2>3. CASE ram' = [ram EXCEPT !.tries = 0] /\ pc' = pc + 1
    <3>1. RamOK' /\ ram'.tries \in 0 .. 4
      BY <1>1, <2>3 DEF RamOK
    <3>. QED BY <1>3, <1>4, <1>6, <2>1, <2>2, <2>3, <3>1, KeptPartsNext
  <2>4. CASE ram.tries # 10 /\ ram' = [ram EXCEPT !.tries = ram.tries + 1] /\ pc' = pc
    <3>1. RamOK'
      BY <1>1, <2>4 DEF RamOK
    <3>2. PlaceOK'
      BY <1>1, <2>1, <2>4 DEF PlaceOK
    <3>3. TriesOK'
      BY <1>2, <2>1, <2>4 DEF TriesOK, C
    <3>. QED BY <1>6, <2>1, <2>2, <3>1, <3>2, <3>3, KeptPartsNext
  <2>. QED BY <2>1, <2>3, <2>4
<1>17. CASE EndMode(i)
  <2>1. /\ i.op = "mode" /\ UNCHANGED device /\ UNCHANGED <<ram, current>> /\ pc' = pc + 1
        /\ mode' = i.value
        /\ UNCHANGED <<up, clean, later, restarts, losses>>
    BY <1>17 DEF EndMode, counts
  <2>2. mode' \in Mode
    BY <1>2, <2>1, LegalIs
  <2>3. RamOK' /\ ram'.tries = ram.tries
    BY <1>1, <2>1 DEF RamOK
  <2>4. RestOK'
    <3>. DEFINE M == Mode
    <3>1. mode' \in M \cup {"none"}
      BY <2>2
    <3>. HIDE DEF M
    <3>. QED BY <1>1, <1>6, <2>1, <3>1 DEF RestOK, M
  <2>. QED BY <1>3, <1>5, <1>6, <2>1, <2>3, <2>4, KeptPartsNext
<1>18. CASE EndStartUp(i)
  <2>1. /\ i.op = "up" /\ UNCHANGED device /\ UNCHANGED <<ram, current>> /\ pc' = pc + 1
        /\ up' = TRUE
        /\ UNCHANGED <<mode, clean, later, restarts, losses>>
    BY <1>18 DEF EndStartUp, counts
  <2>2. RamOK' /\ ram'.tries = ram.tries
    BY <1>1, <2>1 DEF RamOK
  <2>3. RestOK'
    BY <1>1, <1>6, <2>1 DEF RestOK
  <2>. QED BY <1>3, <1>5, <1>6, <2>1, <2>2, <2>3, KeptPartsNext
<1>. QED BY <1>9, <1>10, <1>11, <1>12, <1>13, <1>14, <1>15, <1>16, <1>17, <1>18

\* Every step keeps the invariant.
LEMMA ModesKeptNext == ModesKept /\ [ModesNext]_modesVars => ModesKept'
<1>. SUFFICES ASSUME ModesKept, [ModesNext]_modesVars PROVE ModesKept'
  OBVIOUS
<1>1. HeldOK /\ MagnetOK /\ PowerOK /\ RamOK /\ PlaceOK /\ TriesOK /\ RestOK
  BY KeptParts
<1>2. CASE Step
  BY <1>2, InstructionsKeep DEF Step
<1>4. ASSUME current' \in DOMAIN Programs, pc' = 1 PROVE PlaceOK'
  <2>. DEFINE C == Programs
              n == Len(C[current'])
  <2>1. n \in Nat
    BY <1>4, CodeIs DEF Programs
  <2>. HIDE DEF C
  <2>. QED BY <1>4, <2>1 DEF PlaceOK, C
<1>5. ASSUME UNCHANGED device
      PROVE  HeldOK' /\ MagnetOK' /\ PowerOK' /\ UNCHANGED present
  BY <1>1, <1>5 DEF device, HeldOK, MagnetOK, PowerOK
<1>6. ASSUME NEW c \in DOMAIN Code \ {"start_up"}, BeginCall(c) PROVE ModesKept'
  <2>1. /\ current' = c /\ pc' = 1 /\ later < MaxLater /\ later' = later + 1
        /\ ~Running /\ UNCHANGED device
        /\ UNCHANGED <<ram, up, mode, clean, restarts, losses>>
    BY <1>6 DEF BeginCall
  <2>2. PlaceOK'
    BY <1>4, <1>6, <2>1 DEF Programs
  <2>3. ram.tries <= 4
    BY <1>1, <2>1 DEF TriesOK, RamOK, Running, Programs
  <2>4. RamOK' /\ TriesOK'
    BY <1>1, <2>1, <2>3 DEF RamOK, TriesOK
  <2>5. RestOK'
    BY <1>1, <1>5, <2>1, BoundsAssumption DEF RestOK
  <2>. QED BY <1>5, <2>1, <2>2, <2>4, <2>5, KeptPartsNext
<1>7. CASE Restart
  <2>1. /\ current' = "start_up" /\ pc' = 1 /\ restarts < MaxRestarts
        /\ restarts' = restarts + 1 /\ ram' = Zeroed
        /\ up' = FALSE /\ mode' = "none" /\ clean' = TRUE
        /\ UNCHANGED device /\ UNCHANGED <<later, losses>>
    BY <1>7 DEF Restart
  <2>2. PlaceOK'
    <3>1. "start_up" \in DOMAIN Programs
      BY DEF Programs, Code
    <3>. QED BY <1>4, <2>1, <3>1
  <2>3. RamOK' /\ TriesOK'
    BY <2>1 DEF RamOK, TriesOK, Zeroed
  <2>4. RestOK'
    <3>1. restarts' \in 0 .. MaxRestarts
      BY <1>1, <2>1, BoundsAssumption DEF RestOK
    <3>2. mode' \in Mode \cup {"none"} /\ UNCHANGED present
      BY <1>5, <2>1
    <3>. QED BY <1>1, <2>1, <3>1, <3>2 DEF RestOK
  <2>. QED BY <1>5, <2>1, <2>2, <2>3, <2>4, KeptPartsNext
<1>8. CASE UNCHANGED modesVars
  <2>1. /\ UNCHANGED device
        /\ UNCHANGED <<ram, current, pc, up, mode, clean, later, restarts, losses>>
    BY <1>8 DEF modesVars, counts
  <2>2. RamOK' /\ PlaceOK' /\ TriesOK'
    BY <1>1, <2>1 DEF RamOK, PlaceOK, TriesOK
  <2>3. RestOK'
    BY <1>1, <1>5, <2>1 DEF RestOK
  <2>. QED BY <1>5, <2>1, <2>2, <2>3, KeptPartsNext
<1>. QED BY <1>2, <1>6, <1>7, <1>8 DEF ModesNext

\* The variables keep to their domains, whatever is lost and whenever the program starts
\* again: the program counter stays inside the call, through every jump back of the wake-up
\* (bmi160_support.c, bmi160_bmm150_mag_wakeup), and the counter of the two waits stays
\* within the larger of their bounds.
THEOREM ModesTypes == ModesSpec => []ModesTypeOK
<1>1. ModesInit => ModesKept
  BY ModesKeptInit
<1>2. ModesKept /\ [ModesNext]_modesVars => ModesKept'
  BY ModesKeptNext
<1>3. ModesKept => ModesTypeOK
  BY DEF ModesKept
<1>. QED BY <1>1, <1>2, <1>3, PTL DEF ModesSpec

-----------------------------------------------------------------------------
\* The sensors are awake where the compensation is started.
AwakeKept ==
  current = "start_up" /\ clean =>
    /\ pc > Woken + 1 => power.accel = "normal"
    /\ pc > Woken + 2 => power.gyro = "normal"

\* Every step keeps the sensors awake from there on.
LEMMA AwakeStep ==
  ASSUME ModesKept, AwakeKept, [ModesNext]_modesVars
  PROVE  AwakeKept'
<1>1. HeldOK /\ MagnetOK /\ PowerOK /\ RamOK /\ PlaceOK /\ TriesOK /\ RestOK
  BY KeptParts
<1>2. Woken \in Nat /\ pc \in Nat
  BY <1>1, StartUpIs DEF PlaceOK
<1>3. ASSUME UNCHANGED <<power, current>>, clean' => clean,
             pc' \in {pc, pc - 3} \/ (pc' = pc + 1 /\ pc \notin {Woken + 1, Woken + 2})
      PROVE  AwakeKept'
  BY <1>2, <1>3 DEF AwakeKept
<1>4. CASE Step /\ current = "start_up"
  <2>. DEFINE i == Code[current][pc]
              s == start_up
  <2>1. /\ i = s[pc] /\ pc \in 1 .. Len(s)
    <3>1. Code[current] = s
      BY <1>4 DEF Code
    <3>2. pc <= Len(s)
      BY <1>4, <3>1 DEF Step, Running
    <3>3. Len(s) \in Nat /\ pc \in 1 .. Len(s) + 1
      BY <1>1, <1>4, <3>1, StartUpIs DEF PlaceOK, Programs
    <3>. HIDE DEF s
    <3>. QED BY <3>1, <3>2, <3>3
  <2>2. /\ pc = Woken + 1 => i = Command(17)
        /\ pc = Woken + 2 => i = Command(21)
        /\ pc > Woken + 2 => i \in Calm
    BY <2>1, StartUpIs
  <2>3. \/ Skip(i) \/ Write(i) \/ FailedWrite(i) \/ ReadInterface(i)
        \/ CheckAwake(i) \/ ReadTrim(i) \/ SetAutoCondition(i)
        \/ PollFoc(i) \/ EndMode(i) \/ EndStartUp(i)
    BY <1>4 DEF Step
  <2>. HIDE DEF i, s
  <2>4. pc = Woken + 1 \/ pc = Woken + 2 => i.op = "put" /\ i.when = {} /\ i.field = "command_register"
    BY <2>2 DEF Command, Put, Instruction
  <2>5. ASSUME UNCHANGED device, UNCHANGED current, clean' => clean,
               pc' \in {pc, pc - 3} \/ (pc' = pc + 1 /\ i.op # "put")
        PROVE  AwakeKept'
    BY <1>3, <2>4, <2>5 DEF device
  <2>6. Lost => ~clean'
    BY DEF Lost
  <2>7. NotLost => clean' = clean
    BY DEF NotLost
  <2>8. CASE Skip(i)
    <3>1. UNCHANGED power /\ UNCHANGED <<current, clean>> /\ pc' = pc + 1 /\ i.when # {}
      BY <2>8 DEF Skip, Enabled, device
    <3>. QED BY <1>3, <2>4, <3>1
  <2>9. CASE Write(i)
    <3>1. /\ i.op = "put" /\ UNCHANGED <<current, clean>> /\ pc' = pc + 1
          /\ power' = IF i.field = "command_register" THEN Commanded(i.value) ELSE power
      BY <2>9 DEF Write, React
    <3>2. CASE pc <= Woken
      <4>1. ~(pc' > Woken + 1) /\ ~(pc' > Woken + 2)
        BY <1>2, <3>1, <3>2
      <4>. QED BY <4>1, StartUpIs DEF AwakeKept
    <3>3. CASE pc = Woken + 1
      <4>1. i.value = 17 /\ i.field = "command_register"
        BY <2>2, <3>3 DEF Command, Put, Instruction
      <4>2. power'.accel = "normal"
        BY <1>1, <3>1, <4>1 DEF Commanded, PowerOK
      <4>3. ~(pc' > Woken + 2)
        BY <1>2, <3>1, <3>3
      <4>. QED BY <4>2, <4>3, StartUpIs DEF AwakeKept
    <3>4. CASE pc = Woken + 2
      <4>1. i.value = 21 /\ i.field = "command_register"
        BY <2>2, <3>4 DEF Command, Put, Instruction
      <4>2. power' = [power EXCEPT !.gyro = "normal"]
        BY <3>1, <4>1 DEF Commanded
      <4>3. power'.gyro = "normal" /\ power'.accel = power.accel
        BY <1>1, <4>2 DEF PowerOK
      <4>4. pc > Woken + 1
        BY <1>2, <3>4
      <4>. QED BY <3>1, <4>3, <4>4 DEF AwakeKept
    <3>5. CASE pc > Woken + 2
      <4>1. i.field = "command_register" => i.value = 3
        BY <2>2, <3>5 DEF Calm
      <4>2. power' = power
        BY <3>1, <4>1 DEF Commanded
      <4>3. pc \notin {Woken + 1, Woken + 2}
        BY <1>2, <3>5
      <4>. QED BY <1>3, <3>1, <4>2, <4>3
    <3>. QED BY <1>2, <3>2, <3>3, <3>4, <3>5
  <2>10. CASE FailedWrite(i)
    BY <2>6, <2>10 DEF FailedWrite, AwakeKept
  <2>11. CASE ReadInterface(i)
    BY <2>5, <2>6, <2>7, <2>11 DEF ReadInterface
  <2>12. CASE CheckAwake(i)
    <3>1. /\ i.op = "awake" /\ UNCHANGED device /\ UNCHANGED current
          /\ Lost \/ NotLost
          /\ GoOn \/ NotAwake
      BY <2>12 DEF CheckAwake
    <3>2. pc' \in {pc - 3, pc + 1}
      BY <3>1 DEF GoOn, NotAwake
    <3>. QED BY <2>5, <2>6, <2>7, <3>1, <3>2
  <2>13. CASE ReadTrim(i)
    <3>1. /\ i.op = "trim" /\ UNCHANGED device /\ UNCHANGED current
          /\ Lost \/ NotLost
          /\ pc' = pc + 1
      BY <2>13, Zenon DEF ReadTrim
    <3>. QED BY <2>5, <2>6, <2>7, <3>1
  <2>14. CASE SetAutoCondition(i)
    BY <2>5, <2>14 DEF SetAutoCondition
  <2>15. CASE PollFoc(i)
    BY <2>5, <2>15 DEF PollFoc
  <2>16. CASE EndMode(i)
    BY <2>5, <2>16 DEF EndMode
  <2>17. CASE EndStartUp(i)
    BY <2>5, <2>17 DEF EndStartUp
  <2>. QED
    BY <2>3, <2>8, <2>9, <2>10, <2>11, <2>12, <2>13, <2>14, <2>15, <2>16, <2>17
<1>5. CASE Step /\ current # "start_up"
  <2>1. UNCHANGED current
    BY <1>5 DEF Step, Skip, Write, FailedWrite, ReadInterface,
                CheckAwake, ReadTrim, SetAutoCondition, PollFoc,
                EndMode, EndStartUp
  <2>. QED BY <1>5, <2>1 DEF AwakeKept
<1>6. ASSUME NEW c \in DOMAIN Code \ {"start_up"}, BeginCall(c) PROVE AwakeKept'
  BY <1>6 DEF BeginCall, AwakeKept
<1>7. CASE Restart
  <2>1. pc' = 1
    BY <1>7 DEF Restart
  <2>2. ~(pc' > Woken + 1) /\ ~(pc' > Woken + 2)
    BY <1>2, <2>1
  <2>. QED BY <2>2 DEF AwakeKept
<1>8. CASE UNCHANGED modesVars
  <2>1. UNCHANGED <<power, current>> /\ pc' = pc /\ clean' = clean
    BY <1>8 DEF modesVars, device
  <2>. QED BY <1>3, <2>1
<1>. QED BY <1>4, <1>5, <1>6, <1>7, <1>8 DEF ModesNext

\* The invariant contains what is to be shown.
LEMMA Awake == ModesKept /\ AwakeKept => CalibratesAwake
<1>. SUFFICES ASSUME ModesKept, AwakeKept, Running, clean,
                     Code[current][pc] = Command(3)
     PROVE  power.accel = "normal" /\ power.gyro = "normal"
  BY DEF CalibratesAwake, START_FOC
<1>. DEFINE i == Code[current][pc]
            n == Len(Code[current])
<1>1. PlaceOK
  BY KeptParts
<1>2. current \in DOMAIN Code /\ pc \in 1 .. n /\ n \in Nat
  <2>1. current \in DOMAIN Code /\ pc \in 1 .. n + 1 /\ pc <= n
    BY <1>1 DEF PlaceOK, Programs, Running
  <2>2. n \in Nat
    BY <2>1, CodeIs
  <2>. HIDE DEF n
  <2>. QED BY <2>1, <2>2
<1>3. i.field = "command_register" /\ i.value = 3
  BY DEF Command, Put, Instruction
<1>4. ASSUME i \in Plain PROVE FALSE
  BY <1>3, <1>4 DEF Plain, START_FOC
<1>5. current = "start_up"
  BY <1>2, <1>4, CodeIs
<1>6. Code[current] = start_up
  BY <1>5 DEF Code
<1>7. pc > Woken + 2
  <2>1. pc \in 1 .. Len(start_up) /\ i = start_up[pc]
    BY <1>2, <1>6
  <2>2. ~(pc <= Woken) /\ pc \notin {Woken + 1, Woken + 2}
    BY <1>4, <2>1, StartUpIs DEF Straight
  <2>. QED BY <1>2, <2>2, StartUpIs
<1>8. pc > Woken + 1
  BY <1>2, <1>7, StartUpIs
<1>. QED BY <1>5, <1>7, <1>8 DEF AwakeKept

\* The fast offset compensation is started with both sensors awake, as long as no transfer
\* is lost: after any number of restarts, wherever they cut the program short.
THEOREM SensorsAwake == ModesSpec => []CalibratesAwake
<1>1. ModesInit => ModesKept /\ AwakeKept
  <2>1. ModesInit => pc = 1
    BY DEF ModesInit
  <2>. QED BY <2>1, ModesKeptInit, StartUpIs DEF AwakeKept
<1>2. ModesKept /\ AwakeKept /\ [ModesNext]_modesVars => (ModesKept /\ AwakeKept)'
  BY ModesKeptNext, AwakeStep
<1>3. ModesKept /\ AwakeKept => CalibratesAwake
  BY Awake
<1>. QED BY <1>1, <1>2, <1>3, PTL DEF ModesSpec

-----------------------------------------------------------------------------
\* What the running modes do to the magnetometer, as far as its readiness depends on it:
\* the two settings of the interface, the manual registers, its power, two of the
\* BMM150's registers, and what the driver holds in memory.
Names == Mode \cup {"none"}
State ==
  [if_mode : {0, 2}, enable : Byte, read : Byte, write : Byte, mag : Power,
   on : Byte, forced : Byte,
   interface : 0 .. 3, manual : 0 .. 1, auto : 0 .. 1, trim : BOOLEAN, mode : Names]

\* A transfer to or from the BMM150 takes place, if it answers at all.
Linked(s) == s.enable = 1 /\ s.if_mode = 2 /\ s.mag = "normal"

\* What an instruction that is executed, and fails in nothing, makes of a state.
Written(f, v, s) ==
  IF f = "if_mode" THEN [s EXCEPT !.if_mode = v]
  ELSE IF f = "mag_manual_enable" THEN [s EXCEPT !.enable = v, !.manual = v]
  ELSE IF f = "mag_read_addr" THEN [s EXCEPT !.read = v]
  ELSE IF f = "mag_write_data" THEN [s EXCEPT !.write = v]
  ELSE IF f = "mag_write_addr" /\ v = 75 /\ Linked(s) THEN [s EXCEPT !.on = s.write]
  ELSE IF f = "mag_write_addr" /\ v = 76 /\ Linked(s) /\ s.on = 1 THEN [s EXCEPT !.forced = s.write]
  ELSE IF f = "command_register" /\ v = 24 THEN [s EXCEPT !.mag = "suspend"]
  ELSE IF f = "command_register" /\ v = 25 THEN [s EXCEPT !.mag = "normal"]
  ELSE s
Answers(a, s) == Linked(s) /\ (a = 75 \/ s.on = 1)
After(i, s) ==
  IF i.op = "put" THEN Written(i.field, i.value, s)
  ELSE IF i.op = "get_if_mode" THEN [s EXCEPT !.interface = s.if_mode]
  ELSE IF i.op = "trim"
       THEN [s EXCEPT !.trim = (i.value = TrimRegisters[1] \/ s.trim)
                               /\ Answers(i.value, s) /\ s.read = i.value]
  ELSE IF i.op = "auto_condition" THEN [s EXCEPT !.auto = i.value]
  ELSE IF i.op = "mode" THEN [s EXCEPT !.mode = i.value]
  ELSE s

Met(c, s) ==
  /\ c = "mag_on" => s.interface = 2
  /\ c = "mag_off" => s.interface = 0
  /\ c = "manual" => s.manual = 1
  /\ c = "not_manual" => s.manual # 1
  /\ c = "auto_condition" => s.auto = 0
Taken(i, s) == \A c \in i.when : Met(c, s)
Result(i, s) == IF Taken(i, s) THEN After(i, s) ELSE s

\* The BMM150 has taken the power bit.
Up(s) == Linked(s) /\ s.on = 1

\* f gives for each place in a program states the program is in there, whenever it
\* started in those of the first place.
Along(f, code) ==
  /\ f \in [0 .. Len(code) -> SUBSET State]
  /\ \A p \in 1 .. Len(code) : \A s \in f[p - 1] :
       /\ Result(code[p], s) \in f[p]
       /\ code[p].op = "awake" /\ Taken(code[p], s) /\ ~Up(s) => p > 3 /\ s \in f[p - 4]

\* Started in A, a program ends in B.
Leads(A, code, B) ==
  /\ A \subseteq State /\ B \subseteq State /\ code \in Seq(Legal)
  /\ \E f : Along(f, code) /\ A \subseteq f[0] /\ f[Len(code)] \subseteq B

\* An instruction leads from a state to a state.
LEMMA ResultIsState ==
  ASSUME NEW i \in Legal, NEW s \in State
  PROVE  After(i, s) \in State /\ Result(i, s) \in State
<1>1. After(i, s) \in State
  <2>1. CASE i.op = "put"
    <3>. DEFINE f == i.field
                v == i.value
    <3>1. /\ v \in Byte
          /\ f = "mag_manual_enable" => v \in 0 .. 1
          /\ f = "if_mode" => v \in {0, 2}
      BY <2>1, LegalIs
    <3>2. After(i, s) = Written(f, v, s)
      BY <2>1 DEF After
    <3>3. "suspend" \in Power /\ "normal" \in Power
      BY DEF Power
    <3>. HIDE DEF f, v
    <3>4. f = "if_mode" => [s EXCEPT !.if_mode = v] \in State
      BY <3>1 DEF State
    <3>5. f = "mag_manual_enable" => [s EXCEPT !.enable = v, !.manual = v] \in State
      BY <3>1 DEF State
    <3>6. [s EXCEPT !.read = v] \in State /\ [s EXCEPT !.write = v] \in State
      BY <3>1 DEF State
    <3>7. [s EXCEPT !.on = s.write] \in State /\ [s EXCEPT !.forced = s.write] \in State
      BY DEF State
    <3>8. [s EXCEPT !.mag = "suspend"] \in State /\ [s EXCEPT !.mag = "normal"] \in State
      BY <3>3 DEF State
    <3>. HIDE DEF State
    <3>. QED BY <3>2, <3>4, <3>5, <3>6, <3>7, <3>8 DEF Written
  <2>2. CASE i.op = "get_if_mode"
    BY <2>2 DEF After, State
  <2>3. CASE i.op = "trim"
    <3>. DEFINE b == (i.value = TrimRegisters[1] \/ s.trim)
                       /\ Answers(i.value, s) /\ s.read = i.value
    <3>1. b \in BOOLEAN
      OBVIOUS
    <3>2. After(i, s) = [s EXCEPT !.trim = b]
      BY <2>3 DEF After
    <3>. HIDE DEF b
    <3>. QED BY <3>1, <3>2 DEF State
  <2>4. CASE i.op = "auto_condition"
    <3>1. i.value \in 0 .. 1
      BY <2>4, LegalIs
    <3>. QED BY <2>4, <3>1 DEF After, State
  <2>5. CASE i.op = "mode"
    <3>1. i.value \in Names
      BY <2>5, LegalIs DEF Names
    <3>. QED BY <2>5, <3>1 DEF After, State
  <2>6. CASE i.op \notin {"put", "get_if_mode", "trim", "auto_condition", "mode"}
    BY <2>6 DEF After
  <2>. QED BY <2>1, <2>2, <2>3, <2>4, <2>5, <2>6
<1>. QED BY <1>1 DEF Result

\* One instruction.
LEMMA LeadsOne ==
  ASSUME NEW A \in SUBSET State, NEW B \in SUBSET State,
         NEW c \in Seq(Legal), Len(c) = 1,
         \A s \in A : Result(c[1], s) \in B /\ (c[1].op = "awake" => Up(s))
  PROVE  Leads(A, c, B)
<1>. DEFINE f == [n \in 0 .. 1 |-> IF n = 0 THEN A ELSE B]
<1>1. f \in [0 .. 1 -> SUBSET State] /\ f[0] = A /\ f[1] = B
  OBVIOUS
<1>2. 1 .. 1 = {1}
  OBVIOUS
<1>. HIDE DEF f
<1>3. ASSUME NEW p \in 1 .. 1, NEW s \in f[p - 1]
      PROVE  Result(c[p], s) \in f[p] /\ (c[p].op = "awake" => Up(s))
  BY <1>1, <1>2
<1>4. Along(f, c)
  BY <1>1, <1>3 DEF Along
<1>. QED BY <1>1, <1>4 DEF Leads

\* One after the other.
LEMMA LeadsOn ==
  ASSUME NEW A, NEW B, NEW C, NEW a, NEW b, Leads(A, a, B), Leads(B, b, C)
  PROVE  Leads(A, a \o b, C)
<1>1. PICK f : Along(f, a) /\ A \subseteq f[0] /\ f[Len(a)] \subseteq B
  BY DEF Leads
<1>2. PICK g : Along(g, b) /\ B \subseteq g[0] /\ g[Len(b)] \subseteq C
  BY DEF Leads
<1>. DEFINE m == Len(a)
            n == Len(b)
            c == a \o b
<1>3. a \in Seq(Legal) /\ b \in Seq(Legal) /\ m \in Nat /\ n \in Nat
  BY DEF Leads
<1>4. /\ c \in Seq(Legal) /\ Len(c) = m + n
      /\ \A p \in 1 .. m : c[p] = a[p]
      /\ \A p \in m + 1 .. m + n : c[p] = b[p - m]
  BY <1>3
<1>5. /\ f \in [0 .. m -> SUBSET State] /\ g \in [0 .. n -> SUBSET State]
      /\ A \subseteq f[0] /\ f[m] \subseteq g[0] /\ g[n] \subseteq C
      /\ f[m] \subseteq B /\ B \subseteq g[0]
  BY <1>1, <1>2 DEF Along
<1>6. \A p \in 1 .. m : \A s \in f[p - 1] :
        /\ Result(a[p], s) \in f[p]
        /\ a[p].op = "awake" /\ Taken(a[p], s) /\ ~Up(s) => p > 3 /\ s \in f[p - 4]
  BY <1>1 DEF Along
<1>7. \A p \in 1 .. n : \A s \in g[p - 1] :
        /\ Result(b[p], s) \in g[p]
        /\ b[p].op = "awake" /\ Taken(b[p], s) /\ ~Up(s) => p > 3 /\ s \in g[p - 4]
  BY <1>2 DEF Along
<1>. DEFINE H == [k \in 0 .. m + n |-> IF k < m THEN f[k] ELSE g[k - m]]
<1>. HIDE DEF m, n, c
<1>8. H \in [0 .. m + n -> SUBSET State]
  <2>1. ASSUME NEW k \in 0 .. m + n
        PROVE  (IF k < m THEN f[k] ELSE g[k - m]) \in SUBSET State
    <3>1. CASE k < m
      BY <1>3, <1>5, <3>1
    <3>2. CASE ~(k < m)
      <4>1. k - m \in 0 .. n
        BY <1>3, <3>2
      <4>. QED BY <1>5, <3>2, <4>1
    <3>. QED BY <3>1, <3>2
  <2>. QED BY <2>1
<1>9. \A k \in 0 .. m + n : (k < m => H[k] = f[k]) /\ (k >= m => H[k] = g[k - m])
  BY <1>3
<1>. HIDE DEF H
<1>10. A \subseteq H[0] /\ H[m + n] \subseteq C
  <2>1. 0 \in 0 .. m + n /\ m + n \in 0 .. m + n /\ m + n >= m /\ m + n - m = n
    BY <1>3
  <2>2. A \subseteq H[0]
    <3>1. CASE m = 0
      <4>1. H[0] = g[0]
        BY <1>9, <2>1, <3>1
      <4>. QED BY <1>5, <3>1, <4>1
    <3>2. CASE m # 0
      <4>1. H[0] = f[0]
        BY <1>3, <1>9, <2>1, <3>2
      <4>. QED BY <1>5, <4>1
    <3>. QED BY <3>1, <3>2
  <2>3. H[m + n] = g[n]
    <3>. DEFINE k == m + n
    <3>1. k \in 0 .. m + n /\ k >= m /\ k - m = n
      BY <1>3
    <3>. HIDE DEF k
    <3>2. H[k] = g[n]
      BY <1>9, <3>1
    <3>. QED BY <3>2 DEF k
  <2>. QED BY <1>5, <2>2, <2>3
<1>11. ASSUME NEW p \in 1 .. m + n, NEW s \in H[p - 1]
       PROVE  /\ Result(c[p], s) \in H[p]
              /\ c[p].op = "awake" /\ Taken(c[p], s) /\ ~Up(s) => p > 3 /\ s \in H[p - 4]
  <2>1. CASE p \in 1 .. m
    <3>1. p - 1 \in 0 .. m + n /\ p - 1 < m /\ p \in 0 .. m + n
      BY <1>3, <2>1
    <3>2. s \in f[p - 1] /\ c[p] = a[p]
      BY <1>4, <1>9, <2>1, <3>1
    <3>3. /\ Result(c[p], s) \in f[p]
          /\ c[p].op = "awake" /\ Taken(c[p], s) /\ ~Up(s) => p > 3 /\ s \in f[p - 4]
      BY <1>6, <2>1, <3>2
    <3>4. f[p] \subseteq H[p]
      <4>1. CASE p < m
        BY <1>9, <3>1, <4>1
      <4>2. CASE p = m
        <5>1. H[p] = g[0]
          BY <1>3, <1>9, <3>1, <4>2
        <5>. QED BY <1>5, <4>2, <5>1
      <4>. QED BY <1>3, <2>1, <4>1, <4>2
    <3>5. p > 3 => H[p - 4] = f[p - 4]
      BY <1>3, <1>9, <2>1
    <3>. QED BY <3>3, <3>4, <3>5
  <2>2. CASE p \in m + 1 .. m + n
    <3>1. /\ p - 1 \in 0 .. m + n /\ p - 1 >= m /\ p \in 0 .. m + n /\ p >= m
          /\ p - m \in 1 .. n /\ p - 1 - m = (p - m) - 1
      BY <1>3, <2>2
    <3>2. s \in g[(p - m) - 1] /\ c[p] = b[p - m] /\ H[p] = g[p - m]
      BY <1>4, <1>9, <2>2, <3>1
    <3>3. /\ Result(c[p], s) \in H[p]
          /\ c[p].op = "awake" /\ Taken(c[p], s) /\ ~Up(s) =>
               p - m > 3 /\ s \in g[(p - m) - 4]
      BY <1>7, <3>1, <3>2
    <3>4. p - m > 3 => p > 3 /\ H[p - 4] = g[(p - m) - 4]
      <4>1. p - m > 3 => /\ p > 3 /\ p - 4 \in 0 .. m + n /\ p - 4 >= m
                         /\ p - 4 - m = (p - m) - 4
        BY <1>3, <3>1
      <4>. QED BY <1>9, <4>1
    <3>. QED BY <3>3, <3>4
  <2>. QED BY <1>3, <2>1, <2>2
<1>12. Along(H, c)
  BY <1>4, <1>8, <1>11 DEF Along
<1>13. A \subseteq State /\ C \subseteq State /\ c \in Seq(Legal) /\ H[Len(c)] \subseteq C
  BY <1>4, <1>10 DEF Leads
<1>. QED BY <1>10, <1>12, <1>13 DEF Leads, c

\* A condition around a program is added to each of its instructions.
LEMMA Whens ==
  ASSUME NEW c \in Conditions, NEW code \in Seq(Legal)
  PROVE  /\ When(c, code) \in Seq(Legal) /\ Len(When(c, code)) = Len(code)
         /\ \A p \in 1 .. Len(code) :
              /\ When(c, code)[p].op = code[p].op
              /\ When(c, code)[p].field = code[p].field
              /\ When(c, code)[p].value = code[p].value
              /\ When(c, code)[p].when = code[p].when \cup {c}
<1>. DEFINE With(i) == [i EXCEPT !.when = @ \cup {c}]
            w == When(c, code)
<1>1. ASSUME NEW i \in Legal
      PROVE  /\ With(i) \in Legal /\ With(i).op = i.op /\ With(i).field = i.field
             /\ With(i).value = i.value /\ With(i).when = i.when \cup {c}
  <2>1. CASE i \in Instructions
    <3>1. With(i) \in [op : Operations, field : Fields, value : Byte, when : SUBSET Conditions]
      BY <2>1 DEF Instructions
    <3>2. /\ With(i).op = i.op /\ With(i).field = i.field /\ With(i).value = i.value
          /\ With(i).when = i.when \cup {c}
      BY <2>1 DEF Instructions
    <3>. HIDE DEF With
    <3>3. With(i) \in Instructions
      BY <2>1, <3>1, <3>2 DEF Instructions
    <3>. QED BY <3>2, <3>3 DEF Legal
  <2>2. CASE i \in ModeEnds
    <3>. DEFINE M == Mode
    <3>1. ModeEnds = [op : {"mode"}, field : Fields, value : M, when : SUBSET Conditions]
      BY DEF ModeEnds
    <3>. HIDE DEF M
    <3>2. With(i) \in ModeEnds
      BY <2>2, <3>1
    <3>3. /\ With(i).op = i.op /\ With(i).field = i.field /\ With(i).value = i.value
          /\ With(i).when = i.when \cup {c}
      BY <2>2, <3>1
    <3>. HIDE DEF With
    <3>. QED BY <3>2, <3>3 DEF Legal
  <2>. QED BY <2>1, <2>2 DEF Legal
<1>2. DOMAIN code = 1 .. Len(code) /\ Len(code) \in Nat /\ \A p \in 1 .. Len(code) : code[p] \in Legal
  OBVIOUS
<1>3. w = [p \in 1 .. Len(code) |-> With(code[p])]
  BY <1>2 DEF When
<1>. HIDE DEF With, w
<1>4. w \in [1 .. Len(code) -> Legal]
  BY <1>1, <1>2, <1>3
<1>5. w \in Seq(Legal) /\ Len(w) = Len(code)
  BY <1>2, <1>4
<1>. QED BY <1>1, <1>2, <1>3, <1>5 DEF w

\* From fewer states to more.
LEMMA LeadsWithin ==
  ASSUME NEW A, NEW B, NEW code, Leads(A, code, B), NEW C \in SUBSET A,
         NEW D \in SUBSET State, B \subseteq D
  PROVE  Leads(C, code, D)
<1>1. PICK f : Along(f, code) /\ A \subseteq f[0] /\ f[Len(code)] \subseteq B
  BY DEF Leads
<1>2. C \subseteq State /\ code \in Seq(Legal)
  BY DEF Leads
<1>3. C \subseteq f[0] /\ f[Len(code)] \subseteq D
  BY <1>1
<1>. QED BY <1>1, <1>2, <1>3 DEF Leads

\* From two sets of states.
LEMMA LeadsEither ==
  ASSUME NEW A, NEW B, NEW C, NEW code, Leads(A, code, C), Leads(B, code, C)
  PROVE  Leads(A \cup B, code, C)
<1>1. PICK f : Along(f, code) /\ A \subseteq f[0] /\ f[Len(code)] \subseteq C
  BY DEF Leads
<1>2. PICK g : Along(g, code) /\ B \subseteq g[0] /\ g[Len(code)] \subseteq C
  BY DEF Leads
<1>. DEFINE n == Len(code)
            h == [k \in 0 .. n |-> f[k] \cup g[k]]
<1>3. n \in Nat /\ f \in [0 .. n -> SUBSET State] /\ g \in [0 .. n -> SUBSET State]
  BY <1>1, <1>2 DEF Along, Leads
<1>4. /\ \A p \in 1 .. n : \A s \in f[p - 1] :
           /\ Result(code[p], s) \in f[p]
           /\ code[p].op = "awake" /\ Taken(code[p], s) /\ ~Up(s) => p > 3 /\ s \in f[p - 4]
      /\ \A p \in 1 .. n : \A s \in g[p - 1] :
           /\ Result(code[p], s) \in g[p]
           /\ code[p].op = "awake" /\ Taken(code[p], s) /\ ~Up(s) => p > 3 /\ s \in g[p - 4]
  BY <1>1, <1>2 DEF Along
<1>5. A \cup B \subseteq f[0] \cup g[0] /\ f[n] \cup g[n] \subseteq C
  BY <1>1, <1>2
<1>. HIDE DEF n
<1>6. h \in [0 .. n -> SUBSET State] /\ \A k \in 0 .. n : h[k] = f[k] \cup g[k]
  BY <1>3
<1>. HIDE DEF h
<1>7. ASSUME NEW p \in 1 .. n, NEW s \in h[p - 1]
      PROVE  /\ Result(code[p], s) \in h[p]
             /\ code[p].op = "awake" /\ Taken(code[p], s) /\ ~Up(s) => p > 3 /\ s \in h[p - 4]
  <2>1. /\ p \in 0 .. n /\ p - 1 \in 0 .. n /\ h[p - 1] = f[p - 1] \cup g[p - 1]
        /\ h[p] = f[p] \cup g[p] /\ (p > 3 => h[p - 4] = f[p - 4] \cup g[p - 4])
    BY <1>3, <1>6
  <2>2. CASE s \in f[p - 1]
    BY <1>4, <2>1, <2>2
  <2>3. CASE s \in g[p - 1]
    BY <1>4, <2>1, <2>3
  <2>. QED BY <2>1, <2>2, <2>3
<1>8. Along(h, code)
  BY <1>6, <1>7 DEF Along, n
<1>9. h[0] = f[0] \cup g[0] /\ h[n] = f[n] \cup g[n]
  BY <1>3, <1>6
<1>10. A \cup B \subseteq State /\ C \subseteq State /\ code \in Seq(Legal)
  BY DEF Leads
<1>11. A \cup B \subseteq h[0] /\ h[Len(code)] \subseteq C
  BY <1>5, <1>9 DEF n
<1>. QED BY <1>8, <1>10, <1>11 DEF Leads

\* A program that never changes a state of A.
LEMMA LeadsNowhere ==
  ASSUME NEW A \in SUBSET State, NEW code \in Seq(Legal),
         \A p \in 1 .. Len(code) : \A s \in A :
           /\ Result(code[p], s) \in A
           /\ code[p].op = "awake" /\ Taken(code[p], s) /\ ~Up(s) => p > 3
  PROVE  Leads(A, code, A)
<1>. DEFINE n == Len(code)
            f == [k \in 0 .. n |-> A]
<1>1. n \in Nat
  OBVIOUS
<1>2. f \in [0 .. n -> SUBSET State] /\ \A k \in 0 .. n : f[k] = A
  OBVIOUS
<1>. HIDE DEF f
<1>3. \A p \in 1 .. n : f[p - 1] = A /\ f[p] = A /\ (p > 3 => f[p - 4] = A)
  BY <1>1, <1>2
<1>4. Along(f, code)
  BY <1>2, <1>3 DEF Along
<1>5. f[0] = A /\ f[n] = A
  BY <1>1, <1>2
<1>. QED BY <1>4, <1>5 DEF Leads

\* Whatever its condition keeps it from changes nothing.
LEMMA LeadsSkipped ==
  ASSUME NEW c \in Conditions, NEW code \in Seq(Legal), NEW A \in SUBSET State,
         \A s \in A : ~Met(c, s)
  PROVE  Leads(A, When(c, code), A)
<1>. DEFINE w == When(c, code)
<1>1. w \in Seq(Legal) /\ \A p \in 1 .. Len(w) : c \in w[p].when
  BY Whens
<1>. HIDE DEF w
<1>2. \A p \in 1 .. Len(w) : \A s \in A : ~Taken(w[p], s)
  BY <1>1 DEF Taken
<1>3. Leads(A, w, A)
  BY <1>1, <1>2, LeadsNowhere DEF Result
<1>. QED BY <1>3 DEF w

\* What has nothing to do with the magnetometer changes nothing either.
LEMMA LeadsQuiet ==
  ASSUME NEW code \in Seq(Quiet), NEW A \in SUBSET State
  PROVE  Leads(A, code, A)
<1>1. code \in Seq(Legal)
  BY DEF Quiet
<1>2. ASSUME NEW i \in Quiet, NEW s \in State PROVE Result(i, s) = s /\ i.op # "awake"
  BY DEF Quiet, Result, After, Written, MagFields
<1>3. \A p \in 1 .. Len(code) : code[p] \in Quiet
  OBVIOUS
<1>. QED BY <1>1, <1>2, <1>3, LeadsNowhere

\* A program ends somewhere.
LEMMA LeadsSomewhere ==
  ASSUME NEW code, Sound(code)
  PROVE  Leads(State, code, State)
<1>1. code \in Seq(Legal) /\ \A p \in 1 .. Len(code) : code[p] \in Legal
  <2>1. code \in Seq(Legal)
    BY LegalPlain DEF Sound
  <2>. QED BY <2>1
<1>2. \A p \in 1 .. Len(code) : \A s \in State :
        Result(code[p], s) \in State /\ (code[p].op = "awake" => p > 3)
  BY <1>1, ResultIsState DEF Sound
<1>. QED BY <1>1, <1>2, LeadsNowhere

\* What is done under a condition that holds, and goes on holding, is done.
LEMMA LeadsMet ==
  ASSUME NEW A, NEW B, NEW code, Leads(A, code, B), NEW c \in {"mag_on", "mag_off", "auto_condition"},
         \A s \in A : Met(c, s),
         IF c = "auto_condition" THEN \A p \in 1 .. Len(code) : code[p].op # "auto_condition"
         ELSE \A p \in 1 .. Len(code) : code[p].op # "get_if_mode"
  PROVE  Leads(A, When(c, code), B)
<1>1. PICK f : Along(f, code) /\ A \subseteq f[0] /\ f[Len(code)] \subseteq B
  BY DEF Leads
<1>. DEFINE n == Len(code)
            w == When(c, code)
            h == [k \in 0 .. n |-> {s \in f[k] : Met(c, s)}]
<1>2. A \subseteq State /\ B \subseteq State /\ code \in Seq(Legal) /\ n \in Nat
  BY DEF Leads
<1>3. /\ w \in Seq(Legal) /\ Len(w) = n
      /\ \A p \in 1 .. n :
           /\ w[p].op = code[p].op /\ w[p].field = code[p].field /\ w[p].value = code[p].value
           /\ w[p].when = code[p].when \cup {c}
  BY <1>2, Whens DEF Conditions
<1>4. f \in [0 .. n -> SUBSET State]
  BY <1>1 DEF Along
<1>5. \A p \in 1 .. n : \A s \in f[p - 1] :
        /\ Result(code[p], s) \in f[p]
        /\ code[p].op = "awake" /\ Taken(code[p], s) /\ ~Up(s) => p > 3 /\ s \in f[p - 4]
  BY <1>1 DEF Along
<1>6. \A p \in 1 .. n : code[p] \in Legal
  BY <1>2
<1>. HIDE DEF n, w
<1>7. h \in [0 .. n -> SUBSET State] /\ \A k \in 0 .. n : h[k] = {s \in f[k] : Met(c, s)}
  BY <1>4
<1>. HIDE DEF h
<1>8. ASSUME NEW i \in Legal, NEW s \in State
      PROVE  /\ i.op # "get_if_mode" => Result(i, s).interface = s.interface
             /\ i.op # "auto_condition" => Result(i, s).auto = s.auto
  <2>1. i.op # "get_if_mode" => After(i, s).interface = s.interface
    BY DEF After, Written, State
  <2>2. i.op # "auto_condition" => After(i, s).auto = s.auto
    BY DEF After, Written, State
  <2>. QED BY <2>1, <2>2 DEF Result
<1>9. ASSUME NEW p \in 1 .. n, NEW s \in h[p - 1]
      PROVE  /\ Result(w[p], s) \in h[p]
             /\ w[p].op = "awake" /\ Taken(w[p], s) /\ ~Up(s) => p > 3 /\ s \in h[p - 4]
  <2>1. p \in 0 .. n /\ p - 1 \in 0 .. n /\ (p > 3 => p - 4 \in 0 .. n)
    BY <1>2
  <2>2. s \in f[p - 1] /\ Met(c, s) /\ s \in State
    BY <1>4, <1>7, <2>1
  <2>3. Taken(w[p], s) <=> Taken(code[p], s)
    BY <1>3, <2>2 DEF Taken
  <2>4. After(w[p], s) = After(code[p], s)
    BY <1>3 DEF After
  <2>5. Result(w[p], s) = Result(code[p], s)
    BY <2>3, <2>4 DEF Result
  <2>6. IF c = "auto_condition" THEN Result(code[p], s).auto = s.auto
        ELSE Result(code[p], s).interface = s.interface
    BY <1>6, <1>8, <2>2 DEF n
  <2>7. Met(c, Result(code[p], s))
    BY <2>2, <2>6 DEF Met
  <2>8. Result(w[p], s) \in h[p]
    BY <1>5, <1>7, <2>1, <2>2, <2>5, <2>7
  <2>9. w[p].op = "awake" /\ Taken(w[p], s) /\ ~Up(s) => p > 3 /\ s \in h[p - 4]
    BY <1>3, <1>5, <1>7, <2>1, <2>2, <2>3
  <2>. QED BY <2>8, <2>9
<1>10. Along(h, w)
  BY <1>3, <1>7, <1>9 DEF Along
<1>11. A \subseteq h[0] /\ h[n] \subseteq B
  <2>1. h[0] = {s \in f[0] : Met(c, s)} /\ h[n] = {s \in f[n] : Met(c, s)}
    BY <1>2, <1>7
  <2>. QED BY <1>1, <2>1 DEF n
<1>. QED BY <1>2, <1>3, <1>10, <1>11 DEF Leads, w

\* The effect of single instructions.
LEMMA PutLeads ==
  ASSUME NEW A \in SUBSET State, NEW B \in SUBSET State, NEW f, NEW v,
         Put(f, v) \in Legal, \A s \in A : Written(f, v, s) \in B
  PROVE  Leads(A, <<Put(f, v)>>, B)
<1>. DEFINE i == Put(f, v)
            c == <<i>>
<1>1. i.op = "put" /\ i.field = f /\ i.value = v /\ i.when = {}
  BY DEF Put, Instruction
<1>. HIDE DEF i
<1>2. c \in Seq(Legal) /\ Len(c) = 1 /\ c[1] = i
  BY DEF i
<1>. HIDE DEF c
<1>3. \A s \in A : Result(c[1], s) \in B /\ c[1].op # "awake"
  BY <1>1, <1>2 DEF Result, After, Taken
<1>4. Leads(A, c, B)
  BY <1>2, <1>3, LeadsOne
<1>. QED BY <1>4 DEF c, i

\* What is not a transfer to a setting.
LEMMA DoLeads ==
  ASSUME NEW A \in SUBSET State, NEW B \in SUBSET State, NEW op, NEW v,
         Do(op, v) \in Legal,
         \A s \in A : After(Do(op, v), s) \in B /\ (op = "awake" => Up(s))
  PROVE  Leads(A, <<Do(op, v)>>, B)
<1>. DEFINE i == Do(op, v)
            c == <<i>>
<1>1. i.op = op /\ i.when = {}
  BY DEF Do, Instruction
<1>. HIDE DEF i
<1>2. c \in Seq(Legal) /\ Len(c) = 1 /\ c[1] = i
  BY DEF i
<1>. HIDE DEF c
<1>3. \A s \in A : Result(c[1], s) \in B /\ (c[1].op = "awake" => Up(s))
  BY <1>1, <1>2 DEF Result, Taken, i
<1>4. Leads(A, c, B)
  BY <1>2, <1>3, LeadsOne
<1>. QED BY <1>4 DEF c, i

\* Two instructions, one after the other.
LEMMA Pair == \A a, b : <<a>> \o <<b>> = <<a, b>>
<1>. SUFFICES ASSUME NEW a, NEW b PROVE <<a>> \o <<b>> = <<a, b>>
  OBVIOUS
<1>. DEFINE T == {a, b}
            s == <<a>> \o <<b>>
            t == <<a, b>>
<1>1. /\ s \in Seq(T) /\ t \in Seq(T) /\ Len(s) = 2 /\ Len(t) = 2
      /\ s[1] = a /\ s[2] = b /\ t[1] = a /\ t[2] = b
  OBVIOUS
<1>2. 1 .. 2 = {1, 2}
  OBVIOUS
<1>. HIDE DEF T, s, t
<1>3. s = t
  BY <1>1, <1>2, SeqEqual
<1>. QED BY <1>3 DEF s, t

\* Three.
LEMMA Triple == \A a, b, c : <<a>> \o <<b>> \o <<c>> = <<a, b, c>>
<1>. SUFFICES ASSUME NEW a, NEW b, NEW c PROVE <<a>> \o <<b>> \o <<c>> = <<a, b, c>>
  OBVIOUS
<1>. DEFINE T == {a, b, c}
            s == <<a, b>> \o <<c>>
            t == <<a, b, c>>
<1>1. /\ s \in Seq(T) /\ t \in Seq(T) /\ Len(s) = 3 /\ Len(t) = 3
      /\ s[1] = a /\ s[2] = b /\ s[3] = c /\ t[1] = a /\ t[2] = b /\ t[3] = c
  OBVIOUS
<1>2. 1 .. 3 = {1, 2, 3}
  OBVIOUS
<1>. HIDE DEF T, s, t
<1>3. s = t
  BY <1>1, <1>2, SeqEqual
<1>. QED BY <1>3, Pair DEF s, t

\* A write to a register of the BMM150.
LEMMA WriteLeads ==
  ASSUME NEW A \in SUBSET State, NEW B \in SUBSET State, NEW a \in Byte, NEW v \in Byte,
         \A s \in A : Written("mag_write_addr", a, Written("mag_write_data", v, s)) \in B
  PROVE  Leads(A, MagWrite(a, v), B)
<1>. DEFINE x == Put("mag_write_data", v)
            y == Put("mag_write_addr", a)
            C == {s \in State : Written("mag_write_addr", a, s) \in B}
<1>1. x \in Legal /\ y \in Legal
  <2>1. x \in Straight /\ y \in Straight
    BY Puts DEF Fields
  <2>. HIDE DEF x, y
  <2>. QED BY <2>1 DEF Straight, Plain, Legal
<1>2. \A s \in A : Written("mag_write_data", v, s) \in C
  <2>1. \A s \in State : Written("mag_write_data", v, s) \in State
    BY DEF Written, State
  <2>. QED BY <2>1
<1>3. Leads(A, <<x>>, C)
  BY <1>1, <1>2, PutLeads
<1>4. Leads(C, <<y>>, B)
  BY <1>1, PutLeads
<1>5. Leads(A, <<x>> \o <<y>>, B)
  BY <1>3, <1>4, LeadsOn
<1>6. <<x>> \o <<y>> = MagWrite(a, v)
  BY Pair DEF MagWrite
<1>. QED BY <1>5, <1>6

\* The switches between manual and automatic mode.
LEMMA SwitchLeads ==
  ASSUME NEW A \in SUBSET State, NEW B \in SUBSET State
  PROVE  /\ (\A s \in A : IF s.manual = 1 THEN s \in B
                          ELSE Written("mag_manual_enable", 1, s) \in B)
              => Leads(A, manual, B)
         /\ (\A s \in A : IF s.manual # 1 THEN s \in B
                          ELSE Written("mag_manual_enable", 0, s) \in B)
              => Leads(A, automatic, B)
<1>1. ASSUME NEW v \in {0, 1}, NEW c \in {"manual", "not_manual"},
             \A s \in A : IF Met(c, s) THEN Written("mag_manual_enable", v, s) \in B ELSE s \in B
      PROVE  Leads(A, When(c, <<Put("mag_manual_enable", v)>>), B)
  <2>. DEFINE i == Put("mag_manual_enable", v)
              p == <<i>>
              w == When(c, p)
  <2>1. i.op = "put" /\ i.field = "mag_manual_enable" /\ i.value = v /\ i.when = {}
    BY DEF Put, Instruction
  <2>2. i \in Legal
    <3>1. i \in Straight
      BY Puts DEF Byte
    <3>. HIDE DEF i
    <3>. QED BY <3>1 DEF Straight, Plain, Legal
  <2>. HIDE DEF i
  <2>3. p \in Seq(Legal) /\ Len(p) = 1 /\ p[1] = i /\ 1 \in 1 .. Len(p)
    BY <2>2
  <2>. HIDE DEF p
  <2>4. /\ w \in Seq(Legal) /\ Len(w) = 1
        /\ w[1].op = "put" /\ w[1].field = "mag_manual_enable" /\ w[1].value = v
        /\ w[1].when = {c}
    BY <2>1, <2>3, Whens DEF Conditions
  <2>. HIDE DEF w
  <2>5. \A s \in A : Result(w[1], s) \in B /\ w[1].op # "awake"
    BY <1>1, <2>4 DEF Result, After, Taken
  <2>6. Leads(A, w, B)
    BY <2>4, <2>5, LeadsOne
  <2>. QED BY <2>6 DEF w, p, i
<1>2. \A s : (Met("manual", s) <=> s.manual = 1) /\ (Met("not_manual", s) <=> s.manual # 1)
  BY DEF Met
<1>3. ASSUME \A s \in A : IF s.manual = 1 THEN s \in B
                          ELSE Written("mag_manual_enable", 1, s) \in B
      PROVE  Leads(A, manual, B)
  BY <1>1, <1>2, <1>3 DEF manual
<1>4. ASSUME \A s \in A : IF s.manual # 1 THEN s \in B
                          ELSE Written("mag_manual_enable", 0, s) \in B
      PROVE  Leads(A, automatic, B)
  BY <1>1, <1>2, <1>4 DEF automatic
<1>. QED BY <1>3, <1>4

\* The states in manual mode, and those with the BMM150 powered, for given modes, trim
\* values and values of the automatic condition.
InManual(N, T, U) ==
  {s \in State : /\ s.enable = 1 /\ s.manual = 1 /\ s.if_mode = 2 /\ s.mag = "normal"
                 /\ s.mode \in N /\ s.trim \in T /\ s.auto \in U}
Powered(N, T, U) == {s \in InManual(N, T, U) : s.on = 1}

\* The magnetometer is ready, and off.
Ready(N) ==
  {s \in State : /\ s.if_mode = 2 /\ s.mag = "normal" /\ s.enable = 0 /\ s.manual = 0
                 /\ s.on = 1 /\ s.forced = 2 /\ s.read = 66 /\ s.trim /\ s.auto = 0
                 /\ s.mode \in N}
Off(N) == {s \in State : s.if_mode = 0 /\ s.mag = "suspend" /\ s.on = 0 /\ s.mode \in N}

\* What writing to a register of the BMM150 does in manual mode.
LEMMA PowerLeads ==
  ASSUME NEW N, NEW T, NEW U
  PROVE  /\ \A a \in Byte \ {75} : \A v \in Byte :
              Leads(Powered(N, T, U), MagWrite(a, v), Powered(N, T, U))
         /\ \A v \in Byte :
              Leads(Powered(N, T, U), MagWrite(76, v), {s \in Powered(N, T, U) : s.forced = v})
         /\ \A v \in Byte :
              Leads(InManual(N, T, U), MagWrite(75, v), {s \in InManual(N, T, U) : s.on = v})
<1>. DEFINE M == InManual(N, T, U)
            P == Powered(N, T, U)
<1>1. /\ M \in SUBSET State /\ P \in SUBSET State
      /\ \A v : {s \in P : s.forced = v} \in SUBSET State
      /\ \A v : {s \in M : s.on = v} \in SUBSET State
  BY DEF InManual, Powered
<1>2. 75 \in Byte /\ 76 \in Byte
  BY DEF Byte
<1>3. ASSUME NEW a \in Byte, NEW v \in Byte, a # 75, NEW s \in P
      PROVE  /\ Written("mag_write_addr", a, Written("mag_write_data", v, s)) \in P
             /\ a = 76 => Written("mag_write_addr", a, Written("mag_write_data", v, s)).forced = v
  <2>. DEFINE r == [s EXCEPT !.write = v]
  <2>1. Written("mag_write_data", v, s) = r
    BY DEF Written
  <2>2. r \in P /\ r.write = v /\ Linked(r) /\ r.on = 1
    BY DEF InManual, Powered, Linked, State
  <2>. HIDE DEF r
  <2>3. Written("mag_write_addr", a, r) = IF a = 76 THEN [r EXCEPT !.forced = v] ELSE r
    BY <1>3, <2>2 DEF Written
  <2>4. [r EXCEPT !.forced = v] \in P /\ [r EXCEPT !.forced = v].forced = v
    BY <2>2 DEF InManual, Powered, State
  <2>. HIDE DEF P
  <2>. QED BY <2>1, <2>2, <2>3, <2>4
<1>4. ASSUME NEW v \in Byte, NEW s \in M
      PROVE  /\ Written("mag_write_addr", 75, Written("mag_write_data", v, s)) \in M
             /\ Written("mag_write_addr", 75, Written("mag_write_data", v, s)).on = v
  <2>. DEFINE r == [s EXCEPT !.write = v]
  <2>1. Written("mag_write_data", v, s) = r
    BY DEF Written
  <2>2. r \in M /\ r.write = v /\ Linked(r)
    BY DEF InManual, Linked, State
  <2>. HIDE DEF r
  <2>3. Written("mag_write_addr", 75, r) = [r EXCEPT !.on = v]
    BY <2>2 DEF Written
  <2>4. [r EXCEPT !.on = v] \in M /\ [r EXCEPT !.on = v].on = v
    BY <2>2 DEF InManual, State
  <2>. HIDE DEF M
  <2>. QED BY <2>1, <2>2, <2>3, <2>4
<1>. HIDE DEF M, P
<1>5. ASSUME NEW a \in Byte \ {75}, NEW v \in Byte PROVE Leads(P, MagWrite(a, v), P)
  BY <1>1, <1>3, WriteLeads
<1>6. ASSUME NEW v \in Byte
      PROVE  Leads(P, MagWrite(76, v), {s \in P : s.forced = v})
  <2>1. \A s \in P : Written("mag_write_addr", 76, Written("mag_write_data", v, s))
                       \in {t \in P : t.forced = v}
    BY <1>2, <1>3
  <2>. QED BY <1>1, <1>2, <2>1, WriteLeads
<1>7. ASSUME NEW v \in Byte
      PROVE  Leads(M, MagWrite(75, v), {s \in M : s.on = v})
  <2>1. \A s \in M : Written("mag_write_addr", 75, Written("mag_write_data", v, s))
                       \in {t \in M : t.on = v}
    BY <1>4
  <2>. QED BY <1>1, <1>2, <2>1, WriteLeads
<1>. QED BY <1>5, <1>6, <1>7 DEF M, P

\* The wake-up powers the BMM150.
LEMMA WakeUpLeads ==
  ASSUME NEW N, NEW T, NEW U
  PROVE  Leads(InManual(N, T, U), mag_wakeup, Powered(N, T, U))
<1>. DEFINE M == InManual(N, T, U)
            P == Powered(N, T, U)
            i == Put("mag_read_addr", 75)
            j == Do("awake", 75)
<1>1. Leads(M, MagWrite(75, 1), P)
  <2>1. 1 \in Byte
    BY DEF Byte
  <2>2. Leads(InManual(N, T, U), MagWrite(75, 1), {s \in InManual(N, T, U) : s.on = 1})
    BY <2>1, PowerLeads
  <2>. QED BY <2>2 DEF Powered
<1>2. P \in SUBSET State
  BY DEF InManual, Powered
<1>3. i \in Legal /\ j \in Legal
  <2>1. i \in Straight /\ j \in Plain
    BY Puts, Dos DEF Fields, Byte
  <2>. HIDE DEF i, j
  <2>. QED BY <2>1 DEF Straight, Plain, Legal
<1>4. \A s \in P : Written("mag_read_addr", 75, s) \in P
  BY DEF InManual, Powered, Written, State, Byte
<1>5. Leads(P, <<i>>, P)
  BY <1>2, <1>3, <1>4, PutLeads
<1>6. \A s \in P : After(j, s) \in P /\ Up(s)
  <2>1. j.op = "awake"
    BY DEF Do, Instruction
  <2>2. \A s \in P : Up(s)
    BY DEF InManual, Powered, Up, Linked
  <2>. QED BY <2>1, <2>2 DEF After
<1>7. Leads(P, <<j>>, P)
  <2>. HIDE DEF P
  <2>. QED BY <1>2, <1>3, <1>6, DoLeads
<1>8. Leads(P, <<i>> \o <<j>>, P)
  BY <1>5, <1>7, LeadsOn
<1>9. <<i>> \o <<j>> = MagRead("awake", PowerControl)
  BY Pair DEF MagRead, PowerControl
<1>10. mag_wakeup = MagWrite(75, 1) \o MagRead("awake", PowerControl)
  BY DEF mag_wakeup, PowerControl
<1>. HIDE DEF M, P, i, j
<1>11. Leads(P, MagRead("awake", PowerControl), P)
  BY <1>8, <1>9
<1>12. Leads(M, MagWrite(75, 1) \o MagRead("awake", PowerControl), P)
  BY <1>1, <1>11, LeadsOn
<1>. QED BY <1>10, <1>12 DEF M, P

\* The trim values are all read, each at its address.
LEMMA TrimLeads ==
  ASSUME NEW N, NEW T, NEW U
  PROVE  Leads(Powered(N, T, U), read_mag_trim, Powered(N, {TRUE}, U))
<1>. DEFINE R == TrimRegisters
            code == read_mag_trim
            f == [n \in 0 .. 32 |-> {s \in Powered(N, BOOLEAN, U) :
                                       /\ n >= 2 => s.trim
                                       /\ n % 2 = 1 => s.read = R[(n + 1) \div 2]}]
<1>1. Len(R) = 16 /\ \A k \in 1 .. 16 : R[k] \in Byte
  BY DEF TrimRegisters, Byte
<1>2. code \in Seq(Straight) /\ code \in Seq(Legal)
  <2>1. Straight \subseteq Legal
    BY DEF Straight, Plain, Legal
  <2>. QED BY <2>1, TrimStraight
<1>3. code = [n \in 1 .. 32 |-> MagRead("trim", R[(n + 1) \div 2])[2 - (n % 2)]]
  BY <1>1 DEF read_mag_trim
<1>4. Len(code) = 32
  BY <1>2, <1>3
<1>5. ASSUME NEW n \in 1 .. 32
      PROVE  code[n] = IF n % 2 = 1 THEN Put("mag_read_addr", R[(n + 1) \div 2])
                       ELSE Do("trim", R[(n + 1) \div 2])
  <2>1. code[n] = MagRead("trim", R[(n + 1) \div 2])[2 - (n % 2)]
    BY <1>3
  <2>2. n % 2 \in {0, 1}
    OBVIOUS
  <2>. HIDE DEF code, R
  <2>. QED BY <2>1, <2>2 DEF MagRead
<1>6. \A n \in 0 .. 32 : f[n] = {s \in Powered(N, BOOLEAN, U) :
                                   /\ n >= 2 => s.trim
                                   /\ n % 2 = 1 => s.read = R[(n + 1) \div 2]}
  OBVIOUS
<1>a. \A n \in 0 .. 32 : \A s \in Powered(N, BOOLEAN, U) :
        (n >= 2 => s.trim) /\ (n % 2 = 1 => s.read = R[(n + 1) \div 2]) => s \in f[n]
  BY <1>6
<1>7. f \in [0 .. 32 -> SUBSET State]
  BY DEF Powered, InManual
<1>. HIDE DEF R, code, f
<1>8. ASSUME NEW p \in 1 .. 32, NEW s \in f[p - 1]
      PROVE  Result(code[p], s) \in f[p] /\ code[p].op # "awake"
  <2>1. p - 1 \in 0 .. 32 /\ p \in 0 .. 32 /\ (p + 1) \div 2 \in 1 .. 16
    OBVIOUS
  <2>2. s \in Powered(N, BOOLEAN, U) /\ s \in State
    BY <1>6, <2>1 DEF Powered, InManual
  <2>. DEFINE v == R[(p + 1) \div 2]
              Q == Powered(N, BOOLEAN, U)
  <2>3. v \in Byte
    BY <1>1, <2>1
  <2>4. (p - 1 >= 2 => s.trim) /\ ((p - 1) % 2 = 1 => s.read = R[((p - 1) + 1) \div 2])
    BY <1>6, <2>1
  <2>5. CASE p % 2 = 1
    <3>1. code[p] = Put("mag_read_addr", v)
      BY <1>5, <2>5
    <3>. HIDE DEF v
    <3>2. code[p].op = "put" /\ Result(code[p], s) = [s EXCEPT !.read = v]
      BY <3>1 DEF Put, Instruction, Result, Taken, After, Written
    <3>3. [s EXCEPT !.read = v] \in Q /\ [s EXCEPT !.read = v].read = v
          /\ [s EXCEPT !.read = v].trim = s.trim
      BY <2>2, <2>3 DEF Powered, InManual, State
    <3>4. p >= 2 => p - 1 >= 2
      BY <2>5
    <3>. DEFINE t == [s EXCEPT !.read = v]
    <3>5. t \in Powered(N, BOOLEAN, U) /\ (p >= 2 => t.trim) /\ t.read = R[(p + 1) \div 2]
      BY <2>4, <3>3, <3>4 DEF v
    <3>. HIDE DEF t
    <3>6. t \in f[p]
      BY <1>a, <2>1, <3>5
    <3>. QED BY <3>2, <3>6 DEF t
  <2>6. CASE p % 2 = 0
    <3>1. code[p] = Do("trim", v)
      BY <1>5, <2>6
    <3>2. s.read = v
      <4>1. (p - 1) % 2 = 1 /\ ((p - 1) + 1) \div 2 = (p + 1) \div 2
        BY <2>6
      <4>. QED BY <2>4, <4>1
    <3>3. v = R[1] \/ s.trim
      <4>1. CASE p = 2
        <5>1. (p + 1) \div 2 = 1
          BY <4>1
        <5>. QED BY <5>1
      <4>2. CASE p # 2
        <5>1. p - 1 >= 2
          BY <2>6, <4>2
        <5>. QED BY <2>4, <5>1
      <4>. QED BY <4>1, <4>2
    <3>. HIDE DEF v
    <3>4. Answers(v, s)
      BY <2>2 DEF Powered, InManual, Answers, Linked
    <3>. DEFINE b == (v = R[1] \/ s.trim) /\ Answers(v, s) /\ s.read = v
    <3>5. b = TRUE
      BY <3>2, <3>3, <3>4
    <3>6. code[p].op = "trim" /\ Result(code[p], s) = [s EXCEPT !.trim = b]
      BY <3>1 DEF Do, Instruction, Result, Taken, After, R
    <3>. HIDE DEF b
    <3>7. [s EXCEPT !.trim = b] \in Q /\ [s EXCEPT !.trim = b].trim
      BY <2>2, <3>5 DEF Powered, InManual, State
    <3>. DEFINE t == [s EXCEPT !.trim = b]
    <3>8. t \in Powered(N, BOOLEAN, U) /\ t.trim
      BY <3>7
    <3>. HIDE DEF t
    <3>9. t \in f[p]
      BY <1>a, <2>1, <2>6, <3>8
    <3>. QED BY <3>6, <3>9 DEF t
  <2>7. p % 2 \in {0, 1}
    OBVIOUS
  <2>. QED BY <2>5, <2>6, <2>7
<1>9. Along(f, code)
  BY <1>4, <1>7, <1>8 DEF Along
<1>10. Powered(N, T, U) \subseteq f[0]
  <2>1. Powered(N, T, U) \subseteq Powered(N, BOOLEAN, U)
    BY DEF Powered, InManual, State
  <2>2. 0 \in 0 .. 32 /\ ~(0 >= 2) /\ 0 % 2 # 1
    OBVIOUS
  <2>. QED BY <1>6, <2>1, <2>2
<1>11. f[32] \subseteq Powered(N, {TRUE}, U)
  <2>1. 32 \in 0 .. 32 /\ 32 >= 2
    OBVIOUS
  <2>2. \A s \in f[32] : s \in Powered(N, BOOLEAN, U) /\ s.trim
    BY <1>6, <2>1
  <2>. QED BY <2>2 DEF Powered, InManual, State
<1>12. Powered(N, T, U) \subseteq State /\ Powered(N, {TRUE}, U) \subseteq State
  BY DEF Powered, InManual
<1>. QED BY <1>2, <1>4, <1>9, <1>10, <1>11, <1>12 DEF Leads, code

NoAuto == {i \in Legal : i.op # "auto_condition"}

\* To forced mode and back to automatic: the automatic condition is not touched.
LEMMA ForcedNoAuto ==
  MagWrite(76, 2) \o <<Put("mag_read_addr", 66)>> \o automatic \in Seq(NoAuto)
<1>1. ASSUME NEW f \in Fields, NEW v \in Byte, Put(f, v) \in Straight
      PROVE  Put(f, v) \in NoAuto
  <2>. DEFINE i == Put(f, v)
  <2>1. i.op = "put"
    BY DEF Put, Instruction
  <2>2. i \in Straight
    BY <1>1
  <2>. HIDE DEF i
  <2>3. i \in NoAuto
    BY <2>1, <2>2 DEF NoAuto, Straight, Plain, Legal
  <2>. QED BY <2>3 DEF i
<1>2. /\ Put("mag_write_data", 2) \in NoAuto /\ Put("mag_write_addr", 76) \in NoAuto
      /\ Put("mag_read_addr", 66) \in NoAuto
  <2>1. 2 \in Byte /\ 76 \in Byte /\ 66 \in Byte
    BY DEF Byte
  <2>2. {"mag_write_data", "mag_write_addr", "mag_read_addr"} \subseteq Fields
    BY DEF Fields
  <2>3. /\ Put("mag_write_data", 2) \in Straight
        /\ Put("mag_write_addr", 76) \in Straight
        /\ Put("mag_read_addr", 66) \in Straight
    BY <2>1, <2>2, Puts
  <2>. QED BY <1>1, <2>1, <2>2, <2>3
<1>3. MagWrite(76, 2) \in Seq(NoAuto)
  BY <1>2 DEF MagWrite
<1>4. <<Put("mag_read_addr", 66)>> \in Seq(NoAuto)
  <2>. DEFINE i == Put("mag_read_addr", 66)
  <2>1. i \in NoAuto
    BY <1>2
  <2>. HIDE DEF i
  <2>2. <<i>> \in Seq(NoAuto)
    BY <2>1
  <2>. QED BY <2>2 DEF i
<1>5. automatic \in Seq(NoAuto)
  <2>. DEFINE i == Put("mag_manual_enable", 0)
              c == <<i>>
              w == When("manual", c)
  <2>1. i.op = "put"
    BY DEF Put, Instruction
  <2>2. i \in Legal
    <3>1. i \in Straight
      BY Puts DEF Byte
    <3>. HIDE DEF i
    <3>. QED BY <3>1 DEF Straight, Plain, Legal
  <2>. HIDE DEF i
  <2>3. c \in Seq(Legal) /\ Len(c) = 1 /\ c[1] = i
    BY <2>2
  <2>4. 1 .. 1 = {1}
    OBVIOUS
  <2>. HIDE DEF c
  <2>5. w \in Seq(Legal) /\ Len(w) = 1 /\ w[1].op = "put"
    BY <2>1, <2>3, <2>4, Whens DEF Conditions
  <2>. HIDE DEF w
  <2>6. w[1] \in Legal
    BY <2>5
  <2>7. \A p \in 1 .. Len(w) : w[p] \in NoAuto
    BY <2>4, <2>5, <2>6 DEF NoAuto
  <2>8. w \in Seq(NoAuto)
    <3>1. DOMAIN w = 1 .. Len(w) /\ Len(w) \in Nat /\ w = [p \in 1 .. Len(w) |-> w[p]]
      BY <2>5
    <3>. DEFINE n == Len(w)
    <3>2. w \in [1 .. n -> NoAuto]
      BY <2>7, <3>1
    <3>. HIDE DEF n
    <3>. QED BY <3>1, <3>2 DEF n
  <2>. QED BY <2>8 DEF automatic, w, c, i
<1>. DEFINE a == MagWrite(76, 2)
            b == <<Put("mag_read_addr", 66)>>
            c == automatic
<1>6. a \in Seq(NoAuto) /\ b \in Seq(NoAuto) /\ c \in Seq(NoAuto)
  BY <1>3, <1>4, <1>5
<1>. HIDE DEF a, b, c
<1>7. a \o b \o c \in Seq(NoAuto)
  BY <1>6
<1>. QED BY <1>7 DEF a, b, c

\* The manual bit, and the driver's copy of it.
LEMMA Switched ==
  ASSUME NEW s \in State, NEW v \in {0, 1}
  PROVE  LET r == Written("mag_manual_enable", v, s)
         IN  /\ r \in State /\ r.enable = v /\ r.manual = v /\ r.if_mode = s.if_mode
             /\ r.mag = s.mag /\ r.mode = s.mode /\ r.trim = s.trim /\ r.auto = s.auto
             /\ r.on = s.on /\ r.forced = s.forced /\ r.read = s.read
<1>. DEFINE r == [s EXCEPT !.enable = v, !.manual = v]
<1>1. Written("mag_manual_enable", v, s) = r
  BY DEF Written
<1>2. v \in Byte /\ v \in 0 .. 1
  BY DEF Byte
<1>3. r \in State
  BY <1>2 DEF State
<1>4. /\ r.enable = v /\ r.manual = v /\ r.if_mode = s.if_mode
      /\ r.mag = s.mag /\ r.mode = s.mode /\ r.trim = s.trim /\ r.auto = s.auto
      /\ r.on = s.on /\ r.forced = s.forced /\ r.read = s.read
  BY DEF State
<1>. QED BY <1>1, <1>3, <1>4

\* To manual mode from a magnetometer that is ready, and to forced mode and back.
LEMMA ToManual ==
  ASSUME NEW N
  PROVE  /\ Leads(Ready(N), manual, Powered(N, {TRUE}, {0}))
         /\ \A T, U : Leads(Powered(N, T, U), manual, Powered(N, T, U))
         /\ \A T, U : Leads(InManual(N, T, U), manual, InManual(N, T, U))
<1>1. Ready(N) \in SUBSET State /\ \A T, U : /\ Powered(N, T, U) \in SUBSET State
                                            /\ InManual(N, T, U) \in SUBSET State
  BY DEF Ready, Powered, InManual
<1>2. \A s \in Ready(N) : /\ s.manual # 1
                          /\ Written("mag_manual_enable", 1, s) \in Powered(N, {TRUE}, {0})
  <2>. SUFFICES ASSUME NEW s \in Ready(N)
       PROVE  s.manual # 1 /\ Written("mag_manual_enable", 1, s) \in Powered(N, {TRUE}, {0})
    OBVIOUS
  <2>. DEFINE r == Written("mag_manual_enable", 1, s)
  <2>1. s \in State
    BY DEF Ready
  <2>2. /\ r \in State /\ r.enable = 1 /\ r.manual = 1 /\ r.if_mode = s.if_mode /\ r.mag = s.mag
        /\ r.mode = s.mode /\ r.trim = s.trim /\ r.auto = s.auto /\ r.on = s.on
    BY <2>1, Switched
  <2>3. /\ s.if_mode = 2 /\ s.mag = "normal" /\ s.manual = 0 /\ s.on = 1 /\ s.trim = TRUE
        /\ s.auto = 0 /\ s.mode \in N
    BY DEF Ready, State
  <2>. HIDE DEF r
  <2>4. r \in Powered(N, {TRUE}, {0}) /\ s.manual # 1
    <3>1. r.trim \in {TRUE} /\ r.auto \in {0} /\ r.mode \in N
      BY <2>2, <2>3
    <3>2. r \in InManual(N, {TRUE}, {0})
      BY <2>2, <2>3, <3>1 DEF InManual
    <3>. QED BY <2>2, <2>3, <3>2 DEF Powered
  <2>. QED BY <2>4 DEF r
<1>3. Leads(Ready(N), manual, Powered(N, {TRUE}, {0}))
  BY <1>1, <1>2, SwitchLeads
<1>4. \A T, U : \A s \in InManual(N, T, U) : s.manual = 1
  BY DEF InManual
<1>5. \A T, U : \A s \in Powered(N, T, U) : s.manual = 1
  BY DEF InManual, Powered
<1>. QED BY <1>1, <1>3, <1>4, <1>5, SwitchLeads

\* Back from manual mode.
LEMMA BackToReady ==
  ASSUME NEW N, NEW s \in Powered(N, {TRUE}, {0}), s.forced = 2, s.read = 66
  PROVE  ~(s.manual # 1) /\ Written("mag_manual_enable", 0, s) \in Ready(N)
<1>. DEFINE r == Written("mag_manual_enable", 0, s)
<1>1. s \in State
  BY DEF Powered, InManual
<1>2. /\ r \in State /\ r.enable = 0 /\ r.manual = 0 /\ r.if_mode = s.if_mode /\ r.mag = s.mag
      /\ r.mode = s.mode /\ r.trim = s.trim /\ r.auto = s.auto /\ r.on = s.on
      /\ r.forced = s.forced /\ r.read = s.read
  BY <1>1, Switched
<1>3. /\ s.manual = 1 /\ s.if_mode = 2 /\ s.mag = "normal" /\ s.mode \in N /\ s.trim = TRUE
      /\ s.auto = 0 /\ s.on = 1 /\ s.forced = 2 /\ s.read = 66
  BY DEF Powered, InManual
<1>. HIDE DEF r
<1>4. r \in Ready(N) /\ ~(s.manual # 1)
  BY <1>2, <1>3 DEF Ready
<1>. QED BY <1>4 DEF r

\* To forced mode, the data registers and automatic mode.
LEMMA ToAutomatic ==
  ASSUME NEW N
  PROVE  /\ Leads(Powered(N, {TRUE}, {0}),
                  MagWrite(76, 2) \o <<Put("mag_read_addr", 66)>> \o automatic,
                  Ready(N))
         /\ Leads({s \in Powered(N, {TRUE}, {0}) : s.forced = 2},
                  <<Put("mag_read_addr", 66)>>,
                  {s \in Powered(N, {TRUE}, {0}) : s.forced = 2 /\ s.read = 66})
         /\ Leads({s \in Powered(N, {TRUE}, {0}) : s.forced = 2 /\ s.read = 66},
                  automatic, Ready(N))
         /\ Leads(Ready(N), automatic, Ready(N))
<1>. DEFINE P == Powered(N, {TRUE}, {0})
            F == {s \in P : s.forced = 2}
            G == {s \in P : s.forced = 2 /\ s.read = 66}
            i == Put("mag_read_addr", 66)
<1>0. P \in SUBSET State /\ F \in SUBSET State /\ G \in SUBSET State /\ Ready(N) \in SUBSET State
  BY DEF Powered, InManual, Ready
<1>1. Leads(P, MagWrite(76, 2), F)
  <2>1. 2 \in Byte
    BY DEF Byte
  <2>. QED BY <2>1, PowerLeads
<1>2. i \in Legal
  <2>1. i \in Straight
    BY Puts DEF Fields, Byte
  <2>. HIDE DEF i
  <2>. QED BY <2>1 DEF Straight, Plain, Legal
<1>3. \A s \in F : Written("mag_read_addr", 66, s) \in G
  <2>. SUFFICES ASSUME NEW s \in F PROVE Written("mag_read_addr", 66, s) \in G
    OBVIOUS
  <2>. DEFINE r == [s EXCEPT !.read = 66]
  <2>1. Written("mag_read_addr", 66, s) = r
    BY DEF Written
  <2>2. /\ r \in State /\ r.enable = s.enable /\ r.manual = s.manual /\ r.if_mode = s.if_mode
        /\ r.mag = s.mag /\ r.mode = s.mode /\ r.trim = s.trim /\ r.auto = s.auto /\ r.on = s.on
        /\ r.forced = s.forced /\ r.read = 66
    <3>1. s \in State
      BY DEF Powered, InManual
    <3>. QED BY <3>1 DEF State, Byte
  <2>. HIDE DEF r
  <2>3. r \in P /\ r.forced = 2 /\ r.read = 66
    BY <2>2 DEF Powered, InManual
  <2>. HIDE DEF P
  <2>. QED BY <2>1, <2>3
<1>4. Leads(F, <<i>>, G)
  BY <1>0, <1>2, <1>3, PutLeads
<1>5. \A s \in G : ~(s.manual # 1) /\ Written("mag_manual_enable", 0, s) \in Ready(N)
  BY BackToReady
<1>6. Leads(G, automatic, Ready(N))
  <2>. HIDE DEF G
  <2>. QED BY <1>0, <1>5, SwitchLeads
<1>7. \A s \in Ready(N) : s.manual # 1
  BY DEF Ready
<1>8. Leads(Ready(N), automatic, Ready(N))
  BY <1>0, <1>7, SwitchLeads
<1>. HIDE DEF P, F, G, i
<1>9. Leads(P, MagWrite(76, 2) \o <<i>>, G)
  BY <1>1, <1>4, LeadsOn
<1>10. Leads(P, MagWrite(76, 2) \o <<i>> \o automatic, Ready(N))
  BY <1>6, <1>9, LeadsOn
<1>. QED BY <1>4, <1>6, <1>8, <1>10 DEF P, F, G, i

\* A preset leaves a magnetometer that is ready so; without the automatic condition, in
\* manual and forced mode.
LEMMA PresetLeads ==
  ASSUME NEW N
  PROVE  /\ \A xy, z, dr \in Byte : Leads(Ready(N), set_mag_presetmode(xy, z, dr), Ready(N))
         /\ Leads(Powered(N, {TRUE}, {0, 1}), preset,
                  {s \in Powered(N, {TRUE}, {0}) : s.forced = 2})
<1>. DEFINE a(xy) == MagWrite(81, xy)
            b(z) == MagWrite(82, z)
            c(dr) == MagWrite(76, dr)
            d == MagWrite(76, 2) \o <<Put("mag_read_addr", 66)>> \o automatic
            w == When("auto_condition", d)
<1>1. \A xy, z, dr : set_mag_presetmode(xy, z, dr)
                       = manual \o a(xy) \o b(z) \o c(dr) \o w
  BY DEF set_mag_presetmode, Repetitions, PowerMode, DataRegister
<1>2. d \in Seq(Legal) /\ \A p \in 1 .. Len(d) : d[p].op # "auto_condition"
  <2>1. d \in Seq(NoAuto)
    BY ForcedNoAuto
  <2>. HIDE DEF d
  <2>2. \A p \in 1 .. Len(d) : d[p] \in NoAuto
    BY <2>1
  <2>. QED BY <2>1, <2>2 DEF NoAuto
<1>3. \A T, U : \A xy, z \in Byte :
        /\ Leads(Powered(N, T, U), a(xy), Powered(N, T, U))
        /\ Leads(Powered(N, T, U), b(z), Powered(N, T, U))
  <2>1. 81 \in Byte \ {75} /\ 82 \in Byte \ {75}
    BY DEF Byte
  <2>. QED BY <2>1, PowerLeads
<1>4. ASSUME NEW xy \in Byte, NEW z \in Byte, NEW dr \in Byte
      PROVE  Leads(Ready(N), set_mag_presetmode(xy, z, dr), Ready(N))
  <2>. DEFINE P == Powered(N, {TRUE}, {0})
              R == Ready(N)
  <2>1. Leads(P, w, R)
    <3>1. Leads(P, d, R)
      BY ToAutomatic
    <3>2. \A s \in P : Met("auto_condition", s)
      BY DEF Powered, InManual, Met
    <3>. HIDE DEF P, R, d
    <3>. QED BY <1>2, <3>1, <3>2, LeadsMet
  <2>2. Leads(R, manual, P)
    BY ToManual
  <2>3. Leads(P, a(xy), P) /\ Leads(P, b(z), P)
    BY <1>3
  <2>4. Leads(P, c(dr), P)
    <3>1. 76 \in Byte \ {75}
      BY DEF Byte
    <3>. QED BY <3>1, PowerLeads
  <2>. HIDE DEF P, R, a, b, c, w
  <2>5. Leads(R, manual \o a(xy), P)
    BY <2>2, <2>3, LeadsOn
  <2>6. Leads(R, manual \o a(xy) \o b(z), P)
    BY <2>3, <2>5, LeadsOn
  <2>7. Leads(R, manual \o a(xy) \o b(z) \o c(dr), P)
    BY <2>4, <2>6, LeadsOn
  <2>8. Leads(R, manual \o a(xy) \o b(z) \o c(dr) \o w, R)
    BY <2>1, <2>7, LeadsOn
  <2>. QED BY <1>1, <2>8 DEF R
<1>5. Leads(Powered(N, {TRUE}, {0, 1}), preset,
            {s \in Powered(N, {TRUE}, {0}) : s.forced = 2})
  <2>. DEFINE A == Powered(N, {TRUE}, {0, 1})
              P == Powered(N, {TRUE}, {1})
              F == {s \in P : s.forced = 2}
              B == {s \in Powered(N, {TRUE}, {0}) : s.forced = 2}
              i == Do("auto_condition", 1)
              j == Do("auto_condition", 0)
  <2>1. /\ A \in SUBSET State /\ P \in SUBSET State /\ F \in SUBSET State
        /\ B \in SUBSET State
    BY DEF Powered, InManual
  <2>2. i \in Legal /\ j \in Legal
    <3>1. i \in Straight /\ j \in Straight
      BY Dos DEF Byte
    <3>. HIDE DEF i, j
    <3>. QED BY <3>1 DEF Straight, Plain, Legal
  <2>3. \A s : After(i, s) = [s EXCEPT !.auto = 1] /\ After(j, s) = [s EXCEPT !.auto = 0]
    BY DEF Do, Instruction, After
  <2>4. \A s \in A : [s EXCEPT !.auto = 1] \in P
    BY DEF Powered, InManual, State
  <2>5. \A s \in F : [s EXCEPT !.auto = 0] \in B
    <3>. SUFFICES ASSUME NEW s \in F PROVE [s EXCEPT !.auto = 0] \in B
      OBVIOUS
    <3>. DEFINE r == [s EXCEPT !.auto = 0]
    <3>0. s \in State
      BY DEF Powered, InManual
    <3>a. /\ r \in State /\ r.enable = s.enable /\ r.manual = s.manual /\ r.if_mode = s.if_mode
          /\ r.mag = s.mag /\ r.mode = s.mode /\ r.trim = s.trim /\ r.auto = 0 /\ r.on = s.on
          /\ r.forced = s.forced
      BY <3>0 DEF State
    <3>b. /\ s.enable = 1 /\ s.manual = 1 /\ s.if_mode = 2 /\ s.mag = "normal" /\ s.mode \in N
          /\ s.trim = TRUE /\ s.on = 1 /\ s.forced = 2
      BY DEF Powered, InManual
    <3>. HIDE DEF r
    <3>1. r \in Powered(N, {TRUE}, {0}) /\ r.forced = 2
      BY <3>a, <3>b DEF Powered, InManual
    <3>. HIDE DEF r
    <3>2. r \in B
      BY <3>1
    <3>. QED BY <3>2 DEF r
  <2>6. Leads(A, <<i>>, P)
    <3>. HIDE DEF A, P
    <3>. QED BY <2>1, <2>2, <2>3, <2>4, DoLeads
  <2>7. Leads(F, <<j>>, B)
    <3>. HIDE DEF F, B
    <3>. QED BY <2>1, <2>2, <2>3, <2>5, DoLeads
  <2>8. Leads(P, manual, P)
    BY ToManual
  <2>9. 4 \in Byte /\ 14 \in Byte /\ 2 \in Byte
    BY DEF Byte
  <2>10. Leads(P, a(4), P) /\ Leads(P, b(14), P)
    BY <1>3, <2>9
  <2>11. Leads(P, c(2), F)
    BY <2>9, PowerLeads
  <2>12. Leads(F, w, F)
    <3>1. \A s \in F : ~Met("auto_condition", s)
      BY DEF Powered, InManual, Met
    <3>. HIDE DEF F, d
    <3>. QED BY <1>2, <2>1, <3>1, LeadsSkipped DEF Conditions
  <2>. HIDE DEF A, P, F, B, a, b, c, w, i, j
  <2>13. Leads(P, manual \o a(4), P)
    BY <2>8, <2>10, LeadsOn
  <2>14. Leads(P, manual \o a(4) \o b(14), P)
    BY <2>10, <2>13, LeadsOn
  <2>15. Leads(P, manual \o a(4) \o b(14) \o c(2), F)
    BY <2>11, <2>14, LeadsOn
  <2>16. Leads(P, manual \o a(4) \o b(14) \o c(2) \o w, F)
    BY <2>12, <2>15, LeadsOn
  <2>17. Preset.regular = manual \o a(4) \o b(14) \o c(2) \o w
    BY <1>1 DEF Preset
  <2>18. Leads(A, <<i>> \o Preset.regular, F)
    BY <2>6, <2>16, <2>17, LeadsOn
  <2>19. Leads(A, <<i>> \o Preset.regular \o <<j>>, B)
    BY <2>7, <2>18, LeadsOn
  <2>. QED BY <2>19 DEF preset, A, B, i, j
<1>. QED BY <1>4, <1>5

\* The interface is initialised from any state.
LEMMA SetUpLeads ==
  ASSUME NEW N
  PROVE  Leads({s \in State : s.mode \in N},
               <<Command(17), Command(25), Command(55),
                 Command(154), Command(192), Put("target_page", 1),
                 Put("paging_enable", 1), Put("pullup_configuration", 3),
                 Put("target_page", 0), Put("i2c_device_addr", 19),
                 Put("mag_manual_enable", 1), Put("if_mode", 2)>>,
               InManual(N, BOOLEAN, {0, 1}))
<1>. DEFINE c1 == Command(17)
            c2 == Command(25)
            c3 == Command(55)
            c4 == Command(154)
            c5 == Command(192)
            c6 == Put("target_page", 1)
            c7 == Put("paging_enable", 1)
            c8 == Put("pullup_configuration", 3)
            c9 == Put("target_page", 0)
            c10 == Put("i2c_device_addr", 19)
            c11 == Put("mag_manual_enable", 1)
            c12 == Put("if_mode", 2)
            code == <<c1, c2, c3, c4, c5, c6, c7, c8, c9, c10, c11, c12>>
            A == {s \in State : s.mode \in N}
            D(n) == {s \in A : /\ n >= 2 => s.mag = "normal"
                               /\ n >= 11 => s.enable = 1 /\ s.manual = 1
                               /\ n >= 12 => s.if_mode = 2}
            f == [n \in 0 .. 12 |-> D(n)]
<1>1. /\ c1 \in Quiet /\ c3 \in Quiet /\ c4 \in Quiet /\ c5 \in Quiet /\ c6 \in Quiet
      /\ c7 \in Quiet /\ c8 \in Quiet /\ c9 \in Quiet /\ c10 \in Quiet
  <2>1. /\ c1 \in Ordinary /\ c3 \in Ordinary /\ c4 \in Ordinary /\ c5 \in Ordinary
        /\ c6 \in Ordinary /\ c7 \in Ordinary /\ c8 \in Ordinary /\ c9 \in Ordinary
        /\ c10 \in Ordinary
    BY Ones DEF Fields, MagFields
  <2>. HIDE DEF c1, c3, c4, c5, c6, c7, c8, c9, c10
  <2>. QED BY <2>1 DEF Ordinary
<1>2. c2 \in Legal /\ c11 \in Legal /\ c12 \in Legal
  <2>1. c2 \in Straight /\ c11 \in Straight /\ c12 \in Straight
    BY Puts DEF Byte
  <2>. HIDE DEF c2, c11, c12
  <2>. QED BY <2>1 DEF Straight, Plain, Legal
<1>3. /\ \A s : Result(c2, s) = [s EXCEPT !.mag = "normal"]
      /\ \A s : Result(c11, s) = Written("mag_manual_enable", 1, s)
      /\ \A s : Result(c12, s) = [s EXCEPT !.if_mode = 2]
      /\ c2.op = "put" /\ c11.op = "put" /\ c12.op = "put"
  BY DEF Command, Put, Instruction, Result, Taken, After, Written
<1>4. ASSUME NEW i \in Quiet
      PROVE  i \in Legal /\ i.op # "awake" /\ \A s \in State : Result(i, s) = s
  BY DEF Quiet, Result, After, Written, MagFields
<1>5. ASSUME NEW s \in A
      PROVE  /\ [s EXCEPT !.mag = "normal"] \in A /\ [s EXCEPT !.mag = "normal"].mag = "normal"
             /\ [s EXCEPT !.if_mode = 2] \in A /\ [s EXCEPT !.if_mode = 2].if_mode = 2
             /\ [s EXCEPT !.if_mode = 2].mag = s.mag
             /\ [s EXCEPT !.if_mode = 2].enable = s.enable
             /\ [s EXCEPT !.if_mode = 2].manual = s.manual
  BY DEF State, Power
<1>6. ASSUME NEW s \in A
      PROVE  LET r == Written("mag_manual_enable", 1, s)
             IN  r \in A /\ r.enable = 1 /\ r.manual = 1 /\ r.mag = s.mag
  BY Switched
<1>. HIDE DEF c1, c2, c3, c4, c5, c6, c7, c8, c9, c10, c11, c12
<1>7. /\ code \in Seq(Legal) /\ Len(code) = 12
      /\ code[1] = c1 /\ code[2] = c2 /\ code[3] = c3 /\ code[4] = c4 /\ code[5] = c5
      /\ code[6] = c6 /\ code[7] = c7 /\ code[8] = c8 /\ code[9] = c9 /\ code[10] = c10
      /\ code[11] = c11 /\ code[12] = c12
  BY <1>1, <1>2, <1>4
<1>8. 1 .. 12 = {1, 2, 3, 4, 5, 6, 7, 8, 9, 10, 11, 12}
  OBVIOUS
<1>. HIDE DEF code
<1>9. /\ A \subseteq State
      /\ \A n \in 0 .. 12 : f[n] = D(n) /\ D(n) \in SUBSET State
  OBVIOUS
<1>. HIDE DEF A
<1>a. \A n \in 0 .. 12 : \A s : s \in f[n] <=>
        /\ s \in A
        /\ n >= 2 => s.mag = "normal"
        /\ n >= 11 => s.enable = 1 /\ s.manual = 1
        /\ n >= 12 => s.if_mode = 2
  BY <1>9
<1>. HIDE DEF D
<1>b. f \in [0 .. 12 -> SUBSET State]
  BY <1>9
<1>. HIDE DEF f
<1>10. ASSUME NEW p \in 1 .. 12, NEW s \in f[p - 1]
       PROVE  Result(code[p], s) \in f[p] /\ code[p].op # "awake"
  <2>1. /\ p - 1 \in 0 .. 12 /\ p \in 0 .. 12
    OBVIOUS
  <2>2. /\ s \in A /\ (p - 1 >= 2 => s.mag = "normal")
        /\ (p - 1 >= 11 => s.enable = 1 /\ s.manual = 1)
    BY <1>a, <2>1
  <2>3. CASE p \in {1, 3, 4, 5, 6, 7, 8, 9, 10}
    <3>1. code[p] \in Quiet
      BY <1>1, <1>7, <2>3
    <3>2. s \in f[p]
      BY <1>a, <2>1, <2>2, <2>3
    <3>. QED BY <1>4, <1>9, <2>2, <3>1, <3>2
  <2>4. CASE p = 2
    <3>. DEFINE r == [s EXCEPT !.mag = "normal"]
    <3>1. r \in A /\ r.mag = "normal"
      BY <1>5, <2>2
    <3>2. Result(code[p], s) = r /\ code[p].op = "put"
      BY <1>3, <1>7, <2>4
    <3>. HIDE DEF r
    <3>. QED BY <1>a, <2>1, <2>4, <3>1, <3>2
  <2>5. CASE p = 11
    <3>. DEFINE r == Written("mag_manual_enable", 1, s)
    <3>1. r \in A /\ r.enable = 1 /\ r.manual = 1 /\ r.mag = s.mag
      BY <1>6, <2>2
    <3>2. Result(code[p], s) = r /\ code[p].op = "put"
      BY <1>3, <1>7, <2>5
    <3>. HIDE DEF r
    <3>. QED BY <1>a, <2>1, <2>2, <2>5, <3>1, <3>2
  <2>6. CASE p = 12
    <3>. DEFINE r == [s EXCEPT !.if_mode = 2]
    <3>1. /\ r \in A /\ r.if_mode = 2 /\ r.mag = s.mag /\ r.enable = s.enable
          /\ r.manual = s.manual
      BY <1>5, <2>2
    <3>2. Result(code[p], s) = r /\ code[p].op = "put"
      BY <1>3, <1>7, <2>6
    <3>. HIDE DEF r
    <3>. QED BY <1>a, <2>1, <2>2, <2>6, <3>1, <3>2
  <2>. QED BY <1>8, <2>3, <2>4, <2>5, <2>6
<1>11. Along(f, code)
  BY <1>7, <1>b, <1>10 DEF Along
<1>12. A \subseteq f[0] /\ f[12] \subseteq InManual(N, BOOLEAN, {0, 1})
  <2>1. 0 \in 0 .. 12 /\ 12 \in 0 .. 12 /\ ~(0 >= 2) /\ ~(0 >= 11) /\ ~(0 >= 12)
        /\ 12 >= 2 /\ 12 >= 11 /\ 12 >= 12
    OBVIOUS
  <2>2. A \subseteq f[0]
    BY <1>a, <2>1
  <2>3. ASSUME NEW s \in f[12] PROVE s \in InManual(N, BOOLEAN, {0, 1})
    <3>1. /\ s \in A /\ s.mag = "normal" /\ s.enable = 1 /\ s.manual = 1 /\ s.if_mode = 2
      BY <1>a, <2>1
    <3>2. s \in State /\ s.mode \in N /\ s.trim \in BOOLEAN /\ s.auto \in {0, 1}
      BY <3>1 DEF A, State
    <3>. QED BY <3>1, <3>2 DEF InManual
  <2>. QED BY <2>2, <2>3
<1>13. A \subseteq State /\ InManual(N, BOOLEAN, {0, 1}) \subseteq State
  BY DEF A, InManual
<1>14. Leads(A, code, InManual(N, BOOLEAN, {0, 1}))
  BY <1>7, <1>11, <1>12, <1>13 DEF Leads
<1>. QED BY <1>14 DEF A, code, c1, c2, c3, c4, c5, c6, c7, c8, c9, c10, c11, c12

\* One instruction that has nothing to do with the magnetometer.
LEMMA QuietOne ==
  ASSUME NEW i \in Quiet, NEW A \in SUBSET State
  PROVE  Leads(A, <<i>>, A)
<1>1. <<i>> \in Seq(Quiet)
  OBVIOUS
<1>. QED BY <1>1, LeadsQuiet

\* The interface initialised: from any state to a magnetometer that is ready.
LEMMA InitLeads ==
  ASSUME NEW N
  PROVE  Leads({s \in State : s.mode \in N}, mag_interface_init, Ready(N))
<1>. DEFINE A == {s \in State : s.mode \in N}
            M == InManual(N, BOOLEAN, {0, 1})
            P == Powered(N, BOOLEAN, {0, 1})
            T == Powered(N, {TRUE}, {0, 1})
            V == Powered(N, {TRUE}, {0})
            F == {s \in V : s.forced = 2}
            G == {s \in V : s.forced = 2 /\ s.read = 66}
            a == <<Command(17), Command(25), Command(55),
                   Command(154), Command(192), Put("target_page", 1),
                   Put("paging_enable", 1), Put("pullup_configuration", 3),
                   Put("target_page", 0), Put("i2c_device_addr", 19),
                   Put("mag_manual_enable", 1), Put("if_mode", 2)>>
            b == MagWrite(76, 6)
            c == MagWrite(76, 2)
            i == Put("mag_output_data_rate", 5)
            j == Put("mag_read_addr", 66)
            k == Put("mag_manual_enable", 0)
            d == <<i, j, k>>
<1>0. /\ F \in SUBSET State /\ G \in SUBSET State /\ Ready(N) \in SUBSET State
      /\ F \in SUBSET V
  BY DEF Powered, InManual, Ready
<1>1. Leads(A, a, M)
  BY SetUpLeads
<1>2. Leads(M, mag_wakeup, P)
  BY WakeUpLeads
<1>3. 2 \in Byte /\ 6 \in Byte /\ 76 \in Byte \ {75}
  BY DEF Byte
<1>4. Leads(P, b, P)
  BY <1>3, PowerLeads
<1>5. Leads(P, read_mag_trim, T)
  BY TrimLeads
<1>6. Leads(T, preset, F)
  BY PresetLeads
<1>7. Leads(F, c, F)
  <2>1. Leads(V, c, F)
    BY <1>3, PowerLeads
  <2>. HIDE DEF F, c, V
  <2>. QED BY <1>0, <2>1, LeadsWithin
<1>8. Leads(F, <<i>>, F)
  <2>1. i \in Ordinary
    BY Ones DEF Fields, MagFields
  <2>2. i \in Quiet
    <3>. HIDE DEF i
    <3>. QED BY <2>1 DEF Ordinary
  <2>. HIDE DEF F, i
  <2>. QED BY <1>0, <2>2, QuietOne
<1>9. Leads(F, <<j>>, G)
  BY ToAutomatic
<1>10. Leads(G, <<k>>, Ready(N))
  <2>1. k \in Legal
    <3>1. k \in Straight
      BY Puts DEF Byte
    <3>. HIDE DEF k
    <3>. QED BY <3>1 DEF Straight, Plain, Legal
  <2>2. \A s \in G : Written("mag_manual_enable", 0, s) \in Ready(N)
    BY BackToReady
  <2>. HIDE DEF G
  <2>. QED BY <1>0, <2>1, <2>2, PutLeads
<1>11. <<i>> \o <<j>> \o <<k>> = d
  BY Triple
<1>12. mag_interface_init
         = a \o mag_wakeup \o b \o read_mag_trim \o preset \o c \o d
  BY DEF mag_interface_init, PowerMode, DataRegister
<1>. HIDE DEF A, M, P, T, V, F, G, a, b, c, d, i, j, k
<1>13. Leads(F, d, Ready(N))
  <2>1. Leads(F, <<i>> \o <<j>>, G)
    BY <1>8, <1>9, LeadsOn
  <2>. QED BY <1>10, <1>11, <2>1, LeadsOn
<1>14. Leads(A, a \o mag_wakeup, P)
  BY <1>1, <1>2, LeadsOn
<1>15. Leads(A, a \o mag_wakeup \o b, P)
  BY <1>4, <1>14, LeadsOn
<1>16. Leads(A, a \o mag_wakeup \o b \o read_mag_trim, T)
  BY <1>5, <1>15, LeadsOn
<1>17. Leads(A, a \o mag_wakeup \o b \o read_mag_trim \o preset, F)
  BY <1>6, <1>16, LeadsOn
<1>18. Leads(A, a \o mag_wakeup \o b \o read_mag_trim \o preset \o c, F)
  BY <1>7, <1>17, LeadsOn
<1>19. Leads(A, a \o mag_wakeup \o b \o read_mag_trim \o preset \o c \o d,
             Ready(N))
  BY <1>13, <1>18, LeadsOn
<1>. QED BY <1>12, <1>19 DEF A

\* The magnetometer set to forced mode again.
LEMMA ForceLeads ==
  ASSUME NEW N
  PROVE  Leads(Ready(N), mag_force, Ready(N))
<1>. DEFINE R == Ready(N)
            V == Powered(N, {TRUE}, {0})
            T == Powered(N, {TRUE}, {0, 1})
            F == {s \in V : s.forced = 2}
            G == {s \in V : s.forced = 2 /\ s.read = 66}
            a == <<Command(17)>>
            b == <<Command(25)>>
            c == MagWrite(76, 2)
            d == <<Put("mag_read_addr", 66)>>
<1>0. /\ R \in SUBSET State /\ V \in SUBSET State /\ F \in SUBSET V /\ V \in SUBSET T
      /\ F \in SUBSET State /\ F \in SUBSET T
  BY DEF Powered, InManual, Ready
<1>1. Leads(R, a, R)
  <2>. DEFINE i == Command(17)
  <2>1. i \in Ordinary
    BY Ones
  <2>. HIDE DEF i, R
  <2>2. i \in Quiet
    BY <2>1 DEF Ordinary
  <2>. QED BY <1>0, <2>2, QuietOne DEF i
<1>2. Leads(R, manual, V)
  BY ToManual
<1>3. Leads(V, b, V)
  <2>1. Put("command_register", 25) \in Legal
    <3>. DEFINE i == Put("command_register", 25)
    <3>1. i \in Straight
      BY Puts DEF Byte, Command
    <3>. HIDE DEF i
    <3>2. i \in Legal
      BY <3>1 DEF Straight, Plain, Legal
    <3>. QED BY <3>2 DEF i
  <2>2. ASSUME NEW s \in V PROVE Written("command_register", 25, s) \in V
    <3>1. s \in State /\ s.mag = "normal"
      BY DEF Powered, InManual
    <3>2. Written("command_register", 25, s) = [s EXCEPT !.mag = "normal"]
      BY DEF Written
    <3>3. [s EXCEPT !.mag = "normal"] = s
      BY <3>1 DEF State
    <3>. QED BY <3>2, <3>3
  <2>. HIDE DEF V
  <2>. QED BY <1>0, <2>1, <2>2, PutLeads DEF Command
<1>4. Leads(V, manual, V)
  BY ToManual
<1>5. Leads(V, mag_wakeup, V)
  <2>1. Leads(InManual(N, {TRUE}, {0}), mag_wakeup, V)
    BY WakeUpLeads
  <2>2. V \in SUBSET InManual(N, {TRUE}, {0})
    BY DEF Powered
  <2>. HIDE DEF V
  <2>. QED BY <1>0, <2>1, <2>2, LeadsWithin
<1>6. Leads(V, c, F)
  <2>1. 2 \in Byte
    BY DEF Byte
  <2>. QED BY <2>1, PowerLeads
<1>7. Leads(F, preset, F)
  <2>1. Leads(T, preset, F)
    BY PresetLeads
  <2>. HIDE DEF F, T
  <2>. QED BY <1>0, <2>1, LeadsWithin
<1>8. Leads(F, d, G) /\ Leads(G, automatic, R) /\ Leads(R, automatic, R)
  BY ToAutomatic
<1>9. mag_force
        = a \o manual \o b \o manual \o mag_wakeup \o c \o preset
            \o d \o automatic \o automatic
  BY DEF mag_force, PowerMode, DataRegister
<1>. HIDE DEF R, V, T, F, G, a, b, c, d
<1>10. Leads(R, a \o manual, V)
  BY <1>1, <1>2, LeadsOn
<1>11. Leads(R, a \o manual \o b, V)
  BY <1>3, <1>10, LeadsOn
<1>12. Leads(R, a \o manual \o b \o manual, V)
  BY <1>4, <1>11, LeadsOn
<1>13. Leads(R, a \o manual \o b \o manual \o mag_wakeup, V)
  BY <1>5, <1>12, LeadsOn
<1>14. Leads(R, a \o manual \o b \o manual \o mag_wakeup \o c, F)
  BY <1>6, <1>13, LeadsOn
<1>15. Leads(R, a \o manual \o b \o manual \o mag_wakeup \o c
                  \o preset, F)
  BY <1>7, <1>14, LeadsOn
<1>16. Leads(R, a \o manual \o b \o manual \o mag_wakeup \o c
                  \o preset \o d, G)
  BY <1>8, <1>15, LeadsOn
<1>17. Leads(R, a \o manual \o b \o manual \o mag_wakeup \o c
                  \o preset \o d \o automatic, R)
  BY <1>8, <1>16, LeadsOn
<1>18. Leads(R, a \o manual \o b \o manual \o mag_wakeup \o c
                  \o preset \o d \o automatic \o automatic, R)
  BY <1>8, <1>17, LeadsOn
<1>. QED BY <1>9, <1>18 DEF R

\* A magnetometer that is ready, switched off.
LEMMA SuspendLeads ==
  ASSUME NEW N
  PROVE  Leads(Ready(N), mag_suspend \o <<Put("if_mode", 0)>>, Off(N))
<1>. DEFINE R == Ready(N)
            V == Powered(N, {TRUE}, {0})
            I == InManual(N, {TRUE}, {0})
            X == {s \in I : s.on = 0}
            Y == {s \in State : s.mag = "suspend" /\ s.on = 0 /\ s.mode \in N}
            Z == Off(N)
            a == <<Command(17)>>
            b == <<Command(24)>>
            c == MagWrite(75, 0)
            d == <<Put("if_mode", 0)>>
<1>0. /\ R \in SUBSET State /\ V \in SUBSET I /\ I \in SUBSET State /\ X \in SUBSET State
      /\ Y \in SUBSET State /\ Z \in SUBSET State
  BY DEF Powered, InManual, Ready, Off
<1>1. Leads(R, a, R)
  <2>. DEFINE i == Command(17)
  <2>1. i \in Ordinary
    BY Ones
  <2>. HIDE DEF i, R
  <2>2. i \in Quiet
    BY <2>1 DEF Ordinary
  <2>. QED BY <1>0, <2>2, QuietOne DEF i
<1>2. Leads(R, manual, V) /\ Leads(V, manual, V)
  BY ToManual
<1>3. Leads(V, c, X)
  <2>1. 0 \in Byte
    BY DEF Byte
  <2>2. Leads(I, c, X)
    BY <2>1, PowerLeads
  <2>. HIDE DEF V, I, X, c
  <2>. QED BY <1>0, <2>2, LeadsWithin
<1>4. Leads(X, b, Y)
  <2>1. Put("command_register", 24) \in Legal
    <3>. DEFINE i == Put("command_register", 24)
    <3>1. i \in Straight
      BY Puts DEF Byte, Command
    <3>. HIDE DEF i
    <3>2. i \in Legal
      BY <3>1 DEF Straight, Plain, Legal
    <3>. QED BY <3>2 DEF i
  <2>2. \A s \in X : Written("command_register", 24, s) \in Y
    BY DEF InManual, Written, State, Power
  <2>. HIDE DEF X, Y
  <2>. QED BY <1>0, <2>1, <2>2, PutLeads DEF Command
<1>5. Leads(Y, d, Z)
  <2>1. Put("if_mode", 0) \in Legal
    <3>. DEFINE i == Put("if_mode", 0)
    <3>1. i \in Straight
      BY Puts DEF Byte
    <3>. HIDE DEF i
    <3>2. i \in Legal
      BY <3>1 DEF Straight, Plain, Legal
    <3>. QED BY <3>2 DEF i
  <2>2. \A s \in Y : Written("if_mode", 0, s) \in Z
    BY DEF Written, State, Off
  <2>. HIDE DEF Y, Z
  <2>. QED BY <1>0, <2>1, <2>2, PutLeads
<1>6. mag_suspend = a \o manual \o manual \o c \o b
  BY DEF mag_suspend, PowerControl
<1>. HIDE DEF R, V, I, X, Y, Z, a, b, c, d
<1>7. Leads(R, a \o manual, V)
  BY <1>1, <1>2, LeadsOn
<1>8. Leads(R, a \o manual \o manual, V)
  BY <1>2, <1>7, LeadsOn
<1>9. Leads(R, a \o manual \o manual \o c, X)
  BY <1>3, <1>8, LeadsOn
<1>10. Leads(R, a \o manual \o manual \o c \o b, Y)
  BY <1>4, <1>9, LeadsOn
<1>11. Leads(R, a \o manual \o manual \o c \o b \o d, Z)
  BY <1>5, <1>10, LeadsOn
<1>. QED BY <1>6, <1>11 DEF R, Z, d

\* The magnetometer as a mode needs it; and a magnetometer whose interface is off.
MagSettled == Ready(WithMag) \cup Off(Mode \ WithMag)
Silent == {s \in State : s.if_mode = 0}

\* These are sets of states.
LEMMA SetsOfStates ==
  /\ \A N : Ready(N) \in SUBSET State /\ Off(N) \in SUBSET State /\ Off(N) \in SUBSET Silent
  /\ MagSettled \in SUBSET State /\ Silent \in SUBSET State
  /\ MagSettled \subseteq Ready(Names) \cup Off(Names)
  BY DEF MagSettled, Silent, Ready, Off, State

\* The read of the interface.
LEMMA ReadsLeads ==
  ASSUME NEW A \in SUBSET State, NEW B \in SUBSET State,
         \A s \in A : [s EXCEPT !.interface = s.if_mode] \in B
  PROVE  Leads(A, <<Do("get_if_mode", 0)>>, B)
<1>. DEFINE i == Do("get_if_mode", 0)
<1>1. i \in Legal
  <2>1. i \in Plain
    BY Dos DEF Byte
  <2>. HIDE DEF i
  <2>. QED BY <2>1 DEF Plain, Legal
<1>2. \A s \in A : After(i, s) \in B
  BY DEF Do, Instruction, After
<1>. HIDE DEF i
<1>3. \A s \in A : After(i, s) \in B /\ ("get_if_mode" = "awake" => Up(s))
  BY <1>2
<1>. QED BY <1>1, <1>3, DoLeads DEF i

\* It changes nothing else.
LEMMA InterfaceRead ==
  ASSUME NEW s \in State
  PROVE  LET r == [s EXCEPT !.interface = s.if_mode]
         IN  /\ r \in State /\ r.interface = s.if_mode
             /\ \A N : (s \in Ready(N) => r \in Ready(N)) /\ (s \in Off(N) => r \in Off(N))
             /\ s \in Silent => r \in Silent
             /\ r.if_mode = s.if_mode
<1>. DEFINE r == [s EXCEPT !.interface = s.if_mode]
<1>1. r \in State
  BY DEF State
<1>2. /\ r.interface = s.if_mode /\ r.enable = s.enable /\ r.manual = s.manual
      /\ r.if_mode = s.if_mode /\ r.mag = s.mag /\ r.mode = s.mode /\ r.trim = s.trim
      /\ r.auto = s.auto /\ r.on = s.on /\ r.forced = s.forced /\ r.read = s.read
  BY DEF State
<1>. HIDE DEF r
<1>3. \A N : (s \in Ready(N) => r \in Ready(N)) /\ (s \in Off(N) => r \in Off(N))
  BY <1>1, <1>2 DEF Ready, Off
<1>. QED BY <1>1, <1>2, <1>3 DEF Silent, r

\* A mode that uses the magnetometer brings it up unless it is up.
LEMMA OnLeads ==
  ASSUME NEW m \in WithMag
  PROVE  /\ Leads(MagSettled, Interface(m), Ready(Names))
         /\ Leads(Silent, Interface(m), Ready(Names))
<1>. DEFINE A == {s \in State : s.interface = 0}
            B == {s \in Ready(Names) : s.interface = 2}
            R == Ready(Names)
            c == mag_interface_init
            w == When("mag_off", c)
            i == <<Do("get_if_mode", 0)>>
<1>0. /\ A \in SUBSET State /\ B \in SUBSET State /\ R \in SUBSET State /\ B \in SUBSET R
      /\ A \cup B \in SUBSET State /\ A \in SUBSET {s \in State : s.mode \in Names}
  BY DEF Ready, State
<1>1. c \in Seq(NoRead) /\ c \in Seq(Legal) /\ \A p \in 1 .. Len(c) : c[p].op # "get_if_mode"
  <2>1. c \in Seq(NoRead)
    BY InterfaceSound
  <2>. HIDE DEF c
  <2>2. \A p \in 1 .. Len(c) : c[p] \in NoRead
    BY <2>1
  <2>. QED BY <2>1, <2>2 DEF NoRead
<1>2. Leads(A, w, R)
  <2>1. Leads({s \in State : s.mode \in Names}, c, R)
    BY InitLeads
  <2>2. Leads(A, c, R)
    <3>. HIDE DEF A, R, c
    <3>. QED BY <1>0, <2>1, LeadsWithin
  <2>3. \A s \in A : Met("mag_off", s)
    BY DEF Met
  <2>. HIDE DEF A, R, c
  <2>. QED BY <1>1, <2>2, <2>3, LeadsMet
<1>3. Leads(B, w, R)
  <2>1. \A s \in B : ~Met("mag_off", s)
    BY DEF Met
  <2>. HIDE DEF B, R, c
  <2>2. Leads(B, w, B)
    BY <1>0, <1>1, <2>1, LeadsSkipped DEF Conditions
  <2>. HIDE DEF w
  <2>. QED BY <1>0, <2>2, LeadsWithin
<1>4. Leads(A \cup B, w, R)
  <2>. HIDE DEF A, B, R, w
  <2>. QED BY <1>2, <1>3, LeadsEither
<1>5. \A s \in MagSettled : [s EXCEPT !.interface = s.if_mode] \in A \cup B
  <2>. SUFFICES ASSUME NEW s \in MagSettled PROVE [s EXCEPT !.interface = s.if_mode] \in A \cup B
    OBVIOUS
  <2>1. s \in State /\ (s \in Ready(Names) \/ s \in Off(Names))
    BY SetsOfStates
  <2>. DEFINE r == [s EXCEPT !.interface = s.if_mode]
  <2>2. /\ r \in State /\ r.interface = s.if_mode /\ (s \in Ready(Names) => r \in Ready(Names))
    BY <2>1, InterfaceRead
  <2>3. (s \in Ready(Names) => s.if_mode = 2) /\ (s \in Off(Names) => s.if_mode = 0)
    BY DEF Ready, Off
  <2>. HIDE DEF r
  <2>. QED BY <2>1, <2>2, <2>3 DEF r
<1>6. \A s \in Silent : [s EXCEPT !.interface = s.if_mode] \in A \cup B
  <2>. SUFFICES ASSUME NEW s \in Silent PROVE [s EXCEPT !.interface = s.if_mode] \in A
    OBVIOUS
  <2>1. s \in State /\ s.if_mode = 0
    BY DEF Silent
  <2>. QED BY <2>1, InterfaceRead
<1>7. Interface(m) = i \o w
  BY DEF Interface
<1>. HIDE DEF A, B, R, w
<1>8. Leads(MagSettled, i, A \cup B) /\ Leads(Silent, i, A \cup B)
  BY <1>0, <1>5, <1>6, SetsOfStates, ReadsLeads
<1>. HIDE DEF i
<1>9. Leads(MagSettled, i \o w, R) /\ Leads(Silent, i \o w, R)
  BY <1>4, <1>8, LeadsOn
<1>. QED BY <1>7, <1>9 DEF R

\* One that does not switches it off unless it is off; whatever it was, its interface is
\* off then.
LEMMA OffLeads ==
  ASSUME NEW m, m \notin WithMag
  PROVE  /\ Leads(MagSettled, Interface(m), Off(Names))
         /\ Leads(State, Interface(m), Silent)
<1>. DEFINE A == {s \in Off(Names) : s.interface = 0}
            B == {s \in Ready(Names) : s.interface = 2}
            C == {s \in Silent : s.interface = 0}
            D == {s \in State : s.interface = 2}
            R == Ready(Names)
            O == Off(Names)
            c == mag_suspend \o <<Put("if_mode", 0)>>
            w == When("mag_on", c)
            i == <<Do("get_if_mode", 0)>>
<1>0. /\ A \in SUBSET State /\ B \in SUBSET State /\ R \in SUBSET State /\ B \in SUBSET R
      /\ C \in SUBSET State /\ C \in SUBSET Silent /\ A \in SUBSET O /\ O \in SUBSET State
      /\ D \in SUBSET State /\ Silent \in SUBSET State
      /\ A \cup B \in SUBSET State /\ C \cup D \in SUBSET State
  BY SetsOfStates
<1>1. Put("if_mode", 0) \in Straight
  BY Puts DEF Byte
<1>2. <<Put("if_mode", 0)>> \in Seq(Straight)
  <2>. DEFINE k == Put("if_mode", 0)
  <2>1. k \in Straight
    BY <1>1
  <2>. HIDE DEF k
  <2>2. <<k>> \in Seq(Straight)
    BY <2>1
  <2>. QED BY <2>2 DEF k
<1>3. c \in Seq(Straight) /\ c \in Seq(Legal) /\ \A p \in 1 .. Len(c) : c[p].op # "get_if_mode"
  <2>. DEFINE k == <<Put("if_mode", 0)>>
  <2>1. k \in Seq(Straight) /\ mag_suspend \in Seq(Straight)
    BY <1>2, InterfaceSound
  <2>. HIDE DEF k
  <2>2. mag_suspend \o k \in Seq(Straight)
    BY <2>1
  <2>3. c \in Seq(Straight)
    BY <2>2 DEF k
  <2>. HIDE DEF c
  <2>4. \A p \in 1 .. Len(c) : c[p] \in Straight
    BY <2>3
  <2>5. Straight \subseteq Legal /\ \A j \in Straight : j.op # "get_if_mode"
    BY DEF Straight, Plain, Legal
  <2>6. c \in Seq(Legal)
    BY <2>3, <2>5
  <2>. QED BY <2>3, <2>4, <2>5, <2>6
<1>4. Leads(B, w, O)
  <2>1. Leads(R, c, O)
    BY SuspendLeads
  <2>2. Leads(B, c, O)
    <3>. HIDE DEF B, R, O, c
    <3>. QED BY <1>0, <2>1, LeadsWithin
  <2>3. \A s \in B : Met("mag_on", s)
    BY DEF Met
  <2>. HIDE DEF B, O, c
  <2>. QED BY <1>3, <2>2, <2>3, LeadsMet
<1>5. Leads(A, w, O) /\ Leads(C, w, Silent)
  <2>1. (\A s \in A : ~Met("mag_on", s)) /\ (\A s \in C : ~Met("mag_on", s))
    BY DEF Met
  <2>. HIDE DEF A, C, O, c
  <2>2. Leads(A, w, A) /\ Leads(C, w, C)
    BY <1>0, <1>3, <2>1, LeadsSkipped DEF Conditions
  <2>. HIDE DEF w
  <2>. QED BY <1>0, <2>2, LeadsWithin
<1>6. Leads(D, w, Silent)
  <2>. DEFINE k == <<Put("if_mode", 0)>>
  <2>1. Leads(State, mag_suspend, State)
    BY InterfaceSound, StraightIsSound, LeadsSomewhere
  <2>2. Leads(State, k, Silent)
    <3>1. Put("if_mode", 0) \in Legal
      BY <1>1 DEF Straight, Plain, Legal
    <3>2. \A s \in State : Written("if_mode", 0, s) \in Silent
      BY DEF Written, State, Silent
    <3>3. State \in SUBSET State
      OBVIOUS
    <3>. HIDE DEF State, Silent
    <3>. QED BY <1>0, <3>1, <3>2, <3>3, PutLeads
  <2>. HIDE DEF State, Silent, k
  <2>3. Leads(State, mag_suspend \o k, Silent)
    BY <2>1, <2>2, LeadsOn
  <2>4. Leads(State, c, Silent)
    BY <2>3 DEF k
  <2>5. \A s \in D : Met("mag_on", s)
    BY DEF Met
  <2>. HIDE DEF D, c
  <2>6. Leads(D, c, Silent)
    BY <1>0, <2>4, LeadsWithin
  <2>. QED BY <1>3, <2>5, <2>6, LeadsMet
<1>7. Leads(A \cup B, w, O) /\ Leads(C \cup D, w, Silent)
  <2>. HIDE DEF A, B, C, D, O, w, Silent
  <2>. QED BY <1>4, <1>5, <1>6, LeadsEither
<1>8. \A s \in MagSettled : [s EXCEPT !.interface = s.if_mode] \in A \cup B
  <2>. SUFFICES ASSUME NEW s \in MagSettled PROVE [s EXCEPT !.interface = s.if_mode] \in A \cup B
    OBVIOUS
  <2>1. s \in State /\ (s \in Ready(Names) \/ s \in Off(Names))
    BY SetsOfStates
  <2>. DEFINE r == [s EXCEPT !.interface = s.if_mode]
  <2>2. /\ r.interface = s.if_mode /\ (s \in Ready(Names) => r \in Ready(Names))
        /\ (s \in Off(Names) => r \in Off(Names))
    BY <2>1, InterfaceRead
  <2>3. (s \in Ready(Names) => s.if_mode = 2) /\ (s \in Off(Names) => s.if_mode = 0)
    BY DEF Ready, Off
  <2>. HIDE DEF r
  <2>. QED BY <2>1, <2>2, <2>3 DEF r
<1>9. \A s \in State : [s EXCEPT !.interface = s.if_mode] \in C \cup D
  <2>. SUFFICES ASSUME NEW s \in State PROVE [s EXCEPT !.interface = s.if_mode] \in C \cup D
    OBVIOUS
  <2>. DEFINE r == [s EXCEPT !.interface = s.if_mode]
  <2>1. r \in State /\ r.interface = s.if_mode /\ r.if_mode = s.if_mode
    BY InterfaceRead
  <2>2. s.if_mode \in {0, 2}
    BY DEF State
  <2>. HIDE DEF r
  <2>3. r \in C \cup D
    BY <2>1, <2>2 DEF Silent
  <2>. QED BY <2>3 DEF r
<1>10. Interface(m) = i \o w
  BY DEF Interface
<1>. HIDE DEF A, B, C, D, O, w
<1>11. Leads(MagSettled, i, A \cup B) /\ Leads(State, i, C \cup D)
  BY <1>0, <1>8, <1>9, SetsOfStates, ReadsLeads
<1>. HIDE DEF i
<1>12. Leads(MagSettled, i \o w, O) /\ Leads(State, i \o w, Silent)
  BY <1>7, <1>11, LeadsOn
<1>. QED BY <1>10, <1>12 DEF O

\* The end of a mode.
LEMMA ModeIs ==
  ASSUME NEW s \in State, NEW m \in Mode
  PROVE  LET r == [s EXCEPT !.mode = m]
         IN  /\ \A N : (s \in Ready(N) => r \in Ready({m})) /\ (s \in Off(N) => r \in Off({m}))
             /\ s \in Silent => r \in Silent
<1>. DEFINE r == [s EXCEPT !.mode = m]
<1>1. r \in State
  <2>. DEFINE M == Names
  <2>1. m \in M
    BY DEF Names
  <2>. HIDE DEF M
  <2>. QED BY <2>1 DEF State, M
<1>2. /\ r.interface = s.interface /\ r.enable = s.enable /\ r.manual = s.manual
      /\ r.if_mode = s.if_mode /\ r.mag = s.mag /\ r.mode = m /\ r.trim = s.trim
      /\ r.auto = s.auto /\ r.on = s.on /\ r.forced = s.forced /\ r.read = s.read
  BY DEF State
<1>. HIDE DEF r
<1>3. \A N : (s \in Ready(N) => r \in Ready({m})) /\ (s \in Off(N) => r \in Off({m}))
  BY <1>1, <1>2 DEF Ready, Off
<1>. QED BY <1>1, <1>2, <1>3 DEF Silent, r

\* The end of a mode gives its name to the state the magnetometer is in.
LEMMA EndLeads ==
  ASSUME NEW m \in Mode
  PROVE  /\ Leads(Ready(Names), <<Do("mode", m)>>, Ready({m}))
         /\ Leads(Off(Names), <<Do("mode", m)>>, Off({m}))
         /\ Leads(Silent, <<Do("mode", m)>>, Silent)
<1>. DEFINE i == Do("mode", m)
<1>1. i \in Legal
  <2>1. i \in Straight
    BY DoMode
  <2>. HIDE DEF i
  <2>. QED BY <2>1 DEF Straight, Plain, Legal
<1>2. \A s : After(i, s) = [s EXCEPT !.mode = m]
  BY DEF Do, Instruction, After
<1>. HIDE DEF i
<1>3. ASSUME NEW A \in SUBSET State, NEW B \in SUBSET State,
             \A s \in A : [s EXCEPT !.mode = m] \in B
      PROVE  Leads(A, <<i>>, B)
  <2>1. \A s \in A : After(i, s) \in B /\ ("mode" = "awake" => Up(s))
    BY <1>2, <1>3
  <2>. QED BY <1>1, <2>1, DoLeads DEF i
<1>4. /\ Ready(Names) \in SUBSET State /\ Ready({m}) \in SUBSET State
      /\ Off(Names) \in SUBSET State /\ Off({m}) \in SUBSET State /\ Silent \in SUBSET State
  BY SetsOfStates
<1>5. /\ \A s \in Ready(Names) : [s EXCEPT !.mode = m] \in Ready({m})
      /\ \A s \in Off(Names) : [s EXCEPT !.mode = m] \in Off({m})
      /\ \A s \in Silent : [s EXCEPT !.mode = m] \in Silent
  BY <1>4, ModeIs
<1>. QED BY <1>3, <1>4, <1>5 DEF i

\* From one mode to another, and from any state.
LEMMA ModeLeads ==
  ASSUME NEW m \in Mode
  PROVE  /\ Leads(MagSettled, config_running_mode(m), MagSettled)
         /\ m \in WithMag => Leads(Silent, config_running_mode(m), MagSettled)
         /\ m \notin WithMag => Leads(State, config_running_mode(m), Silent)
<1>. DEFINE c == Configuration[m]
            d == <<Do("mode", m)>>
            i == Interface(m)
            R == Ready(Names)
            O == Off(Names)
<1>1. c \in Seq(Quiet)
  <2>1. c \in Seq(Ordinary)
    BY ConfigurationOrdinary
  <2>2. Ordinary \subseteq Quiet
    BY DEF Ordinary
  <2>. HIDE DEF c
  <2>. QED BY <2>1, <2>2
<1>2. R \in SUBSET State /\ O \in SUBSET State /\ Silent \in SUBSET State
  BY SetsOfStates
<1>. HIDE DEF c
<1>3. Leads(R, c, R) /\ Leads(O, c, O) /\ Leads(Silent, c, Silent)
  BY <1>1, <1>2, LeadsQuiet
<1>4. Leads(R, d, Ready({m})) /\ Leads(O, d, Off({m})) /\ Leads(Silent, d, Silent)
  BY EndLeads
<1>5. config_running_mode(m) = i \o c \o d
  BY DEF config_running_mode, Interface, c
<1>6. /\ m \in WithMag => Ready({m}) \subseteq MagSettled
      /\ m \notin WithMag => Off({m}) \subseteq MagSettled
  BY DEF MagSettled, Ready, Off
<1>7. MagSettled \in SUBSET State
  BY SetsOfStates
<1>8. CASE m \in WithMag
  <2>1. Leads(MagSettled, i, R) /\ Leads(Silent, i, R)
    BY <1>8, OnLeads
  <2>. HIDE DEF c, d, i, R
  <2>2. Leads(MagSettled, i \o c, R) /\ Leads(Silent, i \o c, R)
    BY <1>3, <2>1, LeadsOn
  <2>3. Leads(MagSettled, i \o c \o d, Ready({m})) /\ Leads(Silent, i \o c \o d, Ready({m}))
    BY <1>4, <2>2, LeadsOn
  <2>4. Leads(MagSettled, i \o c \o d, MagSettled) /\ Leads(Silent, i \o c \o d, MagSettled)
    BY <1>6, <1>7, <1>8, <2>3, LeadsWithin
  <2>. QED BY <1>5, <1>8, <2>4
<1>9. CASE m \notin WithMag
  <2>1. Leads(MagSettled, i, O) /\ Leads(State, i, Silent)
    BY <1>9, OffLeads
  <2>. HIDE DEF c, d, i, O
  <2>2. Leads(MagSettled, i \o c, O) /\ Leads(State, i \o c, Silent)
    BY <1>3, <2>1, LeadsOn
  <2>3. Leads(MagSettled, i \o c \o d, Off({m})) /\ Leads(State, i \o c \o d, Silent)
    BY <1>4, <2>2, LeadsOn
  <2>4. Leads(MagSettled, i \o c \o d, MagSettled)
    BY <1>6, <1>7, <1>9, <2>3, LeadsWithin
  <2>. QED BY <1>5, <1>9, <2>3, <2>4
<1>. QED BY <1>8, <1>9

\* Start-up, from any state.
LEMMA StartUpLeads == Leads(State, start_up, MagSettled)
<1>. DEFINE a == initialize_sensor
            b == config_running_mode("navigation")
            c == accel_foc
            d == gyro_foc
            e == <<Do("up", 0)>>
            i == <<Put("register_6C", 0)>>
            j == config_running_mode("nine_dof_fifo")
            k == config_running_mode("pedometer")
<1>1. {"nine_dof_fifo", "pedometer", "navigation"} \subseteq Mode
  BY ModeNames
<1>2. "navigation" \in WithMag /\ "pedometer" \notin WithMag
  BY DEF WithMag
<1>3. Leads(State, i, State)
  <2>. DEFINE p == Put("register_6C", 0)
  <2>1. p \in Ordinary
    BY Ones DEF Fields, MagFields
  <2>. HIDE DEF p, State
  <2>2. p \in Quiet /\ State \in SUBSET State
    BY <2>1 DEF Ordinary
  <2>. QED BY <2>2, QuietOne DEF p
<1>4. Leads(State, j, State)
  BY <1>1, ModeSound, LeadsSomewhere
<1>5. Leads(State, k, Silent) /\ Leads(Silent, b, MagSettled)
  BY <1>1, <1>2, ModeLeads
<1>6. Leads(MagSettled, c, MagSettled) /\ Leads(MagSettled, d, MagSettled) /\ Leads(MagSettled, e, MagSettled)
  <2>1. Seq(Calm \cap Quiet) \subseteq Seq(Quiet)
    OBVIOUS
  <2>2. c \in Seq(Quiet) /\ d \in Seq(Quiet) /\ e \in Seq(Quiet)
    BY <2>1, FocCalm
  <2>3. MagSettled \in SUBSET State
    BY SetsOfStates
  <2>. HIDE DEF c, d, e
  <2>. QED BY <2>2, <2>3, LeadsQuiet
<1>7. a = i \o j \o k
  BY DEF initialize_sensor
<1>8. start_up = a \o b \o c \o d \o e
  BY DEF start_up
<1>. HIDE DEF a, b, c, d, e, i, j, k, State, MagSettled, Silent
<1>9. Leads(State, i \o j, State)
  BY <1>3, <1>4, LeadsOn
<1>10. Leads(State, a, Silent)
  BY <1>5, <1>7, <1>9, LeadsOn
<1>11. Leads(State, a \o b, MagSettled)
  BY <1>5, <1>10, LeadsOn
<1>12. Leads(State, a \o b \o c, MagSettled)
  BY <1>6, <1>11, LeadsOn
<1>13. Leads(State, a \o b \o c \o d, MagSettled)
  BY <1>6, <1>12, LeadsOn
<1>14. Leads(State, a \o b \o c \o d \o e, MagSettled)
  BY <1>6, <1>13, LeadsOn
<1>. QED BY <1>8, <1>14

\* Every call, from where it is made.
Start(c) ==
  IF c = "start_up" THEN State
  ELSE IF c \in Mode THEN MagSettled ELSE Ready(WithMag)

\* Every call, from where it is made, settles the magnetometer.
LEMMA CallLeads == \A c \in DOMAIN Code : Leads(Start(c), Code[c], MagSettled)
<1>. DEFINE P == {"low_power", "regular", "high_accuracy", "enhanced"}
            C == Code
<1>1. DOMAIN C = Mode \cup P \cup {"mag_force", "start_up"}
  BY ModeNames DEF Code
<1>2. ASSUME NEW m \in Mode
      PROVE  m # "start_up" /\ C[m] = config_running_mode(m)
  BY ModeNames DEF Code
<1>3. /\ C["start_up"] = start_up /\ C["mag_force"] = mag_force
      /\ \A p \in P : C[p] = Preset[p]
  BY DEF Code
<1>4. \A p \in P \cup {"mag_force"} : p \notin Mode /\ p # "start_up"
  BY ModeNames
<1>. DEFINE R == Ready(WithMag)
<1>5. R \subseteq MagSettled /\ MagSettled \in SUBSET State /\ R \in SUBSET R
  BY SetsOfStates DEF MagSettled
<1>6. \A p \in P : Leads(R, Preset[p], R)
  <2>1. \A xy, z, dr \in Byte : Leads(R, set_mag_presetmode(xy, z, dr), R)
    BY PresetLeads
  <2>2. /\ 1 \in Byte /\ 2 \in Byte /\ 4 \in Byte /\ 14 \in Byte /\ 23 \in Byte
        /\ 82 \in Byte /\ 42 \in Byte /\ 7 \in Byte /\ 26 \in Byte
    BY DEF Byte
  <2>. HIDE DEF R
  <2>3. /\ Leads(R, set_mag_presetmode(1, 2, 2), R)
        /\ Leads(R, set_mag_presetmode(4, 14, 2), R)
        /\ Leads(R, set_mag_presetmode(23, 82, 42), R)
        /\ Leads(R, set_mag_presetmode(7, 26, 2), R)
    BY <2>1, <2>2
  <2>4. /\ Preset["low_power"] = set_mag_presetmode(1, 2, 2)
        /\ Preset["regular"] = set_mag_presetmode(4, 14, 2)
        /\ Preset["high_accuracy"] = set_mag_presetmode(23, 82, 42)
        /\ Preset["enhanced"] = set_mag_presetmode(7, 26, 2)
    BY DEF Preset
  <2>. QED BY <2>3, <2>4
<1>7. Leads(R, mag_force, R)
  BY ForceLeads
<1>. HIDE DEF C, P, R
<1>8. \A p \in P : Leads(R, C[p], MagSettled)
  BY <1>3, <1>5, <1>6, LeadsWithin
<1>9. Leads(R, C["mag_force"], MagSettled)
  BY <1>3, <1>5, <1>7, LeadsWithin
<1>10. ASSUME NEW m \in Mode PROVE Leads(Start(m), C[m], MagSettled)
  BY <1>2, ModeLeads DEF Start
<1>11. ASSUME NEW p \in P \cup {"mag_force"} PROVE Leads(Start(p), C[p], MagSettled)
  BY <1>4, <1>8, <1>9 DEF Start, R
<1>12. Leads(Start("start_up"), C["start_up"], MagSettled)
  BY <1>3, StartUpLeads DEF Start
<1>. QED BY <1>1, <1>10, <1>11, <1>12 DEF C

\* For each call, states it is in at each of its places.
Traces ==
  [c \in DOMAIN Programs |->
     CHOOSE f : /\ Along(f, Programs[c]) /\ Start(c) \subseteq f[0]
                /\ f[Len(Programs[c])] \subseteq MagSettled]

\* There are such states.
LEMMA TracesAre ==
  ASSUME NEW c \in DOMAIN Programs
  PROVE  /\ Along(Traces[c], Programs[c]) /\ Start(c) \subseteq Traces[c][0]
         /\ Traces[c][Len(Programs[c])] \subseteq MagSettled
<1>. DEFINE P(f) == /\ Along(f, Programs[c]) /\ Start(c) \subseteq f[0]
                    /\ f[Len(Programs[c])] \subseteq MagSettled
<1>1. \E f : P(f)
  BY CallLeads DEF Leads, Programs
<1>2. Traces[c] = CHOOSE f : P(f)
  BY DEF Traces
<1>. HIDE DEF P
<1>3. P(Traces[c])
  BY <1>1, <1>2
<1>. QED BY <1>3 DEF P

\* Where the program and the two devices are.
Now ==
  [if_mode |-> held["if_mode"], enable |-> held["mag_manual_enable"],
   read |-> held["mag_read_addr"], write |-> held["mag_write_data"], mag |-> power.mag,
   on |-> magnet[75], forced |-> magnet[76], interface |-> ram.interface,
   manual |-> ram.manual, auto |-> ram.auto_condition, trim |-> ram.trim, mode |-> mode]
MagnetIs == DOMAIN magnet = {75, 76, 81, 82}

\* What is abstracted from the model is a state.
LEMMA NowIsState ==
  /\ ModesKept /\ MagnetIs => Now \in State
  /\ ModesKept' /\ MagnetIs' => Now' \in State
<1>1. ASSUME NEW h, NEW p, NEW g, NEW r, NEW m,
             h \in [Followed -> 0 .. 255], h["if_mode"] \in {0, 2},
             \A a \in DOMAIN g : g[a] \in 0 .. 255, DOMAIN g = {75, 76, 81, 82},
             p \in [accel : Power, gyro : Power, mag : Power],
             r \in [interface : 0 .. 3, manual : 0 .. 1, auto_condition : 0 .. 1,
                    tries : 0 .. 10, trim : BOOLEAN],
             m \in Names
      PROVE  [if_mode |-> h["if_mode"], enable |-> h["mag_manual_enable"],
              read |-> h["mag_read_addr"], write |-> h["mag_write_data"], mag |-> p.mag,
              on |-> g[75], forced |-> g[76], interface |-> r.interface,
              manual |-> r.manual, auto |-> r.auto_condition, trim |-> r.trim, mode |-> m]
                \in State
  <2>1. /\ h["mag_manual_enable"] \in Byte /\ h["mag_read_addr"] \in Byte
        /\ h["mag_write_data"] \in Byte
    BY <1>1 DEF Followed, Byte
  <2>2. g[75] \in Byte /\ g[76] \in Byte
    BY <1>1 DEF Byte
  <2>3. p.mag \in Power
    BY <1>1
  <2>4. /\ r.interface \in 0 .. 3 /\ r.manual \in 0 .. 1 /\ r.auto_condition \in 0 .. 1
        /\ r.trim \in BOOLEAN
    BY <1>1
  <2>. DEFINE W == Power
              M == Names
  <2>5. m \in M /\ p.mag \in W
    BY <1>1, <2>3
  <2>. HIDE DEF W, M
  <2>. QED BY <1>1, <2>1, <2>2, <2>4, <2>5 DEF State, W, M
<1>2. ModesKept => /\ held \in [Followed -> 0 .. 255] /\ held["if_mode"] \in {0, 2}
                   /\ \A a \in DOMAIN magnet : magnet[a] \in 0 .. 255
                   /\ power \in [accel : Power, gyro : Power, mag : Power]
                   /\ ram \in [interface : 0 .. 3, manual : 0 .. 1, auto_condition : 0 .. 1,
                               tries : 0 .. 10, trim : BOOLEAN]
                   /\ mode \in Names
  BY KeptParts, Zenon DEF HeldOK, MagnetOK, PowerOK, RamOK, RestOK, Names
<1>3. ModesKept' => /\ held' \in [Followed -> 0 .. 255] /\ held'["if_mode"] \in {0, 2}
                    /\ \A a \in DOMAIN magnet' : magnet'[a] \in 0 .. 255
                    /\ power' \in [accel : Power, gyro : Power, mag : Power]
                    /\ ram' \in [interface : 0 .. 3, manual : 0 .. 1, auto_condition : 0 .. 1,
                                 tries : 0 .. 10, trim : BOOLEAN]
                    /\ mode' \in Names
  BY KeptPartsNext, Zenon DEF HeldOK, MagnetOK, PowerOK, RamOK, RestOK, Names
<1>4. ASSUME ModesKept, MagnetIs PROVE Now \in State
  BY <1>1, <1>2, <1>4, Zenon DEF Now, MagnetIs
<1>5. ASSUME ModesKept', MagnetIs' PROVE Now' \in State
  BY <1>1, <1>3, <1>5, Zenon DEF Now, MagnetIs
<1>. QED BY <1>4, <1>5

\* The state as the model's actions see it.
LEMMA ConditionsMet ==
  ASSUME NEW i \in Legal
  PROVE  Enabled(i) <=> Taken(i, Now)
<1>1. \A c \in Conditions : Holds(c) <=> Met(c, Now)
  BY DEF Conditions, Holds, Met, Now
<1>2. i.when \subseteq Conditions
  BY LegalIs
<1>. HIDE DEF Conditions
<1>. QED BY <1>1, <1>2 DEF Enabled, Taken

\* A transfer to the BMM150 takes place where the state says so.
LEMMA TransfersTakePlace ==
  ASSUME present, NEW a
  PROVE  Reaches(a) <=> Answers(a, Now)
  BY DEF Reaches, Answers, Linked, Now, PowerControl

\* A write that is not lost does what Written says.
LEMMA WritesAre ==
  ASSUME ModesKept, MagnetIs, present, NEW i \in Legal, i.op = "put",
         held' = Changed(i.field, i.value), React(i.field, i.value),
         ram' = Noted(i.field, i.value), mode' = mode
  PROVE  Now' = Written(i.field, i.value, Now) /\ MagnetIs'
<1>. DEFINE f == i.field
            v == i.value
<1>1. HeldOK /\ MagnetOK /\ PowerOK /\ RamOK
  BY KeptParts
<1>2. f \in Fields /\ v \in Byte
  BY LegalIs
<1>. HIDE DEF f, v
<1>3. /\ held \in [Followed -> 0 .. 255]
      /\ held' = IF f \in Followed THEN [held EXCEPT ![f] = v] ELSE held
  BY <1>1 DEF HeldOK, Changed, f, v
<1>4. ram' = IF f = "mag_manual_enable" THEN [ram EXCEPT !.manual = v] ELSE ram
  BY DEF Noted, f, v
<1>5. /\ power' = IF f = "command_register" THEN Commanded(v) ELSE power
      /\ magnet' = IF f = "mag_write_addr" /\ Answers(v, Now)
                   THEN [magnet EXCEPT ![v] = held["mag_write_data"]] ELSE magnet
  BY TransfersTakePlace DEF React, f, v
<1>6. power'.mag = IF f = "command_register" /\ v = 24 THEN "suspend"
                   ELSE IF f = "command_register" /\ v = 25 THEN "normal" ELSE power.mag
  BY <1>1, <1>5 DEF PowerOK, Commanded
<1>7. /\ ram'.interface = ram.interface /\ ram'.auto_condition = ram.auto_condition
      /\ ram'.trim = ram.trim
      /\ ram'.manual = IF f = "mag_manual_enable" THEN v ELSE ram.manual
  BY <1>1, <1>4 DEF RamOK
<1>8. \A g \in Followed : held'[g] = IF f = g THEN v ELSE held[g]
  BY <1>3
<1>9. /\ held'["if_mode"] = IF f = "if_mode" THEN v ELSE held["if_mode"]
      /\ held'["mag_manual_enable"] = IF f = "mag_manual_enable" THEN v
                                      ELSE held["mag_manual_enable"]
      /\ held'["mag_read_addr"] = IF f = "mag_read_addr" THEN v ELSE held["mag_read_addr"]
      /\ held'["mag_write_data"] = IF f = "mag_write_data" THEN v ELSE held["mag_write_data"]
  BY <1>8 DEF Followed
<1>10. /\ DOMAIN magnet' = DOMAIN magnet
       /\ magnet'[75] = IF f = "mag_write_addr" /\ v = 75 /\ Linked(Now)
                        THEN held["mag_write_data"] ELSE magnet[75]
       /\ magnet'[76] = IF f = "mag_write_addr" /\ v = 76 /\ Linked(Now) /\ magnet[75] = 1
                        THEN held["mag_write_data"] ELSE magnet[76]
  <2>1. 75 \in DOMAIN magnet /\ 76 \in DOMAIN magnet
    BY DEF MagnetIs
  <2>2. Answers(v, Now) <=> Linked(Now) /\ (v = 75 \/ magnet[75] = 1)
    BY DEF Answers, Now
  <2>. QED BY <1>5, <2>1, <2>2
<1>11. MagnetIs'
  BY <1>10 DEF MagnetIs
<1>. DEFINE Later == [if_mode |-> held'["if_mode"], enable |-> held'["mag_manual_enable"],
                     read |-> held'["mag_read_addr"], write |-> held'["mag_write_data"],
                     mag |-> power'.mag, on |-> magnet'[75], forced |-> magnet'[76],
                     interface |-> ram'.interface, manual |-> ram'.manual,
                     auto |-> ram'.auto_condition, trim |-> ram'.trim, mode |-> mode']
<1>12. Now' = Later
  BY DEF Now
<1>13. Now.write = held["mag_write_data"] /\ Now.on = magnet[75]
  BY DEF Now
<1>14. Later = Written(f, v, Now)
  <2>. DEFINE l == Linked(Now)
  <2>1. CASE f \in {"if_mode", "mag_read_addr", "mag_write_data"}
    BY <1>6, <1>7, <1>9, <1>10, <2>1 DEF Written, Now
  <2>4. CASE f = "mag_manual_enable"
    <3>1. Written(f, v, Now) = [Now EXCEPT !.enable = v, !.manual = v]
      BY <2>4 DEF Written
    <3>. DEFINE x == [Now EXCEPT !.enable = v]
    <3>2. x = [if_mode |-> held["if_mode"], enable |-> v, read |-> held["mag_read_addr"],
               write |-> held["mag_write_data"], mag |-> power.mag, on |-> magnet[75],
               forced |-> magnet[76], interface |-> ram.interface, manual |-> ram.manual,
               auto |-> ram.auto_condition, trim |-> ram.trim, mode |-> mode]
      BY DEF Now
    <3>3. Written(f, v, Now) = [x EXCEPT !.manual = v]
      BY <3>1
    <3>. HIDE DEF x
    <3>4. [x EXCEPT !.manual = v]
            = [if_mode |-> held["if_mode"], enable |-> v, read |-> held["mag_read_addr"],
               write |-> held["mag_write_data"], mag |-> power.mag, on |-> magnet[75],
               forced |-> magnet[76], interface |-> ram.interface, manual |-> v,
               auto |-> ram.auto_condition, trim |-> ram.trim, mode |-> mode]
      BY <3>2
    <3>5. Later = [if_mode |-> held["if_mode"], enable |-> v, read |-> held["mag_read_addr"],
               write |-> held["mag_write_data"], mag |-> power.mag, on |-> magnet[75],
               forced |-> magnet[76], interface |-> ram.interface, manual |-> v,
               auto |-> ram.auto_condition, trim |-> ram.trim, mode |-> mode]
      BY <1>6, <1>7, <1>9, <1>10, <2>4
    <3>. QED BY <3>3, <3>4, <3>5
  <2>2. CASE f = "mag_write_addr"
    <3>. HIDE DEF l
    <3>1. Written(f, v, Now) = IF v = 75 /\ l THEN [Now EXCEPT !.on = held["mag_write_data"]]
                               ELSE IF v = 76 /\ l /\ magnet[75] = 1
                               THEN [Now EXCEPT !.forced = held["mag_write_data"]] ELSE Now
      BY <1>13, <2>2 DEF Written, l
    <3>. QED BY <1>6, <1>7, <1>9, <1>10, <2>2, <3>1 DEF Now, l
  <2>3. CASE f \notin {"if_mode", "mag_manual_enable", "mag_read_addr", "mag_write_data",
                       "mag_write_addr"}
    BY <1>6, <1>7, <1>9, <1>10, <2>3 DEF Written, Now
  <2>. QED BY <2>1, <2>2, <2>3, <2>4
<1>. QED BY <1>11, <1>12, <1>14 DEF f, v

\* A step of a call in which no transfer is lost: on to the next instruction, back to
\* the start of the wake-up while the BMM150 is not up, or the same one again.
LEMMA StepsAre ==
  ASSUME ModesKept, MagnetIs, NEW i \in Legal, clean', present',
         \/ Skip(i) \/ Write(i) \/ FailedWrite(i) \/ ReadInterface(i)
         \/ CheckAwake(i) \/ ReadTrim(i) \/ SetAutoCondition(i)
         \/ PollFoc(i) \/ EndMode(i) \/ EndStartUp(i)
  PROVE  /\ clean /\ present /\ UNCHANGED current /\ MagnetIs'
         /\ \/ pc' = pc + 1 /\ Now' = Result(i, Now)
            \/ i.op = "awake" /\ Taken(i, Now) /\ ~Up(Now) /\ pc' = pc - 3 /\ Now' = Now
            \/ pc' = pc /\ Now' = Now
<1>1. HeldOK /\ MagnetOK /\ PowerOK /\ RamOK
  BY KeptParts
<1>2. ~Lost /\ (NotLost => clean)
  BY DEF Lost, NotLost
<1>3. Enabled(i) <=> Taken(i, Now)
  BY ConditionsMet
<1>4. ASSUME UNCHANGED device PROVE present /\ MagnetIs'
  BY <1>4 DEF device, MagnetIs
<1>5. ASSUME UNCHANGED device, UNCHANGED mode, UNCHANGED ram PROVE Now' = Now
  BY <1>5 DEF device, Now
<1>6. ASSUME UNCHANGED device, UNCHANGED mode, NEW n, ram' = [ram EXCEPT !.tries = n]
      PROVE  Now' = Now
  <2>1. /\ ram'.interface = ram.interface /\ ram'.manual = ram.manual
        /\ ram'.auto_condition = ram.auto_condition /\ ram'.trim = ram.trim
    BY <1>1, <1>6 DEF RamOK
  <2>. QED BY <1>6, <2>1 DEF device, Now
<1>7. CASE Skip(i)
  <2>1. /\ ~Taken(i, Now) /\ pc' = pc + 1 /\ UNCHANGED device /\ UNCHANGED current
        /\ UNCHANGED ram /\ UNCHANGED mode /\ clean
    BY <1>3, <1>7 DEF Skip
  <2>2. Result(i, Now) = Now
    BY <2>1 DEF Result
  <2>. QED BY <1>4, <1>5, <2>1, <2>2
<1>8. CASE Write(i)
  <2>1. /\ Taken(i, Now) /\ i.op = "put" /\ pc' = pc + 1 /\ UNCHANGED current /\ mode' = mode
        /\ held' = Changed(i.field, i.value) /\ React(i.field, i.value)
        /\ ram' = Noted(i.field, i.value) /\ clean /\ present
    BY <1>3, <1>8 DEF Write
  <2>2. Now' = Written(i.field, i.value, Now) /\ MagnetIs'
    BY <2>1, WritesAre
  <2>3. Result(i, Now) = Written(i.field, i.value, Now)
    BY <2>1 DEF Result, After
  <2>. QED BY <2>1, <2>2, <2>3
<1>9. CASE FailedWrite(i)
  BY <1>2, <1>9 DEF FailedWrite
<1>10. CASE ReadInterface(i)
  <2>1. /\ Taken(i, Now) /\ i.op = "get_if_mode" /\ pc' = pc + 1 /\ UNCHANGED current
        /\ mode' = mode /\ UNCHANGED device
        /\ ram' = [ram EXCEPT !.interface = held["if_mode"]] /\ clean
    BY <1>2, <1>3, <1>10 DEF ReadInterface
  <2>2. Result(i, Now) = [Now EXCEPT !.interface = held["if_mode"]]
    BY <2>1 DEF Result, After, Now
  <2>3. /\ ram'.interface = held["if_mode"] /\ ram'.manual = ram.manual
        /\ ram'.auto_condition = ram.auto_condition /\ ram'.trim = ram.trim
    BY <1>1, <2>1 DEF RamOK
  <2>4. Now' = [Now EXCEPT !.interface = held["if_mode"]]
    BY <2>1, <2>3 DEF device, Now
  <2>. QED BY <1>4, <2>1, <2>2, <2>4
<1>11. CASE CheckAwake(i)
  <2>1. /\ Taken(i, Now) /\ i.op = "awake" /\ UNCHANGED current /\ mode' = mode
        /\ UNCHANGED device /\ clean
        /\ IF AwakeNow THEN GoOn ELSE NotAwake
    BY <1>2, <1>3, <1>11 DEF CheckAwake
  <2>2. Result(i, Now) = Now
    BY <2>1 DEF Result, After
  <2>3. present /\ (AwakeNow <=> Up(Now))
    <3>1. present /\ (Reaches(75) <=> Answers(75, Now))
      BY <1>4, <2>1, TransfersTakePlace
    <3>. QED BY <3>1 DEF AwakeNow, Up, Answers, Linked, Now, PowerControl
  <2>4. CASE GoOn
    <3>1. pc' = pc + 1 /\ ram' = [ram EXCEPT !.tries = 0]
      BY <2>4 DEF GoOn
    <3>. QED BY <1>4, <1>6, <2>1, <2>2, <3>1
  <2>5. CASE ~GoOn
    <3>1. /\ ~Up(Now) /\ pc' = pc - 3 /\ ram' = [ram EXCEPT !.tries = ram.tries + 1]
      BY <2>1, <2>3, <2>5 DEF NotAwake
    <3>. QED BY <1>4, <1>6, <2>1, <3>1
  <2>. QED BY <2>4, <2>5
<1>12. CASE ReadTrim(i)
  <2>. DEFINE b == (i.value = TrimRegisters[1] \/ ram.trim)
                     /\ Reaches(i.value) /\ held["mag_read_addr"] = i.value
              d == (i.value = TrimRegisters[1] \/ Now.trim)
                     /\ Answers(i.value, Now) /\ Now.read = i.value
  <2>1. /\ Taken(i, Now) /\ i.op = "trim" /\ pc' = pc + 1 /\ UNCHANGED current
        /\ mode' = mode /\ UNCHANGED device /\ clean
    BY <1>2, <1>3, <1>12 DEF ReadTrim
  <2>2. ram' = [ram EXCEPT !.trim = b]
    <3>1. \/ ram' = [ram EXCEPT !.trim = /\ i.value = TrimRegisters[1] \/ ram.trim
                                         /\ Reaches(i.value)
                                         /\ held["mag_read_addr"] = i.value]
          \/ Lost
      BY <1>12, Zenon DEF ReadTrim
    <3>2. (/\ i.value = TrimRegisters[1] \/ ram.trim
           /\ Reaches(i.value)
           /\ held["mag_read_addr"] = i.value) = b
      OBVIOUS
    <3>. QED BY <1>2, <3>1, <3>2, Zenon
  <2>3. Result(i, Now) = [Now EXCEPT !.trim = d]
    BY <2>1, Zenon DEF Result, After
  <2>4. b = d
    <3>1. Reaches(i.value) <=> Answers(i.value, Now)
      BY <1>4, <2>1, TransfersTakePlace
    <3>2. Now.trim = ram.trim /\ Now.read = held["mag_read_addr"]
      BY DEF Now
    <3>3. b \in BOOLEAN /\ d \in BOOLEAN /\ (b <=> d)
      BY <3>1, <3>2
    <3>. HIDE DEF b, d
    <3>. QED BY <3>3
  <2>. HIDE DEF b, d
  <2>5. /\ ram'.interface = ram.interface /\ ram'.manual = ram.manual
        /\ ram'.auto_condition = ram.auto_condition /\ ram'.trim = b
    BY <1>1, <2>2 DEF RamOK
  <2>6. Now' = [Now EXCEPT !.trim = b]
    BY <2>1, <2>5 DEF device, Now
  <2>. QED BY <1>4, <2>1, <2>3, <2>4, <2>6
<1>13. CASE SetAutoCondition(i)
  <2>1. /\ Taken(i, Now) /\ i.op = "auto_condition" /\ pc' = pc + 1 /\ UNCHANGED current
        /\ mode' = mode /\ UNCHANGED device /\ clean
        /\ ram' = [ram EXCEPT !.auto_condition = i.value]
    BY <1>3, <1>13 DEF SetAutoCondition
  <2>2. Result(i, Now) = [Now EXCEPT !.auto = i.value]
    BY <2>1 DEF Result, After
  <2>3. /\ ram'.interface = ram.interface /\ ram'.manual = ram.manual
        /\ ram'.auto_condition = i.value /\ ram'.trim = ram.trim
    BY <1>1, <2>1 DEF RamOK
  <2>4. Now' = [Now EXCEPT !.auto = i.value]
    BY <2>1, <2>3 DEF device, Now
  <2>. QED BY <1>4, <2>1, <2>2, <2>4
<1>14. CASE PollFoc(i)
  <2>1. /\ Taken(i, Now) /\ i.op = "foc_rdy" /\ UNCHANGED current
        /\ mode' = mode /\ UNCHANGED device /\ clean
        /\ \/ ram' = [ram EXCEPT !.tries = 0] /\ pc' = pc + 1
           \/ ram' = [ram EXCEPT !.tries = ram.tries + 1] /\ pc' = pc
    BY <1>3, <1>14 DEF PollFoc
  <2>2. Result(i, Now) = Now
    BY <2>1 DEF Result, After
  <2>. QED BY <1>4, <1>6, <2>1, <2>2
<1>15. CASE EndMode(i)
  <2>1. /\ Taken(i, Now) /\ i.op = "mode" /\ pc' = pc + 1 /\ UNCHANGED current
        /\ mode' = i.value /\ UNCHANGED device /\ UNCHANGED ram /\ clean
    BY <1>3, <1>15 DEF EndMode
  <2>2. Result(i, Now) = [Now EXCEPT !.mode = i.value]
    BY <2>1 DEF Result, After
  <2>3. Now' = [Now EXCEPT !.mode = i.value]
    BY <2>1 DEF device, Now
  <2>. QED BY <1>4, <2>1, <2>2, <2>3
<1>16. CASE EndStartUp(i)
  <2>1. /\ Taken(i, Now) /\ i.op = "up" /\ pc' = pc + 1 /\ UNCHANGED current
        /\ mode' = mode /\ UNCHANGED device /\ UNCHANGED ram /\ clean
    BY <1>3, <1>16 DEF EndStartUp
  <2>2. Result(i, Now) = Now
    BY <2>1 DEF Result, After
  <2>. QED BY <1>4, <1>5, <2>1, <2>2
<1>. QED BY <1>7, <1>8, <1>9, <1>10, <1>11, <1>12, <1>13, <1>14, <1>15, <1>16

\* The BMM150's registers stay what they are, whatever is lost.
LEMMA RegistersStay ==
  ASSUME MagnetIs, [ModesNext]_modesVars
  PROVE  MagnetIs'
<1>1. ASSUME NEW i, \/ Skip(i) \/ ReadInterface(i) \/ CheckAwake(i)
                    \/ ReadTrim(i) \/ SetAutoCondition(i) \/ PollFoc(i)
                    \/ EndMode(i) \/ EndStartUp(i) \/ FailedWrite(i)
      PROVE  UNCHANGED magnet
  BY <1>1 DEF Skip, ReadInterface, CheckAwake, ReadTrim,
     SetAutoCondition, PollFoc, EndMode, EndStartUp,
     FailedWrite, device
<1>2. ASSUME NEW i, Write(i) PROVE DOMAIN magnet' = DOMAIN magnet
  BY <1>2 DEF Write, React
<1>3. CASE Step
  BY <1>1, <1>2, <1>3 DEF Step, MagnetIs
<1>4. ASSUME NEW c, BeginCall(c) PROVE UNCHANGED magnet
  BY <1>4 DEF BeginCall, device
<1>5. Restart => UNCHANGED magnet
  BY DEF Restart, device
<1>6. UNCHANGED modesVars => UNCHANGED magnet
  BY DEF modesVars, device
<1>. QED BY <1>3, <1>4, <1>5, <1>6 DEF ModesNext, MagnetIs

\* The invariant.
OnTrace ==
  /\ ModesKept /\ MagnetIs
  /\ clean /\ present => Now \in Traces[current][pc - 1]

\* Start-up may begin in any state.
LEMMA OnTraceInit == ModesInit => OnTrace
<1>. SUFFICES ASSUME ModesInit PROVE OnTrace
  OBVIOUS
<1>1. ModesKept
  BY ModesKeptInit
<1>2. MagnetIs
  BY DEF ModesInit, MagnetIs, PowerControl, PowerMode, Repetitions
<1>3. "start_up" \in DOMAIN Programs
  BY DEF Programs, Code
<1>4. State \subseteq Traces["start_up"][0]
  BY <1>3, TracesAre DEF Start
<1>5. current = "start_up" /\ pc - 1 = 0
  BY DEF ModesInit
<1>. QED BY <1>1, <1>2, <1>4, <1>5, NowIsState DEF OnTrace

\* Every step stays on the trace of the call, or goes to the start of another one's.
LEMMA OnTraceNext == OnTrace /\ [ModesNext]_modesVars => OnTrace'
<1>. SUFFICES ASSUME OnTrace, [ModesNext]_modesVars PROVE OnTrace'
  OBVIOUS
<1>1. ModesKept /\ MagnetIs /\ ModesKept' /\ MagnetIs'
  BY ModesKeptNext, RegistersStay DEF OnTrace
<1>2. SUFFICES ASSUME clean', present' PROVE Now' \in Traces'[current'][pc' - 1]
  BY <1>1 DEF OnTrace
<1>3. Traces' = Traces
  BY DEF Traces
<1>. DEFINE C == Programs
            n == Len(C[current])
            f == Traces[current]
<1>4. current \in DOMAIN C /\ pc \in 1 .. n + 1 /\ n \in Nat /\ pc \in Nat \ {0}
  <2>1. current \in DOMAIN C /\ pc \in 1 .. n + 1
    BY <1>1, KeptParts DEF PlaceOK
  <2>2. n \in Nat
    BY <2>1, CodeIs DEF Programs
  <2>. HIDE DEF n
  <2>. QED BY <2>1, <2>2
<1>5. CASE Step
  <2>. DEFINE i == C[current][pc]
  <2>1. /\ pc \in 1 .. n /\ i \in Legal
    <3>1. pc <= n
      BY <1>5 DEF Step, Running, Programs
    <3>2. pc \in 1 .. n
      <4>. HIDE DEF n
      <4>. QED BY <1>4, <3>1
    <3>. QED BY <1>4, <3>2, CodeIs DEF Programs
  <2>2. \/ Skip(i) \/ Write(i) \/ FailedWrite(i) \/ ReadInterface(i)
        \/ CheckAwake(i) \/ ReadTrim(i) \/ SetAutoCondition(i)
        \/ PollFoc(i) \/ EndMode(i) \/ EndStartUp(i)
    BY <1>5 DEF Step, Programs
  <2>. HIDE DEF i
  <2>3. /\ clean /\ present /\ UNCHANGED current
        /\ \/ pc' = pc + 1 /\ Now' = Result(i, Now)
           \/ i.op = "awake" /\ Taken(i, Now) /\ ~Up(Now) /\ pc' = pc - 3 /\ Now' = Now
           \/ pc' = pc /\ Now' = Now
    BY <1>1, <1>2, <2>1, <2>2, StepsAre
  <2>4. Now \in f[pc - 1]
    BY <2>3 DEF OnTrace
  <2>5. /\ Result(i, Now) \in f[pc]
        /\ i.op = "awake" /\ Taken(i, Now) /\ ~Up(Now) => pc > 3 /\ Now \in f[pc - 4]
    BY <1>4, <2>1, <2>4, TracesAre DEF Along, i
  <2>. HIDE DEF f
  <2>6. Now' \in f[pc' - 1]
    <3>1. (pc + 1) - 1 = pc /\ (pc - 3) - 1 = pc - 4
      BY <1>4
    <3>. QED BY <2>3, <2>4, <2>5, <3>1
  <2>. QED BY <1>3, <2>3, <2>6 DEF f
<1>6. ASSUME NEW c \in DOMAIN Code \ {"start_up"}, BeginCall(c)
      PROVE  Now' \in Traces'[current'][pc' - 1]
  <2>1. /\ ~Running /\ (c \in Mode \/ mode \in WithMag)
        /\ current' = c /\ pc' = 1 /\ clean /\ present
        /\ UNCHANGED device /\ UNCHANGED <<ram, mode>>
    BY <1>2, <1>6 DEF BeginCall, device
  <2>2. pc - 1 = n
    <3>1. ~(pc <= n)
      BY <2>1 DEF Running, Programs
    <3>. HIDE DEF n
    <3>. QED BY <1>4, <3>1
  <2>3. Now \in MagSettled
    BY <1>4, <2>1, <2>2, TracesAre DEF OnTrace
  <2>4. Now' = Now
    BY <2>1 DEF device, Now
  <2>5. Now \in Start(c)
    <3>1. Now.mode = mode
      BY DEF Now
    <3>. QED BY <1>6, <2>1, <2>3, <3>1 DEF Start, MagSettled, Off
  <2>6. c \in DOMAIN C /\ 1 - 1 = 0
    BY <1>6 DEF Programs
  <2>7. Now \in Traces[c][0]
    BY <2>5, <2>6, TracesAre
  <2>. QED BY <1>3, <2>1, <2>4, <2>6, <2>7
<1>7. CASE Restart
  <2>1. current' = "start_up" /\ pc' - 1 = 0
    BY <1>7 DEF Restart
  <2>2. Now' \in State
    BY <1>1, NowIsState
  <2>3. "start_up" \in DOMAIN C
    BY DEF Programs, Code
  <2>4. State \subseteq Traces["start_up"][0]
    BY <2>3, TracesAre DEF Start
  <2>. QED BY <1>3, <2>1, <2>2, <2>4
<1>8. CASE UNCHANGED modesVars
  <2>1. UNCHANGED <<current, pc, clean, present>> /\ Now' = Now
    BY <1>8 DEF modesVars, device, Now
  <2>. QED BY <1>2, <1>3, <2>1 DEF OnTrace
<1>. QED BY <1>5, <1>6, <1>7, <1>8 DEF ModesNext

\* At the end of a call, the trace is in what the mode needs.
LEMMA Reached == OnTrace => ModeReached
<1>. SUFFICES ASSUME OnTrace, up, ~Running, clean, present
     PROVE  IF mode \in WithMag THEN MagReady ELSE MagOff
  BY DEF ModeReached
<1>. DEFINE C == Programs
            n == Len(C[current])
<1>1. current \in DOMAIN C /\ pc \in 1 .. n + 1
  BY KeptParts DEF OnTrace, PlaceOK
<1>2. n \in Nat
  BY <1>1, CodeIs DEF Programs
<1>3. ~(pc <= n)
  BY DEF Running, Programs
<1>4. pc - 1 = n
  <2>. HIDE DEF n
  <2>. QED BY <1>1, <1>2, <1>3
<1>5. Now \in MagSettled
  BY <1>1, <1>4, TracesAre DEF OnTrace
<1>6. /\ Now.mode = mode /\ Now.if_mode = held["if_mode"]
      /\ Now.enable = held["mag_manual_enable"] /\ Now.read = held["mag_read_addr"]
      /\ Now.mag = power.mag /\ Now.on = magnet[75] /\ Now.forced = magnet[76]
      /\ Now.manual = ram.manual /\ Now.trim = ram.trim
  BY DEF Now
<1>7. CASE Now \in Ready(WithMag)
  BY <1>6, <1>7 DEF Ready, MagReady, PowerControl, PowerMode,
     DataRegister
<1>8. CASE Now \in Off(Mode \ WithMag)
  BY <1>6, <1>8 DEF Off, MagOff, PowerControl
<1>. QED BY <1>5, <1>7, <1>8 DEF MagSettled

\* A run in which no transfer is lost has the magnetometer, at the end of start-up and of
\* every later call, as the last mode needs it: ready to deliver data that can be
\* compensated, or off; whatever the runs before it left in the two devices, and for every
\* sequence of modes and presets (bmi160_support.c, bmi160_config_running_mode).
THEOREM ModesReached == ModesSpec => []ModeReached
<1>1. ModesInit => OnTrace
  BY OnTraceInit
<1>2. OnTrace /\ [ModesNext]_modesVars => OnTrace'
  BY OnTraceNext
<1>3. OnTrace => ModeReached
  BY Reached
<1>. QED BY <1>1, <1>2, <1>3, PTL DEF ModesSpec
=============================================================================
