------------------------------- MODULE Bmi160 -------------------------------
\* The register interface of the motion sensor driver
\* (src/examples/azure_project/main/bmi160.c) at work: calls of the driver, one
\* after another, on a device whose bus may fail at any transfer. The sensor task is
\* the only one that calls the driver, so calls do not overlap. The device's own
\* reactions to its registers are in Bmi160Modes.
EXTENDS Bmi160Calls

CONSTANTS Used,         \* the fields set by bmi160_set_<field>
          Inputs,       \* the arguments of the setters
          Observed,     \* the fields whose content is followed
          Contents,     \* what the registers may hold at first
          MaxCalls,     \* bound: the calls made
          MaxFailures   \* bound: the transfers that fail

\* The fields with a setter that does more than set them.
Special ==
  {fifo_tag_intr1_enable, fifo_tag_intr2_enable}
    \cup {intr_low_g(c) : c \in 0 .. 1} \cup {intr_any_motion(c) : c \in 0 .. 1}
    \cup AccelOffsets \cup UNION {{pair[1], pair[2]} : pair \in GyroOffsets}
    \cup {step_config_0, step_config_1, step_config_2}

ASSUME ConstantsAssumption ==
  /\ Used \subseteq Writable \ Special
  /\ Inputs \subseteq Byte
  /\ Observed \subseteq Field
  /\ Contents \subseteq SUBSET Bit
  /\ MaxCalls \in Nat /\ MaxFailures \in Nat

VARIABLES registers,    \* the bits of the device that are one
          call,         \* the call under way, or the last one
          todo,         \* its accesses still to be made
          failed,       \* a transfer of it failed
          calls,        \* the calls made so far
          failures      \* the transfers that failed so far

vars == <<registers, call, todo, failed, calls, failures>>

\* The calls; a channel of 2 does not exist.
Pin == 0 .. 2
Calls ==
  {Set(f, v) : f \in Used, v \in Inputs}
    \cup {set_fifo_tag_intr_enable(c, v) : c \in 0 .. 1, v \in Inputs}
    \cup {set_intr_low_g(c, v) : c \in Pin, v \in Inputs}
    \cup {set_intr_any_motion(c, v) : c \in Pin, v \in Inputs}
    \cup {map_significant_motion_intr(c) : c \in Pin}
    \cup {map_step_detector_intr(c) : c \in Pin}
    \cup {set_accel_offset_compensation(f, v) : f \in AccelOffsets, v \in Inputs}
    \cup {set_gyro_offset_compensation(pair, v + 256 * v) : pair \in GyroOffsets, v \in Inputs}
    \cup {set_step_mode(mode) : mode \in 0 .. 3}
    \cup {clear_step_counter}
    \cup {set_accel_foc_trigger(axis, v) : axis \in 0 .. 3, v \in Inputs}
    \cup {accel_foc_trigger_xyz(v, v, v) : v \in Inputs}
    \cup {set_foc_gyro_enable(v) : v \in Inputs}

NoCall == Call(<<>>, "none", {})

Init ==
  /\ registers \in Contents
  /\ call = NoCall
  /\ todo = <<>>
  /\ failed = FALSE
  /\ calls = 0
  /\ failures = 0

Begin(c) ==
  /\ todo = <<>>
  /\ calls < MaxCalls
  /\ call' = c
  /\ todo' = c.accesses
  /\ failed' = FALSE
  /\ calls' = calls + 1
  /\ UNCHANGED <<registers, failures>>

Access ==
  /\ todo # <<>>
  /\ registers' = IF Needed(registers, Head(todo)) THEN Stored(registers, Head(todo))
                  ELSE registers
  /\ todo' = Tail(todo)
  /\ UNCHANGED <<call, failed, calls, failures>>

\* A transfer of the access fails: a failed write leaves the device as it was; after a
\* failed read the buffer is written back as it is.
FailedAccess ==
  /\ todo # <<>>
  /\ failures < MaxFailures
  /\ Needed(registers, Head(todo))
  /\ \/ registers' = registers
     \/ /\ Head(todo).reads
        /\ registers' = Spoilt(registers, Head(todo))
  /\ todo' = Tail(todo)
  /\ failed' = TRUE
  /\ failures' = failures + 1
  /\ UNCHANGED <<call, calls>>

\* The look at whether the access is needed fails and finds zero: the driver does
\* without the access if zero was asked for, and makes it otherwise, needed or not.
FailedLook ==
  /\ todo # <<>>
  /\ failures < MaxFailures
  /\ Head(todo).ensure
  /\ todo' = IF Head(todo).ones = {} THEN Tail(todo)
             ELSE <<[Head(todo) EXCEPT !.ensure = FALSE]>> \o Tail(todo)
  /\ failed' = TRUE
  /\ failures' = failures + 1
  /\ UNCHANGED <<registers, call, calls>>

Next == (\E c \in Calls : Begin(c)) \/ Access \/ FailedAccess \/ FailedLook

Spec == Init /\ [][Next]_vars

-----------------------------------------------------------------------------

AccessType ==
  [reg : Byte, region : SUBSET Bit, ones : SUBSET Bit, reads : BOOLEAN,
   found : SUBSET Bit, kept : SUBSET Bit, ensure : BOOLEAN]

\* The variables keep to their domains: in particular no access of any call leaves
\* the eight bits of a register of the device.
TypeOK ==
  /\ registers \subseteq Bit
  /\ todo \in Seq(AccessType)
  /\ call \in Calls \cup {NoCall}
  /\ failed \in BOOLEAN
  /\ calls \in 0 .. MaxCalls
  /\ failures \in 0 .. MaxFailures

\* When a call has reported success and none of its transfers failed, every setting
\* it names holds the number asked for, as the getter of that setting would return
\* it, whatever the registers held before and whatever earlier calls lost. It fails
\* if one access of a call undoes what an earlier access of it did.
HeldAsAsked ==
  todo = <<>> /\ call.answer = "success" /\ ~failed =>
    \A h \in call.holds : ValueIn(registers, h[1]) = h[2]

-----------------------------------------------------------------------------
\* The promise of independent settings.

SliceOf == [f \in Observed |-> Slice(f)]
Neighbours == {{f \in Observed : SliceOf[f] \cap Register(r) # {}} : r \in Byte}

\* The assignment under way: to the fields the next access covers.
Named == {f \in Observed : todo # <<>> /\ SliceOf[f] \cap Head(todo).region # {}}
Assignment == [f \in Named |-> Head(todo).ones \cap SliceOf[f]]

Promise ==
  INSTANCE Settings WITH
    Setting    <- Observed,
    Neighbours <- Neighbours,
    settings   <- [f \in Observed |-> registers \cap SliceOf[f]],
    pending    <- Assignment,
    failures   <- failures

\* The read-modify-write of shared registers implements settings that are
\* independent: an access gives the field it is meant for what is asked and changes no
\* other field of the device. An access with a failed transfer is either not made at
\* all, or gives its field what is asked and damages at most the other fields of the
\* same register, whose contents may then be anything. The whole-register writes of
\* map_significant_motion_intr and map_step_detector_intr are meant for every field of
\* those registers.
IsSettings == Promise!Spec
=============================================================================
