----------------------------- MODULE TwinSample -----------------------------
(***************************************************************************)
(* The device twin sample, examples/iothub_devicetwin_samples_and_methods/ *)
(* main/iothub_client_device_twin_and_methods_sample.c: the hub's desired  *)
(* properties as deviceTwinCallback brings them into the Car and prints    *)
(* them.                                                                   *)
(*                                                                         *)
(* The callback runs in the loop of IoTHubDeviceClient_LL_DoWork and is    *)
(* one step.  Of the heap there is the block that changeOilReminder of the *)
(* Car points to: one that was freed may hold anything when it is read,    *)
(* may be handed out again, and may bring the program down when it is      *)
(* freed again.  Left out are the blocks the callback never frees.         *)
(*                                                                         *)
(* External: the hub, which sends the whole document when the device       *)
(* connects and a patch for every change after it, in order; what is on    *)
(* its way when the connection drops is lost.  Left out: the location,     *)
(* which goes the way of the speed but for the conversion, the methods and *)
(* the reported properties, which never change.                            *)
(***************************************************************************)
EXTENDS Integers, Sequences

CONSTANTS
    Reminder,       \* the values of changeOilReminder
    Speed,          \* those of desired_maxSpeed
    Absent,         \* a property that is not there
    NULL, FREED,    \* changeOilReminder of the Car when it holds none
    MAX_EDITS,      \* bound: changes of the desired properties
    MAX_DROPS,      \* bound: connections lost
    MAX_FAILURES    \* bound: allocations that fail

ASSUME ValueAssumption ==
    Speed \subseteq Nat /\ Absent \notin Reminder \union Nat
ASSUME PointerAssumption == NULL # FREED /\ Reminder \intersect {NULL, FREED} = {}
ASSUME BoundAssumption ==
    MAX_EDITS \in Nat /\ MAX_DROPS \in Nat /\ MAX_FAILURES \in Nat

Update == [state : {"COMPLETE", "PARTIAL"},
           reminder : Reminder \union {Absent}, speed : Speed \union {Absent}]

VARIABLES
    desired,        \* the hub's document
    inbox,          \* updates on their way
    connected,
    car,            \* changeOilReminder, what it points to, and desired_maxSpeed
    monitor,        \* the last values printed
    up,             \* the program runs
    missed,         \* an update was dropped for want of memory, and no COMPLETE came since
    edits, drops, failures

device == <<car, monitor>>
bounds == <<edits, drops, failures>>
vars == <<desired, inbox, connected, device, up, missed, bounds>>

Blank == [reminder |-> Absent, speed |-> Absent]
NewCar == [reminder |-> NULL, speed |-> 0]

Init ==
    /\ desired \in [reminder : Reminder \union {Absent}, speed : Speed \union {Absent}]
    /\ inbox = <<>>
    /\ connected = FALSE
    /\ car = NewCar /\ monitor = Blank
    /\ up = TRUE /\ missed = FALSE
    /\ edits = 0 /\ drops = 0 /\ failures = 0
-----------------------------------------------------------------------------
(* The hub. *)

Connect ==
    /\ up /\ ~connected
    /\ connected' = TRUE
    /\ inbox' = << [state |-> "COMPLETE", reminder |-> desired.reminder, speed |-> desired.speed] >>
    /\ UNCHANGED <<desired, device, up, missed, bounds>>

\* A change of one property or of both.  One that is taken away is not in the
\* patch as far as the sample can tell.
Edit ==
    /\ edits < MAX_EDITS
    /\ \E r \in Reminder \union {Absent}, s \in Speed \union {Absent} :
        /\ desired' = [reminder |-> r, speed |-> s]
        /\ desired' # desired
        /\ inbox' = IF ~connected THEN inbox
                    ELSE Append(inbox,
                        [state |-> "PARTIAL",
                         reminder |-> IF r = desired.reminder THEN Absent ELSE r,
                         speed |-> IF s = desired.speed THEN Absent ELSE s])
    /\ edits' = edits + 1
    /\ UNCHANGED <<connected, device, up, missed, drops, failures>>

Drop ==
    /\ connected /\ drops < MAX_DROPS
    /\ connected' = FALSE
    /\ inbox' = <<>>
    /\ drops' = drops + 1
    /\ UNCHANGED <<desired, device, up, missed, edits, failures>>
-----------------------------------------------------------------------------
(* The sample. *)

\* (uint8_t)json_value_get_number(...), 0 for what is absent.
Converted(speed) == IF speed = Absent THEN 0 ELSE speed % 256

\* Mutant: only the first speed taken over, as the reminder is.
FirstOnly(speed) == speed # 0 /\ car.speed = 0

\* The speed is taken over and printed when it is neither 0 nor the old one.
Fresh(speed) == speed # 0 /\ speed # car.speed

\* car and monitor after the callback, with the reminder the car has then and
\* the one printed.
Settle(u, reminder, printed) ==
    LET speed == Converted(u.speed)
    IN  /\ car' = [reminder |-> reminder,
                   speed |-> IF Fresh(speed) THEN speed ELSE car.speed]
        /\ monitor' = [reminder |-> printed,
                       speed |-> IF Fresh(speed) THEN speed ELSE monitor.speed]

\* deviceTwinCallback for an update without a reminder, or one whose copy could
\* not be allocated.
NoReminder(u) == Settle(u, car.reminder, monitor.reminder) /\ UNCHANGED up

\* The first reminder is printed and copied, if there is memory.
FirstReminder(u, memory) ==
    /\ car.reminder = NULL
    /\ Settle(u, IF memory THEN u.reminder ELSE NULL, u.reminder)
    /\ UNCHANGED up

\* A later one is not stored.  The old one is freed if it differs, and stays in
\* the Car.
LaterReminder(u) ==
    /\ car.reminder \in Reminder
    /\ Settle(u, IF u.reminder = car.reminder THEN car.reminder ELSE FREED, monitor.reminder)
    /\ UNCHANGED up

\* The old one was freed already: its block now holds the new one, or is read
\* and may be freed again. What a second free does to other blocks of the heap is
\* left out, but for the crash it may bring.
AfterFreed(u) ==
    /\ car.reminder = FREED
    /\ \/ Settle(u, u.reminder, monitor.reminder) /\ UNCHANGED up
       \/ Settle(u, FREED, monitor.reminder) /\ up' \in BOOLEAN

Fail(memory) ==
    /\ memory \/ failures < MAX_FAILURES
    /\ failures' = IF memory THEN failures ELSE failures + 1

\* One round of DoWork that brings an update.
deviceTwinCallback ==
    /\ up /\ inbox # <<>>
    /\ inbox' = Tail(inbox)
    /\ LET u == Head(inbox)
       IN  \/ /\ missed' = (missed /\ u.state = "PARTIAL")
              /\ IF u.reminder = Absent THEN NoReminder(u) /\ Fail(TRUE)
                 ELSE \/ NoReminder(u) /\ Fail(FALSE)
                      \/ FirstReminder(u, FALSE) /\ Fail(FALSE)
                      \/ FirstReminder(u, TRUE) /\ Fail(TRUE)
                      \/ LaterReminder(u) /\ Fail(TRUE)
                      \/ AfterFreed(u) /\ Fail(TRUE)
           \/ Fail(FALSE) /\ missed' = TRUE /\ UNCHANGED <<device, up>>
    /\ UNCHANGED <<desired, connected, edits, drops>>

\* The program is started again after it came down.
Restart ==
    /\ ~up
    /\ up' = TRUE /\ connected' = FALSE /\ inbox' = <<>>
    /\ car' = NewCar /\ monitor' = Blank
    /\ missed' = FALSE
    /\ UNCHANGED <<desired, bounds>>

Next == Connect \/ Edit \/ Drop \/ deviceTwinCallback \/ Restart

Spec == Init /\ [][Next]_vars

\* DoWork is called for ever and tries to connect for ever, and the device
\* starts again after a panic.
FairSpec == Spec /\ WF_vars(Connect) /\ WF_vars(deviceTwinCallback) /\ WF_vars(Restart)
-----------------------------------------------------------------------------
(* Properties. *)

TypeOK ==
    /\ desired \in [reminder : Reminder \union {Absent}, speed : Speed \union {Absent}]
    /\ inbox \in Seq(Update) /\ (inbox # <<>> => connected)
    /\ connected \in BOOLEAN /\ up \in BOOLEAN /\ missed \in BOOLEAN
    /\ car \in [reminder : Reminder \union {NULL, FREED}, speed : 0..255]
    /\ monitor \in [reminder : Reminder \union {Absent}, speed : 1..255 \union {Absent}]
    /\ edits \in 0..MAX_EDITS /\ drops \in 0..MAX_DROPS /\ failures \in 0..MAX_FAILURES

\* Nothing is on its way.
Quiet == up /\ connected /\ inbox = <<>>

\* When nothing is on its way a speed that fits in a byte and is not 0 is the
\* car's and the last one printed, whatever patches and connections were lost
\* before, unless memory ran out since the last whole document.
SpeedMirrored ==
    Quiet /\ ~missed /\ desired.speed \in 1..255
        => car.speed = desired.speed /\ monitor.speed = desired.speed

\* The hub stops changing, the connection holds: the car gets the speed, for
\* good.
SpeedSettles ==
    <>[](~missed /\ desired.speed \in 1..255 => car.speed = desired.speed)
=============================================================================
