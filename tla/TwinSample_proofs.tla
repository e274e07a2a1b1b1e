-------------------------- MODULE TwinSample_proofs --------------------------
(***************************************************************************)
(* Theorems about module TwinSample, for every set of values and every     *)
(* number of changes, lost connections and failed allocations: the types,  *)
(* and the speed, which the car has or which is on its way and not         *)
(* overtaken (Follows).                                                    *)
(***************************************************************************)
EXTENDS TwinSample, TLAPS

\* The hub's speed is on its way, and no other after it.
Coming ==
    \E i \in 1..Len(inbox) :
        /\ inbox[i].speed = desired.speed
        /\ \A j \in 1..Len(inbox) : j > i => inbox[j].speed = Absent

\* No speed is on its way, and no whole document.
Nothing ==
    \A j \in 1..Len(inbox) : inbox[j].speed = Absent /\ inbox[j].state = "PARTIAL"

Has == missed \/ (car.speed = desired.speed /\ monitor.speed = desired.speed)

Follows == connected /\ up /\ desired.speed \in 1..255 => Coming \/ (Nothing /\ Has)

\* The whole document comes first.
WholeFirst == \A j \in 1..Len(inbox) : j > 1 => inbox[j].state = "PARTIAL"

\* What the car has was printed.
Printed == car.speed # 0 => monitor.speed = car.speed

IInv == TypeOK /\ WholeFirst /\ Printed /\ Follows

Document == [reminder : Reminder \union {Absent}, speed : Speed \union {Absent}]
CarType == [reminder : Reminder \union {NULL, FREED}, speed : 0..255]
MonitorType == [reminder : Reminder \union {Absent}, speed : 1..255 \union {Absent}]
-----------------------------------------------------------------------------
(* The callback. *)

\* The conversion yields a byte, and 0 for what is absent.
LEMMA ConvertedFacts ==
    ASSUME NEW speed \in Speed \union {Absent}
    PROVE /\ Converted(speed) \in 0..255
          /\ speed = Absent => Converted(speed) = 0
          /\ speed \in 1..255 => Converted(speed) = speed
<1>1. CASE speed = Absent
  BY <1>1, ValueAssumption DEF Converted
<1>2. CASE speed # Absent
  <2>1. speed \in Nat
    BY <1>2, ValueAssumption
  <2> QED BY <1>2, <2>1 DEF Converted
<1> QED BY <1>1, <1>2

\* What an update does to the speed, whatever becomes of the reminder.
LEMMA SettleFacts ==
    ASSUME TypeOK, Printed, NEW u \in Update,
           NEW reminder \in Reminder \union {NULL, FREED},
           NEW printed \in Reminder \union {Absent},
           Settle(u, reminder, printed)
    PROVE /\ car' \in CarType /\ monitor' \in MonitorType /\ Printed'
          /\ u.speed = Absent => car'.speed = car.speed /\ monitor'.speed = monitor.speed
          /\ u.speed \in 1..255 => car'.speed = u.speed /\ monitor'.speed = u.speed
<1> DEFINE speed == Converted(u.speed)
<1>1. /\ u.speed \in Speed \union {Absent}
      /\ car.speed \in 0..255 /\ monitor.speed \in 1..255 \union {Absent}
  BY DEF TypeOK, Update
<1>2. /\ speed \in 0..255
      /\ u.speed = Absent => speed = 0
      /\ u.speed \in 1..255 => speed = u.speed
  BY <1>1, ConvertedFacts
<1> HIDE DEF speed
<1>3. CASE Fresh(speed)
  <2>1. /\ car' = [reminder |-> reminder, speed |-> speed]
        /\ monitor' = [reminder |-> printed, speed |-> speed]
    BY <1>3 DEF Settle, speed
  <2>2. speed \in 1..255
    BY <1>2, <1>3 DEF Fresh
  <2>3. car' \in CarType /\ monitor' \in MonitorType
    BY <1>2, <2>1, <2>2 DEF CarType, MonitorType
  <2>4. car'.speed = speed /\ monitor'.speed = speed
    BY <2>1
  <2>5. Printed'
    BY <2>4 DEF Printed
  <2>6. u.speed # Absent
    BY <1>2, <2>2
  <2> QED BY <1>2, <2>3, <2>4, <2>5, <2>6
<1>4. CASE ~Fresh(speed)
  <2>1. /\ car' = [reminder |-> reminder, speed |-> car.speed]
        /\ monitor' = [reminder |-> printed, speed |-> monitor.speed]
    BY <1>4 DEF Settle, speed
  <2>2. car' \in CarType /\ monitor' \in MonitorType
    BY <1>1, <2>1 DEF CarType, MonitorType
  <2>3. car'.speed = car.speed /\ monitor'.speed = monitor.speed
    BY <2>1
  <2>4. Printed'
    BY <2>3 DEF Printed
  <2>5. u.speed \in 1..255 => car.speed = u.speed /\ car.speed # 0
    BY <1>2, <1>4 DEF Fresh
  <2>6. u.speed \in 1..255 => monitor.speed = u.speed
    BY <2>5 DEF Printed
  <2> QED BY <2>2, <2>3, <2>4, <2>5, <2>6
<1> QED BY <1>3, <1>4

\* What the callback does, for every update and every outcome.
LEMMA CallbackFacts ==
    ASSUME TypeOK, Printed, deviceTwinCallback
    PROVE LET u == Head(inbox) IN
          /\ inbox # <<>> /\ inbox' = Tail(inbox) /\ u \in Update
          /\ UNCHANGED <<desired, connected, edits, drops>>
          /\ failures' \in 0..MAX_FAILURES
          /\ up' \in BOOLEAN /\ missed' \in BOOLEAN
          /\ car' \in CarType /\ monitor' \in MonitorType /\ Printed'
          /\ u.speed = Absent => car'.speed = car.speed /\ monitor'.speed = monitor.speed
          /\ \/ missed'
             \/ u.speed \in 1..255 => car'.speed = u.speed /\ monitor'.speed = u.speed
          /\ u.state = "PARTIAL" /\ missed => missed'
<1> DEFINE u == Head(inbox)
<1>1. inbox # <<>> /\ inbox' = Tail(inbox) /\ UNCHANGED <<desired, connected, edits, drops>>
  BY DEF deviceTwinCallback
<1>2. u \in Update
  BY <1>1 DEF TypeOK
<1>3. u.reminder \in Reminder \union {Absent}
  BY <1>2 DEF Update
<1>4. failures' \in 0..MAX_FAILURES
  <2>1. \E memory \in BOOLEAN : Fail(memory)
    BY DEF deviceTwinCallback
  <2>2. failures' = failures \/ (failures < MAX_FAILURES /\ failures' = failures + 1)
    BY <2>1 DEF Fail
  <2> QED BY <2>2, BoundAssumption DEF TypeOK
<1>5. car \in CarType /\ monitor \in MonitorType /\ up \in BOOLEAN /\ missed \in BOOLEAN
  BY DEF TypeOK, CarType, MonitorType
<1>6. car.reminder \in Reminder \union {NULL, FREED} /\ monitor.reminder \in Reminder \union {Absent}
  BY <1>5 DEF CarType, MonitorType
<1> HIDE DEF u
<1>7. CASE missed' = TRUE /\ UNCHANGED <<device, up>>
  <2>1. car' = car /\ monitor' = monitor /\ up' = up /\ missed'
    BY <1>7 DEF device
  <2>2. Printed'
    BY <2>1 DEF Printed
  <2> QED BY <1>1, <1>2, <1>4, <1>5, <1>7, <2>1, <2>2 DEF u
<1>8. CASE /\ missed' = (missed /\ u.state = "PARTIAL")
           /\ up' \in BOOLEAN
           /\ \E reminder \in Reminder \union {NULL, FREED}, printed \in Reminder \union {Absent} :
                 Settle(u, reminder, printed)
  <2>1. PICK reminder \in Reminder \union {NULL, FREED}, printed \in Reminder \union {Absent} :
            Settle(u, reminder, printed)
    BY <1>8
  <2>2. missed' \in BOOLEAN /\ (u.state = "PARTIAL" /\ missed => missed')
    BY <1>5, <1>8
  <2>3. /\ car' \in CarType /\ monitor' \in MonitorType /\ Printed'
        /\ u.speed = Absent => car'.speed = car.speed /\ monitor'.speed = monitor.speed
        /\ u.speed \in 1..255 => car'.speed = u.speed /\ monitor'.speed = u.speed
    BY <1>2, <2>1, SettleFacts
  <2> QED BY <1>1, <1>2, <1>4, <1>8, <2>2, <2>3 DEF u
<1>9. ASSUME ~(missed' = TRUE /\ UNCHANGED <<device, up>>)
      PROVE /\ missed' = (missed /\ u.state = "PARTIAL")
            /\ \/ NoReminder(u)
               \/ u.reminder # Absent /\ (FirstReminder(u, FALSE) \/ FirstReminder(u, TRUE))
               \/ u.reminder # Absent /\ LaterReminder(u)
               \/ u.reminder # Absent /\ AfterFreed(u)
  BY <1>9 DEF deviceTwinCallback, u
<1>10. CASE ~(missed' = TRUE /\ UNCHANGED <<device, up>>)
  <2>1. CASE NoReminder(u)
    BY <1>5, <1>6, <1>8, <1>9, <1>10, <2>1 DEF NoReminder
  <2>2. CASE u.reminder # Absent /\ (FirstReminder(u, FALSE) \/ FirstReminder(u, TRUE))
    <3>1. u.reminder \in Reminder
      BY <1>3, <2>2
    <3>2. \E r \in Reminder \union {NULL, FREED} : Settle(u, r, u.reminder)
      BY <2>2, <3>1 DEF FirstReminder
    <3> QED BY <1>5, <1>8, <1>9, <1>10, <2>2, <3>1, <3>2 DEF FirstReminder
  <2>3. CASE u.reminder # Absent /\ LaterReminder(u)
    <3>1. \E r \in Reminder \union {NULL, FREED} : Settle(u, r, monitor.reminder)
      BY <2>3 DEF LaterReminder
    <3> QED BY <1>5, <1>6, <1>8, <1>9, <1>10, <2>3, <3>1 DEF LaterReminder
  <2>4. CASE u.reminder # Absent /\ AfterFreed(u)
    <3>1. u.reminder \in Reminder
      BY <1>3, <2>4
    <3>2. /\ \E r \in Reminder \union {NULL, FREED} : Settle(u, r, monitor.reminder)
          /\ up' \in BOOLEAN
      BY <1>5, <2>4, <3>1 DEF AfterFreed
    <3> QED BY <1>6, <1>8, <1>9, <1>10, <3>2
  <2> QED BY <1>9, <1>10, <2>1, <2>2, <2>3, <2>4
<1> QED BY <1>7, <1>10
-----------------------------------------------------------------------------
(* Types. *)

LEMMA InitInv == Init => IInv
<1> SUFFICES ASSUME Init PROVE IInv
  OBVIOUS
<1>1. car \in CarType /\ monitor \in MonitorType
  BY DEF Init, NewCar, Blank, CarType, MonitorType
<1>2. TypeOK
  <2>1. inbox \in Seq(Update) /\ (inbox # <<>> => connected)
    BY DEF Init
  <2>2. connected \in BOOLEAN /\ up \in BOOLEAN /\ missed \in BOOLEAN
    BY DEF Init
  <2>3. edits \in 0..MAX_EDITS /\ drops \in 0..MAX_DROPS /\ failures \in 0..MAX_FAILURES
    BY BoundAssumption DEF Init
  <2>4. desired \in [reminder : Reminder \union {Absent}, speed : Speed \union {Absent}]
    BY DEF Init
  <2> QED BY <1>1, <2>1, <2>2, <2>3, <2>4 DEF TypeOK, CarType, MonitorType
<1>3. Len(inbox) = 0
  BY DEF Init
<1>4. car.speed = 0
  BY DEF Init, NewCar
<1>5. WholeFirst /\ Printed
  BY <1>3, <1>4 DEF WholeFirst, Printed
<1>6. Follows
  BY DEF Init, Follows
<1> QED BY <1>2, <1>5, <1>6 DEF IInv

\* A change appends what is new of it when the device is connected.
LEMMA EditFacts ==
    ASSUME TypeOK, Edit
    PROVE /\ inbox' = inbox \/ \E u \in Update : u.state = "PARTIAL" /\ inbox' = Append(inbox, u)
          /\ connected =>
                \E u \in Update :
                    /\ u.state = "PARTIAL" /\ inbox' = Append(inbox, u)
                    /\ \/ u.speed = desired'.speed /\ desired'.speed # desired.speed
                       \/ u.speed = Absent /\ desired'.speed = desired.speed
<1>1. PICK r \in Reminder \union {Absent}, s \in Speed \union {Absent} :
        /\ desired' = [reminder |-> r, speed |-> s]
        /\ inbox' = IF ~connected THEN inbox
                    ELSE Append(inbox,
                        [state |-> "PARTIAL",
                         reminder |-> IF r = desired.reminder THEN Absent ELSE r,
                         speed |-> IF s = desired.speed THEN Absent ELSE s])
  BY DEF Edit
<1> DEFINE u == [state |-> "PARTIAL",
                 reminder |-> IF r = desired.reminder THEN Absent ELSE r,
                 speed |-> IF s = desired.speed THEN Absent ELSE s]
<1>2. u \in Update /\ u.state = "PARTIAL" /\ u.speed = IF s = desired.speed THEN Absent ELSE s
  BY DEF Update
<1>3. desired'.speed = s
  BY <1>1
<1>4. connected => inbox' = Append(inbox, u)
  BY <1>1
<1>5. ~connected => inbox' = inbox
  BY <1>1
<1> HIDE DEF u
<1> QED BY <1>2, <1>3, <1>4, <1>5 DEF TypeOK

LEMMA TypeStep == TypeOK /\ Printed /\ [Next]_vars => TypeOK' /\ Printed'
<1> SUFFICES ASSUME TypeOK, Printed, [Next]_vars PROVE TypeOK' /\ Printed'
  OBVIOUS
<1>1. CASE Connect
  <2> DEFINE u == [state |-> "COMPLETE", reminder |-> desired.reminder, speed |-> desired.speed]
  <2>1. u \in Update
    BY DEF TypeOK, Update
  <2>2. inbox' = <<u>>
    BY <1>1 DEF Connect
  <2> HIDE DEF u
  <2>3. inbox' \in Seq(Update)
    BY <2>1, <2>2
  <2> QED BY <1>1, <2>3 DEF Connect, TypeOK, Printed, device, bounds
<1>2. CASE Edit
  <2>1. desired' \in Document
    BY <1>2 DEF Edit, Document
  <2>2. inbox' = inbox \/ (connected /\ \E u \in Update : inbox' = Append(inbox, u))
    <3>1. ~connected => inbox' = inbox
      BY <1>2 DEF Edit
    <3> QED BY <1>2, <3>1, EditFacts DEF TypeOK
  <2>3. inbox' \in Seq(Update) /\ (inbox' # <<>> => connected)
    BY <2>2 DEF TypeOK
  <2>4. edits' \in 0..MAX_EDITS
    BY <1>2, BoundAssumption DEF Edit, TypeOK
  <2> QED BY <1>2, <2>1, <2>3, <2>4 DEF Edit, TypeOK, Document, Printed, device
<1>3. CASE Drop
  <2>1. inbox' = <<>> /\ inbox' \in Seq(Update)
    BY <1>3 DEF Drop
  <2>3. connected' \in BOOLEAN
    BY <1>3 DEF Drop
  <2>2. drops' \in 0..MAX_DROPS
    BY <1>3, BoundAssumption DEF Drop, TypeOK
  <2> QED BY <1>3, <2>1, <2>2, <2>3 DEF Drop, TypeOK, Printed, device
<1>4. CASE deviceTwinCallback
  <2>1. /\ inbox # <<>> /\ inbox' = Tail(inbox)
        /\ UNCHANGED <<desired, connected, edits, drops>>
        /\ failures' \in 0..MAX_FAILURES /\ up' \in BOOLEAN /\ missed' \in BOOLEAN
        /\ car' \in CarType /\ monitor' \in MonitorType /\ Printed'
    BY <1>4, CallbackFacts
  <2>2. inbox' \in Seq(Update) /\ connected
    BY <2>1 DEF TypeOK
  <2> QED BY <2>1, <2>2 DEF TypeOK, CarType, MonitorType
<1>5. CASE Restart
  <2>1. car' \in CarType /\ monitor' \in MonitorType /\ car'.speed = 0
    BY <1>5 DEF Restart, NewCar, Blank, CarType, MonitorType
  <2>2. inbox' = <<>> /\ inbox' \in Seq(Update)
    BY <1>5 DEF Restart
  <2>4. connected' \in BOOLEAN /\ up' \in BOOLEAN /\ missed' \in BOOLEAN
    BY <1>5 DEF Restart
  <2>3. Printed'
    BY <2>1 DEF Printed
  <2> QED BY <1>5, <2>1, <2>2, <2>3, <2>4 DEF Restart, TypeOK, CarType, MonitorType, bounds
<1>6. CASE UNCHANGED vars
  BY <1>6 DEF vars, device, bounds, TypeOK, Printed
<1> QED BY <1>1, <1>2, <1>3, <1>4, <1>5, <1>6 DEF Next
-----------------------------------------------------------------------------
(* The speed. *)

\* Only a new connection puts a whole document on its way, and first.
LEMMA WholeStep == TypeOK /\ Printed /\ WholeFirst /\ [Next]_vars => WholeFirst'
<1> SUFFICES ASSUME TypeOK, Printed, WholeFirst, [Next]_vars PROVE WholeFirst'
  OBVIOUS
<1>1. CASE Connect
  <2>1. Len(inbox') = 1
    BY <1>1 DEF Connect
  <2> QED BY <2>1 DEF WholeFirst
<1>2. CASE Edit
  <2>1. inbox' = inbox \/ \E u \in Update : u.state = "PARTIAL" /\ inbox' = Append(inbox, u)
    BY <1>2, EditFacts
  <2>2. CASE inbox' = inbox BY <2>2 DEF WholeFirst
  <2>3. ASSUME NEW u \in Update, u.state = "PARTIAL", inbox' = Append(inbox, u)
        PROVE WholeFirst'
    BY <2>3 DEF WholeFirst, TypeOK
  <2> QED BY <2>1, <2>2, <2>3
<1>3. CASE Drop \/ Restart
  <2>1. Len(inbox') = 0
    BY <1>3 DEF Drop, Restart
  <2> QED BY <2>1 DEF WholeFirst
<1>4. CASE deviceTwinCallback
  <2>1. inbox # <<>> /\ inbox' = Tail(inbox) /\ inbox \in Seq(Update)
    BY <1>4, CallbackFacts DEF TypeOK
  <2> QED BY <2>1 DEF WholeFirst
<1>5. CASE UNCHANGED vars
  BY <1>5 DEF vars, WholeFirst
<1> QED BY <1>1, <1>2, <1>3, <1>4, <1>5 DEF Next

\* A change of the desired properties is on its way behind everything else.
LEMMA EditFollows ==
    ASSUME TypeOK, Follows, Edit
    PROVE Follows'
<1> SUFFICES ASSUME connected', up', desired'.speed \in 1..255
             PROVE Coming' \/ (Nothing' /\ Has')
  BY DEF Follows
<1>1. connected /\ up /\ inbox \in Seq(Update) /\ UNCHANGED <<car, monitor, missed>>
  BY DEF Edit, TypeOK, device
<1>2. desired'.speed # Absent
  BY ValueAssumption
<1>3. PICK u \in Update :
        /\ u.state = "PARTIAL" /\ inbox' = Append(inbox, u)
        /\ \/ u.speed = desired'.speed /\ desired'.speed # desired.speed
           \/ u.speed = Absent /\ desired'.speed = desired.speed
  BY <1>1, EditFacts
<1>4. /\ Len(inbox') = Len(inbox) + 1 /\ inbox'[Len(inbox) + 1] = u
      /\ \A j \in 1..Len(inbox) : inbox'[j] = inbox[j]
      /\ Len(inbox) \in Nat
  BY <1>1, <1>3
<1>5. CASE u.speed = desired'.speed
  <2>1. Len(inbox) + 1 \in 1..Len(inbox')
    BY <1>4
  <2> QED BY <1>4, <1>5, <2>1 DEF Coming
<1>6. CASE u.speed = Absent /\ desired'.speed = desired.speed
  <2>1. Coming \/ (Nothing /\ Has)
    BY <1>1, <1>6 DEF Follows
  <2>2. CASE Coming
    <3>1. PICK i \in 1..Len(inbox) :
            /\ inbox[i].speed = desired.speed
            /\ \A j \in 1..Len(inbox) : j > i => inbox[j].speed = Absent
      BY <2>2 DEF Coming
    <3>2. i \in 1..Len(inbox') /\ inbox'[i].speed = desired'.speed
      BY <1>4, <1>6, <3>1
    <3>3. \A j \in 1..Len(inbox') : j > i => inbox'[j].speed = Absent
      BY <1>4, <1>6, <3>1
    <3> QED BY <3>2, <3>3 DEF Coming
  <2>3. CASE Nothing /\ Has
    <3>1. Nothing'
      BY <1>3, <1>4, <1>6, <2>3 DEF Nothing
    <3>2. Has'
      BY <1>1, <1>6, <2>3 DEF Has
    <3> QED BY <3>1, <3>2
  <2> QED BY <2>1, <2>2, <2>3
<1> QED BY <1>2, <1>3, <1>5, <1>6

\* An update that is handled was the speed on its way, or the speed still is.
LEMMA CallbackFollows ==
    ASSUME TypeOK, WholeFirst, Printed, Follows, deviceTwinCallback
    PROVE Follows'
<1> SUFFICES ASSUME connected', up', desired'.speed \in 1..255
             PROVE Coming' \/ (Nothing' /\ Has')
  BY DEF Follows
<1> DEFINE u == Head(inbox)
<1>1. /\ inbox # <<>> /\ inbox' = Tail(inbox) /\ u \in Update
      /\ desired' = desired /\ connected' = connected
      /\ u.speed = Absent => car'.speed = car.speed /\ monitor'.speed = monitor.speed
      /\ \/ missed'
         \/ u.speed \in 1..255 => car'.speed = u.speed /\ monitor'.speed = u.speed
      /\ u.state = "PARTIAL" /\ missed => missed'
  BY CallbackFacts
<1>2. up
  BY DEF deviceTwinCallback
<1>3. desired.speed \in 1..255 /\ inbox \in Seq(Update)
  BY <1>1 DEF TypeOK
<1>4. Coming \/ (Nothing /\ Has)
  BY <1>1, <1>2, <1>3 DEF Follows
<1>5. /\ Len(inbox) \in Nat /\ Len(inbox) >= 1 /\ Len(inbox') = Len(inbox) - 1
      /\ u = inbox[1]
      /\ \A j \in 1..Len(inbox') : inbox'[j] = inbox[j + 1]
  BY <1>1, <1>3
<1> HIDE DEF u
<1>6. CASE Coming
  <2>1. PICK i \in 1..Len(inbox) :
          /\ inbox[i].speed = desired.speed
          /\ \A j \in 1..Len(inbox) : j > i => inbox[j].speed = Absent
    BY <1>6 DEF Coming
  <2>2. CASE i = 1
    <3>1. \A j \in 1..Len(inbox') : inbox'[j].speed = Absent /\ inbox'[j].state = "PARTIAL"
      BY <1>5, <2>1, <2>2 DEF WholeFirst
    <3>2. Nothing'
      BY <3>1 DEF Nothing
    <3>3. Has'
      BY <1>1, <1>3, <1>5, <2>1, <2>2 DEF Has
    <3> QED BY <3>2, <3>3
  <2>3. CASE i # 1
    <3>1. i - 1 \in 1..Len(inbox') /\ inbox'[i - 1].speed = desired'.speed
      BY <1>1, <1>5, <2>1, <2>3
    <3>2. \A j \in 1..Len(inbox') : j > i - 1 => inbox'[j].speed = Absent
      BY <1>5, <2>1
    <3> QED BY <3>1, <3>2 DEF Coming
  <2> QED BY <2>2, <2>3
<1>7. CASE Nothing /\ Has
  <2>1. u.speed = Absent /\ u.state = "PARTIAL"
    BY <1>5, <1>7 DEF Nothing
  <2>2. Nothing'
    BY <1>5, <1>7 DEF Nothing
  <2>3. Has'
    BY <1>1, <1>7, <2>1 DEF Has
  <2> QED BY <2>2, <2>3
<1> QED BY <1>4, <1>6, <1>7

LEMMA FollowsStep == IInv /\ [Next]_vars => Follows'
<1> SUFFICES ASSUME IInv, [Next]_vars PROVE Follows'
  OBVIOUS
<1>1. TypeOK /\ WholeFirst /\ Printed /\ Follows
  BY DEF IInv
<1>2. CASE Connect
  <2>1. /\ Len(inbox') = 1 /\ inbox'[1].speed = desired.speed /\ desired' = desired
    BY <1>2 DEF Connect
  <2>2. 1 \in 1..Len(inbox') /\ \A j \in 1..Len(inbox') : ~(j > 1)
    BY <2>1
  <2>3. Coming'
    BY <2>1, <2>2 DEF Coming
  <2> QED BY <2>3 DEF Follows
<1>3. Edit => Follows'
  BY <1>1, EditFollows
<1>4. CASE Drop \/ Restart
  BY <1>4 DEF Drop, Restart, Follows
<1>5. deviceTwinCallback => Follows'
  BY <1>1, CallbackFollows
<1>6. CASE UNCHANGED vars
  BY <1>1, <1>6 DEF vars, device, Follows, Coming, Nothing, Has
<1> QED BY <1>2, <1>3, <1>4, <1>5, <1>6 DEF Next
-----------------------------------------------------------------------------
(* The theorems. *)

LEMMA TwinInvariant == Spec => []IInv
<1>1. IInv /\ [Next]_vars => IInv'
  BY TypeStep, WholeStep, FollowsStep DEF IInv
<1> QED BY <1>1, InitInv, PTL DEF Spec

\* Every variable keeps its type: the car's speed is a byte.
THEOREM TypeCorrect == Spec => []TypeOK
BY TwinInvariant, PTL DEF IInv

\* When nothing is on its way the car has the hub's speed and printed it.
THEOREM SpeedMirroredAlways == Spec => []SpeedMirrored
<1>1. IInv => SpeedMirrored
  <2> SUFFICES ASSUME IInv, Quiet, ~missed, desired.speed \in 1..255
               PROVE car.speed = desired.speed /\ monitor.speed = desired.speed
    BY DEF SpeedMirrored
  <2>1. Coming \/ (Nothing /\ Has)
    BY DEF IInv, Follows, Quiet
  <2>2. ~Coming
    BY DEF Coming, Quiet
  <2> QED BY <2>1, <2>2 DEF Has
<1> QED BY <1>1, TwinInvariant, PTL
=============================================================================
