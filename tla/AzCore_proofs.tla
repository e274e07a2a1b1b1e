---------------------------- MODULE AzCore_proofs ----------------------------
(* The proofs about AzCore: its types, and that the configuration agrees     *)
(* with the desired properties as of the last update received.               *)
EXTENDS AzCore, TLAPS

IInv == TypeOK /\ TwinInvariant

USE DelayAssumption, SpeedAssumption, ChangesAssumption

-----------------------------------------------------------------------------
\* The actions that touch neither the configuration nor the twin.
Other ==
    \/ StationConnects
    \/ StationGotIp
    \/ TaskStarts
    \/ SntpSetsClock
    \/ ObtainTime
    \/ Initialize
    \/ CallReturns
    \/ Turn
    \/ Second

\* A settings record taken by the device is of the right type.
LEMMA TakenIsTyped ==
    ASSUME TypeOK, NEW p \in Properties
    PROVE  TakeNonZero(ParseFromJson(p))
              \in [delay : 1..(Horizon - 1), speed : 0..255, motor : {"ON", "OFF"}]
<1>1. p.delay \in Delays \union {0} /\ p.speed \in Speeds \union {0}
  BY DEF Properties
<1>2. p.delay \in Nat /\ (p.delay # 0 => p.delay \in 1..(Horizon - 1))
  BY <1>1
<1>3. p.speed % 256 \in 0..255
  <2>1. p.speed \in Nat
    <3>1. CASE p.speed = 0
      BY <3>1
    <3>2. CASE p.speed \in Speeds
      BY <3>2, SpeedAssumption
    <3> QED BY <1>1, <3>1, <3>2
  <2> QED BY <2>1
<1>4. NonZero(p.delay, configuration.delay) \in 1..(Horizon - 1)
  BY <1>2 DEF NonZero, TypeOK
<1>5. NonZero(p.speed % 256, configuration.speed) \in 0..255
  BY <1>3 DEF NonZero, TypeOK
<1>6. ParseFromJson(p).delay = p.delay /\ ParseFromJson(p).speed = p.speed % 256
  BY DEF ParseFromJson
<1> QED BY <1>4, <1>5, <1>6 DEF TypeOK, TakeNonZero

\* An empty queue of updates is one.
LEMMA EmptyIsTyped == <<>> \in Seq(Updates)
OBVIOUS

\* The initial states satisfy the invariant.
LEMMA InitHolds == Init => IInv
<1> SUFFICES ASSUME Init PROVE TypeOK /\ TwinInvariant
  BY DEF IInv
<1>1. TypeOK
  <2>1. configuration \in [delay : 1..(Horizon - 1), speed : 0..255, motor : {"ON", "OFF"}]
    BY DEF Init
  <2>2. seen \in Properties /\ desired \in Properties
    BY DocumentsAssumption DEF Init, Nothing, Properties
  <2>3. updates \in Seq(Updates)
    BY EmptyIsTyped DEF Init
  <2>4. elapsed \in 0..Horizon /\ changes \in 0..MaxChanges
    BY DEF Init
  <2> QED BY <2>1, <2>2, <2>3, <2>4 DEF Init, TypeOK
<1>2. TwinInvariant
  BY DEF Init, TwinInvariant, TwinIsApplied, UpdatesLeadOn, UpdatesLeadToHub, Agrees,
     ParseFromJson, Nothing, Fields
<1> QED BY <1>1, <1>2

\* What touches neither the configuration nor the twin keeps it.
LEMMA OtherHolds == IInv /\ Other => IInv'
<1> SUFFICES ASSUME IInv, Other PROVE TypeOK' /\ TwinInvariant'
  BY DEF IInv
<1>1. UNCHANGED <<configuration, online, hub, twin>>
  BY DEF Other, StationConnects, StationGotIp, TaskStarts, SntpSetsClock, ObtainTime,
     Initialize, InitializeFails, InitializeNoClient, InitializeConnects, CallReturns,
     ConnectReturns, ReportReturns, SendReturns, TickReturns, Turn, Second
<1>2. TwinInvariant'
  BY <1>1 DEF IInv, TwinInvariant, TwinIsApplied, UpdatesLeadOn, UpdatesLeadToHub, Agrees,
     Before, hub, twin
<1>3. TypeOK'
  <2> USE <1>1 DEF IInv, TypeOK, hub, twin, task, wifi
  <2>1. CASE StationConnects
    <3>1. CONNECTED_BIT' \in BOOLEAN
      BY <2>1 DEF StationConnects
    <3>2. station' = "down" /\ UNCHANGED <<clock, task>>
      BY <2>1 DEF StationConnects
    <3> QED BY <3>1, <3>2
  <2>2. CASE StationGotIp
    <3>1. pc' \in {pc, "clock"}
      BY <2>2 DEF StationGotIp, Wake
    <3>2. station' = "up" /\ CONNECTED_BIT' = TRUE /\ UNCHANGED <<clock, client, elapsed>>
      BY <2>2 DEF StationGotIp
    <3> QED BY <3>1, <3>2
  <2>3. CASE SntpSetsClock
    BY <2>3 DEF SntpSetsClock
  <2>4. CASE TaskStarts \/ ObtainTime
    BY <2>4 DEF TaskStarts, ObtainTime
  <2>5. CASE Initialize
    BY <2>5 DEF Initialize, InitializeFails, InitializeNoClient, InitializeConnects,
       Initialized
  <2>6. CASE Turn
    BY <2>6 DEF Turn
  <2>7. CASE ConnectReturns \/ ReportReturns \/ TickReturns
    BY <2>7 DEF ConnectReturns, Initialized, ReportReturns, TickReturns, TimeGoesOn
  <2>8. CASE SendReturns
    <3>1. elapsed' \in 0..Horizon
      BY <2>8 DEF SendReturns, TimeOfReturn
    <3>2. pc' = "loop" /\ UNCHANGED <<wifi, client>>
      BY <2>8 DEF SendReturns
    <3> QED BY <3>1, <3>2
  <2>9. CASE Second
    BY <2>9 DEF Second
  <2> QED
    BY <2>1, <2>2, <2>3, <2>4, <2>5, <2>6, <2>7, <2>8, <2>9 DEF Other, CallReturns
<1> QED BY <1>2, <1>3

\* A connection keeps it: the complete update is the only one on the way.
LEMMA ConnectHolds == IInv /\ Connect => IInv'
<1> SUFFICES ASSUME IInv, Connect PROVE TypeOK' /\ TwinInvariant'
  BY DEF IInv
<1> DEFINE u == [state |-> "COMPLETE", settings |-> desired, as_of |-> desired]
<1>1. updates' = <<u>> /\ u \in Updates /\ online' = TRUE
  BY DEF Connect, Updates, IInv, TypeOK
<1>2. UNCHANGED <<wifi, task, configuration, desired, changes, seen, missed>>
  BY DEF Connect, hub
<1>3. TypeOK'
  BY <1>1, <1>2 DEF IInv, TypeOK, wifi, task
<1>4. TwinIsApplied'
  BY <1>2 DEF IInv, TwinInvariant, TwinIsApplied, Agrees
<1>5. UpdatesLeadOn' /\ UpdatesLeadToHub'
  BY <1>1, <1>2 DEF UpdatesLeadOn, UpdatesLeadToHub
<1> QED BY <1>3, <1>4, <1>5 DEF TwinInvariant

\* A lost connection keeps it: nothing is on the way any more.
LEMMA DisconnectHolds == IInv /\ (Disconnect \/ LoseClient) => IInv'
<1> SUFFICES ASSUME IInv, Disconnect \/ LoseClient PROVE TypeOK' /\ TwinInvariant'
  BY DEF IInv
<1>1. /\ updates' = <<>> /\ online' = FALSE /\ client' \in BOOLEAN
      /\ UNCHANGED <<wifi, pc, elapsed, configuration, desired, changes, seen, missed>>
  BY DEF Disconnect, LoseClient, hub, task, IInv, TypeOK
<1>2. TypeOK'
  BY <1>1, EmptyIsTyped DEF IInv, TypeOK, wifi
<1>3. TwinIsApplied'
  BY <1>1 DEF IInv, TwinInvariant, TwinIsApplied, Agrees
<1>4. UpdatesLeadOn' /\ UpdatesLeadToHub'
  BY <1>1 DEF UpdatesLeadOn, UpdatesLeadToHub
<1> QED BY <1>2, <1>3, <1>4 DEF TwinInvariant

\* A change at the hub keeps it: its update leads from the last one to the new desired
\* properties.
LEMMA ChangeHolds == IInv /\ (\E new \in Documents : ChangeDesired(new)) => IInv'
<1> SUFFICES ASSUME IInv, NEW new \in Documents, ChangeDesired(new)
             PROVE TypeOK' /\ TwinInvariant'
  BY DEF IInv
<1>0. new \in Properties
  BY DocumentsAssumption
<1> DEFINE u == [state |-> "PARTIAL", settings |-> Changed(new), as_of |-> new]
<1>1. /\ desired' = new /\ changes < MaxChanges /\ changes' = changes + 1
      /\ updates' = IF online THEN Append(updates, u) ELSE updates
      /\ UNCHANGED <<wifi, task, configuration, online, seen, missed>>
  BY DEF ChangeDesired
<1>2. u \in Updates
  <2>1. Changed(new) \in Properties
    BY <1>0 DEF Changed, Fields, Properties, IInv, TypeOK
  <2> QED BY <1>0, <2>1 DEF Updates
<1>3. TypeOK'
  BY <1>0, <1>1, <1>2 DEF IInv, TypeOK, wifi, task
<1>4. TwinIsApplied'
  BY <1>1 DEF IInv, TwinInvariant, TwinIsApplied, Agrees
<1>5. CASE ~online
  BY <1>1, <1>3, <1>4, <1>5
     DEF IInv, TwinInvariant, UpdatesLeadOn, UpdatesLeadToHub, Before
<1>6. CASE online
  <2>0. PICK n \in Nat : n = Len(updates)
    BY DEF IInv, TypeOK
  <2>1. /\ n \in Nat /\ Len(updates') = n + 1 /\ updates'[n + 1] = u
        /\ \A i \in 1..n : updates'[i] = updates[i]
    BY <1>1, <1>2, <1>6, <2>0 DEF IInv, TypeOK
  <2>2. \A i \in 1..n : Before(i)' = Before(i)
    BY <1>1, <2>1 DEF Before
  <2>3. Before(n + 1)' = desired
    <3>1. desired = IF updates = <<>> THEN seen ELSE updates[n].as_of
      BY <1>6, <2>0 DEF IInv, TwinInvariant, UpdatesLeadToHub
    <3>2. seen' = seen
      BY <1>1
    <3>3. CASE n = 0
      <4>1. updates = <<>>
        <5>1. updates \in Seq(Updates) /\ Len(updates) = 0
          BY <2>0, <3>3 DEF IInv, TypeOK
        <5> QED BY <5>1
      <4> QED BY <3>1, <3>2, <3>3, <4>1 DEF Before
    <3>4. CASE n # 0
      <4>1. updates # <<>> /\ updates'[n] = updates[n]
        BY <2>0, <2>1, <3>4
      <4>2. n + 1 # 1 /\ (n + 1) - 1 = n
        BY <2>1, <3>4
      <4> QED BY <3>1, <4>1, <4>2 DEF Before
    <3> QED BY <3>3, <3>4
  <2>4. ASSUME NEW f \in Fields
        PROVE /\ u.settings[f] = 0 \/ u.settings[f] = new[f]
              /\ new[f] # 0 /\ u.settings[f] = 0 => desired[f] = new[f]
    BY DEF Changed
  <2>5. UpdatesLeadOn'
    <3>1. ASSUME NEW i \in 1..(n + 1)
          PROVE  IF updates'[i].state = "COMPLETE"
                 THEN updates'[i].settings = updates'[i].as_of
                 ELSE \A f \in Fields : \/ updates'[i].settings[f] = 0
                                        \/ updates'[i].settings[f] = updates'[i].as_of[f]
      <4>1. CASE i = n + 1
        BY <2>1, <2>4, <4>1
      <4>2. CASE i \in 1..n
        BY <2>0, <2>1, <4>2 DEF IInv, TwinInvariant, UpdatesLeadOn
      <4> QED BY <2>1, <4>1, <4>2
    <3>2. ASSUME NEW i \in 1..(n + 1), updates'[i].state = "PARTIAL", NEW f \in Fields,
                 updates'[i].as_of[f] # 0, updates'[i].settings[f] = 0
          PROVE  (Before(i)')[f] = updates'[i].as_of[f]
      <4>1. CASE i = n + 1
        <5>1. updates'[i] = u /\ u.as_of = new
          BY <2>1, <4>1
        <5>2. desired[f] = new[f]
          BY <2>4, <3>2, <5>1
        <5>3. Before(i)' = desired
          BY <2>3, <4>1
        <5> QED BY <5>1, <5>2, <5>3
      <4>2. CASE i \in 1..n
        BY <2>0, <2>1, <2>2, <3>2, <4>2 DEF IInv, TwinInvariant, UpdatesLeadOn
      <4> QED BY <2>1, <4>1, <4>2
    <3> QED BY <2>1, <3>1, <3>2 DEF UpdatesLeadOn
  <2>6. UpdatesLeadToHub'
    BY <1>1, <1>6, <2>1 DEF UpdatesLeadToHub
  <2> QED BY <1>3, <1>4, <2>5, <2>6 DEF TwinInvariant
<1> QED BY <1>5, <1>6

\* An update received keeps it: what it does not name was right before.
LEMMA TwinHolds == IInv /\ (\E parsed \in BOOLEAN : deviceTwinCallback(parsed)) => IInv'
<1> SUFFICES ASSUME IInv, NEW parsed \in BOOLEAN, deviceTwinCallback(parsed)
             PROVE TypeOK' /\ TwinInvariant'
  BY DEF IInv
<1> DEFINE u == Head(updates)
           n == Len(updates)
<1>1. /\ updates # <<>> /\ updates' = Tail(updates) /\ seen' = u.as_of
      /\ missed' = (~parsed \/ (missed /\ u.state = "PARTIAL"))
      /\ configuration' = IF parsed THEN TakeNonZero(ParseFromJson(u.settings))
                          ELSE configuration
      /\ UNCHANGED <<wifi, task, online, hub>>
  BY DEF deviceTwinCallback, Settings
<1>2. /\ n \in Nat \ {0} /\ u = updates[1] /\ u \in Updates
      /\ Len(updates') = n - 1 /\ updates' \in Seq(Updates)
      /\ \A i \in 1..(n - 1) : updates'[i] = updates[i + 1]
  BY <1>1 DEF IInv, TypeOK
<1>3. u.settings \in Properties /\ u.as_of \in Properties /\ u.state \in {"COMPLETE", "PARTIAL"}
  BY <1>2 DEF Updates
<1>4. TypeOK'
  <2>1. configuration' \in [delay : 1..(Horizon - 1), speed : 0..255, motor : {"ON", "OFF"}]
    BY <1>1, <1>3, TakenIsTyped DEF IInv, TypeOK
  <2>2. missed' \in BOOLEAN
    BY <1>1 DEF IInv, TypeOK
  <2> QED BY <1>1, <1>2, <1>3, <2>1, <2>2 DEF IInv, TypeOK, wifi, task, hub
<1>5. TwinIsApplied'
  <2> SUFFICES ASSUME ~missed', NEW f \in Fields, ParseFromJson(seen')[f] # 0
               PROVE  configuration'[f] = ParseFromJson(seen')[f]
    BY DEF TwinIsApplied, Agrees, ParseFromJson
  <2>1. parsed /\ configuration' = TakeNonZero(ParseFromJson(u.settings))
    BY <1>1
  <2>2. seen' = u.as_of /\ (u.state = "PARTIAL" => ~missed)
    BY <1>1
  <2> DEFINE new == ParseFromJson(u.settings)
  <2>3. configuration'[f] = NonZero(new[f], configuration[f])
    <3>1. /\ configuration'.delay = NonZero(new.delay, configuration.delay)
          /\ configuration'.speed = NonZero(new.speed, configuration.speed)
      BY <2>1 DEF TakeNonZero, IInv, TypeOK
    <3> QED BY <3>1 DEF Fields
  <2>4. /\ new[f] # 0 => configuration'[f] = new[f]
        /\ new[f] = 0 => configuration'[f] = configuration[f]
    BY <2>3 DEF NonZero
  <2>5. ASSUME NEW p \in Properties, NEW q \in Properties, p[f] = q[f]
        PROVE  ParseFromJson(p)[f] = ParseFromJson(q)[f]
    BY <2>5 DEF ParseFromJson, Fields, Properties
  <2>6. CASE u.state = "COMPLETE"
    <3>1. u.settings = u.as_of
      BY <1>2, <2>6 DEF IInv, TwinInvariant, UpdatesLeadOn
    <3> QED BY <2>2, <2>4, <3>1
  <2>7. CASE u.state = "PARTIAL"
    <3>1. u.settings[f] = 0 \/ u.settings[f] = u.as_of[f]
      BY <1>2, <2>7 DEF IInv, TwinInvariant, UpdatesLeadOn
    <3>2. u.as_of[f] # 0
      <4>1. ParseFromJson(u.as_of)[f] # 0
        BY <2>2
      <4>2. u.as_of.delay = ParseFromJson(u.as_of).delay
        BY DEF ParseFromJson
      <4>3. u.as_of.speed = 0 => ParseFromJson(u.as_of).speed = 0
        BY DEF ParseFromJson
      <4> QED BY <4>1, <4>2, <4>3 DEF Fields
    <3>3. CASE u.settings[f] = u.as_of[f]
      BY <1>3, <2>2, <2>4, <2>5, <3>3
    <3>4. CASE u.settings[f] = 0
      <4>1. seen[f] = u.as_of[f]
        BY <1>2, <2>7, <3>2, <3>4 DEF IInv, TwinInvariant, UpdatesLeadOn, Before
      <4>2. ParseFromJson(seen)[f] = ParseFromJson(seen')[f]
        BY <1>3, <2>2, <2>5, <4>1 DEF IInv, TypeOK
      <4>3. configuration[f] = ParseFromJson(seen)[f]
        BY <2>2, <2>7, <4>2 DEF IInv, TwinInvariant, TwinIsApplied, Agrees
      <4>4. ParseFromJson(u.settings)[f] = 0
        <5>1. u.settings.delay = ParseFromJson(u.settings).delay
          BY DEF ParseFromJson
        <5>2. u.settings.speed = 0 => ParseFromJson(u.settings).speed = 0
          BY DEF ParseFromJson
        <5> QED BY <3>4, <5>1, <5>2 DEF Fields
      <4> QED BY <2>4, <4>2, <4>3, <4>4
    <3> QED BY <3>1, <3>3, <3>4
  <2> QED BY <1>3, <2>6, <2>7
<1>6. UpdatesLeadOn'
  <2>1. ASSUME NEW i \in 1..(n - 1)
        PROVE  i + 1 \in 1..n /\ updates'[i] = updates[i + 1] /\ Before(i)' = Before(i + 1)
    BY <1>1, <1>2, <2>1 DEF Before
  <2> QED BY <1>2, <2>1 DEF IInv, TwinInvariant, UpdatesLeadOn
<1>7. UpdatesLeadToHub'
  <2>1. online /\ desired' = desired /\ online' = online
    BY <1>1 DEF IInv, TwinInvariant, UpdatesLeadToHub, hub
  <2>2. CASE n = 1
    <3>1. updates' = <<>>
      BY <1>1, <1>2, <2>2
    <3>2. desired = updates[1].as_of
      BY <1>1, <2>1, <2>2 DEF IInv, TwinInvariant, UpdatesLeadToHub
    <3> QED BY <1>1, <1>2, <2>1, <3>1, <3>2 DEF UpdatesLeadToHub
  <2>3. CASE n > 1
    <3>1. updates' # <<>> /\ updates'[n - 1] = updates[n] /\ Len(updates') = n - 1
      BY <1>2, <2>3
    <3>2. desired = updates[n].as_of
      BY <1>1, <2>1 DEF IInv, TwinInvariant, UpdatesLeadToHub
    <3> QED BY <2>1, <3>1, <3>2 DEF UpdatesLeadToHub
  <2> QED BY <1>2, <2>2, <2>3
<1> QED BY <1>4, <1>5, <1>6, <1>7 DEF TwinInvariant

\* A direct method keeps it.
LEMMA MethodHolds ==
    IInv /\ (\E state \in {"ON", "OFF"} : deviceMethodCallback(state)) => IInv'
<1> SUFFICES ASSUME IInv, NEW state \in {"ON", "OFF"}, deviceMethodCallback(state)
             PROVE TypeOK' /\ TwinInvariant'
  BY DEF IInv
<1>1. /\ configuration' = [configuration EXCEPT !.motor = state]
      /\ UNCHANGED <<wifi, task, online, hub, twin>>
  BY DEF deviceMethodCallback
<1>2. TypeOK'
  BY <1>1 DEF IInv, TypeOK, wifi, task, hub, twin
<1>3. \A f \in Fields : configuration'[f] = configuration[f]
  BY <1>1 DEF IInv, TypeOK, Fields
<1>4. TwinInvariant'
  BY <1>1, <1>3 DEF IInv, TwinInvariant, TwinIsApplied, UpdatesLeadOn, UpdatesLeadToHub,
     Agrees, Before, hub, twin
<1> QED BY <1>2, <1>4

\* The types and TwinInvariant hold in every reachable state, for any desired values, any
\* number of changes and any number of updates on the way.
THEOREM TwinIsInvariant == Spec => [](TypeOK /\ TwinInvariant)
<1>1. Init => IInv
  BY InitHolds
<1>2. IInv /\ [Next]_vars => IInv'
  <2> SUFFICES ASSUME IInv, [Next]_vars PROVE IInv'
    OBVIOUS
  <2>1. CASE UNCHANGED vars
    BY <2>1 DEF IInv, vars, wifi, task, hub, twin, TypeOK, TwinInvariant, TwinIsApplied,
       UpdatesLeadOn, UpdatesLeadToHub, Agrees, Before
  <2>2. CASE Other
    BY <2>2, OtherHolds
  <2>3. CASE Connect
    BY <2>3, ConnectHolds
  <2>4. CASE Disconnect \/ LoseClient
    BY <2>4, DisconnectHolds
  <2>5. CASE \E new \in Documents : ChangeDesired(new)
    BY <2>5, ChangeHolds
  <2>6. CASE \E parsed \in BOOLEAN : deviceTwinCallback(parsed)
    BY <2>6, TwinHolds
  <2>7. CASE \E state \in {"ON", "OFF"} : deviceMethodCallback(state)
    BY <2>7, MethodHolds
  <2> QED
    BY <2>1, <2>2, <2>3, <2>4, <2>5, <2>6, <2>7 DEF Next, Events, SDK, Other, Ended
<1> QED BY <1>1, <1>2, PTL DEF Spec, IInv

\* The device's configuration agrees with the desired properties as of the last update it
\* received (TwinIsApplied).
THEOREM TwinApplied == Spec => []TwinIsApplied
BY TwinIsInvariant, PTL DEF TwinInvariant

\* With nothing on its way, a device that is online has the properties of the hub, for any
\* values, and any changes and connections before (HubIsMirrored).
THEOREM HubMirrored == Spec => []HubIsMirrored
<1>1. TwinInvariant => HubIsMirrored
  BY DEF TwinInvariant, TwinIsApplied, UpdatesLeadToHub, HubIsMirrored
<1> QED BY <1>1, TwinIsInvariant, PTL

\* Every variable keeps its type (TypeOK).
THEOREM TypeCorrect == Spec => []TypeOK
BY TwinIsInvariant, PTL
=============================================================================
