------------------------------- MODULE AzCore -------------------------------
(***************************************************************************)
(* The application of the project example: app_main and the WiFi events    *)
(* (examples/azure_project/main/main.c), the wait for the clock            *)
(* (port/src/agenttime_esp.c), and the report loop with its device twin    *)
(* and direct methods (examples/azure_project/main/AzureCore.c).           *)
(*                                                                         *)
(* AzureClient.c, which AzClient models, is here what its caller sees of   *)
(* it: calls that return, in which the SDK calls the twin and method       *)
(* callbacks, and a client that may be missing for good.                   *)
(*                                                                         *)
(* A desired property of the twin is a number.  0 stands for one that is   *)
(* 0, null or absent: Azcore_tParseFromJson makes 0 of all three.          *)
(***************************************************************************)
EXTENDS Integers, Sequences

CONSTANTS Delays, Speeds,       \* values of the desired properties
          Documents,            \* the desired properties that may be set together
          INTIAL_DELAY_VALUE,
          Horizon,              \* bound on the seconds counted, above all delays
          MaxChanges            \* bound on the changes of the desired properties

\* The delays stand for numbers below 2^32, which the conversion to uint32_t keeps.
ASSUME DelayAssumption ==
    /\ Horizon \in Nat
    /\ Delays \union {INTIAL_DELAY_VALUE} \subseteq 1..(Horizon - 1)
ASSUME SpeedAssumption == Speeds \subseteq Nat
ASSUME ChangesAssumption == MaxChanges \in Nat

VARIABLES
    station,        \* the WiFi station: "off", "down", or "up" with an address
    CONNECTED_BIT,
    clock,          \* whether SNTP has set the clock
    pc,             \* where azure_task is
    client,         \* whether there is an IoT Hub client
    configuration,  \* objstrConfiguration
    elapsed,        \* seconds since sent_time, up to Horizon
    online,         \* whether the client is connected and gets the twin
    desired,        \* the desired properties at the hub
    changes,        \* how often they were changed
    updates,        \* twin updates on the way to the device
    seen,           \* the desired properties as of the last update received
    missed          \* an update was lost for want of memory, and no complete one since

wifi == <<station, CONNECTED_BIT, clock>>
task == <<pc, client, elapsed>>
hub == <<desired, changes>>
twin == <<updates, seen, missed>>
vars == <<wifi, task, configuration, online, hub, twin>>

Fields == {"delay", "speed"}
Properties == [delay : Delays \union {0}, speed : Speeds \union {0}]
Nothing == [delay |-> 0, speed |-> 0]

ASSUME DocumentsAssumption == Documents \subseteq Properties

\* sent_time is 0, the year 1970, before the first report.
Init ==
    /\ station = "off"
    /\ CONNECTED_BIT = FALSE
    /\ clock = FALSE
    /\ pc = "app_main"
    /\ client = FALSE
    /\ configuration = [delay |-> INTIAL_DELAY_VALUE, speed |-> 0, motor |-> "OFF"]
    /\ elapsed = Horizon
    /\ online = FALSE
    /\ desired \in Documents
    /\ changes = 0
    /\ updates = <<>>
    /\ seen = Nothing
    /\ missed = FALSE
-----------------------------------------------------------------------------
(* main.c and agenttime_esp.c.                                             *)

\* SYSTEM_EVENT_STA_START, then SYSTEM_EVENT_STA_DISCONNECTED: connect, again.
StationConnects ==
    /\ station' = "down"
    /\ CONNECTED_BIT' = IF station = "off" THEN CONNECTED_BIT ELSE FALSE
    /\ UNCHANGED <<clock, task, configuration, online, hub, twin>>

\* Mutant: the task that waits is not told.
WakeNobody == UNCHANGED pc

\* xEventGroupSetBits releases the task that waits.
Wake == pc' = IF pc = "wait_bits" THEN "clock" ELSE pc

\* SYSTEM_EVENT_STA_GOT_IP.
StationGotIp ==
    /\ station = "down"
    /\ station' = "up"
    /\ CONNECTED_BIT' = TRUE
    /\ Wake
    /\ UNCHANGED <<clock, client, elapsed, configuration, online, hub, twin>>

\* app_main ends with the start of azure_task, which waits for CONNECTED_BIT.
TaskStarts ==
    /\ pc = "app_main"
    /\ pc' = IF CONNECTED_BIT THEN "clock" ELSE "wait_bits"
    /\ UNCHANGED <<wifi, client, elapsed, configuration, online, hub, twin>>

\* External: SNTP, started by platform_init.
SntpSetsClock ==
    /\ pc = "clock"
    /\ station = "up"
    /\ clock' = TRUE
    /\ UNCHANGED <<station, CONNECTED_BIT, task, configuration, online, hub, twin>>

\* obtain_time looks every two seconds whether the clock is set.
ObtainTime ==
    /\ pc = "clock"
    /\ clock
    /\ pc' = "initialize"
    /\ UNCHANGED <<wifi, client, elapsed, configuration, online, hub, twin>>
-----------------------------------------------------------------------------
(* Azure_s32InnerProcess.                                                  *)

\* bInitialize returns true: the state is reported, unless it cannot be serialised.
Initialized == pc' \in {"report", "loop"}

\* An option cannot be set: bInitialize returns false and the task ends.
InitializeFails ==
    /\ pc = "initialize"
    /\ client' = TRUE
    /\ pc' = "ended"
    /\ UNCHANGED <<wifi, elapsed, configuration, online, hub, twin>>

InitializeNoClient ==
    /\ pc = "initialize"
    /\ Initialized
    /\ UNCHANGED <<wifi, client, elapsed, configuration, online, hub, twin>>

InitializeConnects ==
    /\ pc = "initialize"
    /\ client' = TRUE
    /\ pc' = "connect"
    /\ UNCHANGED <<wifi, elapsed, configuration, online, hub, twin>>

ConnectReturns ==
    /\ pc = "connect"
    /\ Initialized
    /\ UNCHANGED <<wifi, client, elapsed, configuration, online, hub, twin>>

ReportReturns ==
    /\ pc = "report"
    /\ pc' = "loop"
    /\ UNCHANGED <<wifi, client, elapsed, configuration, online, hub, twin>>

\* A turn of the loop: a report is due or not.
Turn ==
    /\ pc = "loop"
    /\ pc' = IF elapsed > configuration.delay THEN "send" ELSE "tick"
    /\ UNCHANGED <<wifi, client, elapsed, configuration, online, hub, twin>>

\* Mutant: sent_time is the time the report was found to be due.
TimeOfTurn == elapsed' \in 0..Horizon

\* The next turn follows after 10 ms, in which at most one second begins.
TimeOfReturn == elapsed' \in {0, 1}

\* bSendEventInstance returns; its result is ignored and sent_time taken all the same.
SendReturns ==
    /\ pc = "send"
    /\ pc' = "loop"
    /\ TimeOfReturn
    /\ UNCHANGED <<wifi, client, configuration, online, hub, twin>>

\* Mutant: every turn of the loop takes the time.
TimeOfTick == elapsed' = 0

TimeGoesOn == UNCHANGED elapsed

TickReturns ==
    /\ pc = "tick"
    /\ pc' = "loop"
    /\ TimeGoesOn
    /\ UNCHANGED <<wifi, client, configuration, online, hub, twin>>

\* Time passes in the calls; the 10 ms after a vTick are counted as part of it.
Second ==
    /\ pc \in {"report", "send", "tick"}
    /\ elapsed < Horizon
    /\ elapsed' = elapsed + 1
    /\ UNCHANGED <<wifi, pc, client, configuration, online, hub, twin>>
-----------------------------------------------------------------------------
(* AzureClient.c and the SDK, inside a call.                               *)

InCall == client /\ pc \in {"connect", "report", "send", "tick"}

\* Connected, the SDK asks for the whole twin.
Connect ==
    /\ InCall
    /\ station = "up"
    /\ ~online
    /\ online' = TRUE
    /\ updates' = <<[state |-> "COMPLETE", settings |-> desired, as_of |-> desired]>>
    /\ UNCHANGED <<wifi, task, configuration, hub, seen, missed>>

\* The connection is lost, and what was on its way with it.
Disconnect ==
    /\ InCall
    /\ online' = FALSE
    /\ updates' = <<>>
    /\ UNCHANGED <<wifi, task, configuration, hub, seen, missed>>

\* A re-connection ends without a client, for good.
LoseClient ==
    /\ InCall
    /\ pc # "connect"
    /\ client' = FALSE
    /\ online' = FALSE
    /\ updates' = <<>>
    /\ UNCHANGED <<wifi, pc, elapsed, configuration, hub, seen, missed>>

\* Somebody changes the desired properties at the hub, which tells the device what
\* has changed.
Changed(new) == [f \in Fields |-> IF new[f] = desired[f] THEN 0 ELSE new[f]]
ChangeDesired(new) ==
    /\ changes < MaxChanges
    /\ new # desired
    /\ changes' = changes + 1
    /\ desired' = new
    /\ updates' = IF online
                  THEN Append(updates, [state |-> "PARTIAL", settings |-> Changed(new),
                                        as_of |-> new])
                  ELSE updates
    /\ UNCHANGED <<wifi, task, configuration, online, seen, missed>>

\* The settings of an update, found under "desired.Settings" or "Settings".
Settings(update) == update.settings

\* Azcore_tParseFromJson: a speed is cut to uint8_t.
ParseFromJson(settings) == [delay |-> settings.delay, speed |-> settings.speed % 256]

NonZero(new, old) == IF new # 0 THEN new ELSE old

\* Mutant: the speed is looked at only when the delay is absent.
TakeDelayOrSpeed(new) ==
    IF new.delay # 0 THEN [configuration EXCEPT !.delay = new.delay]
    ELSE [configuration EXCEPT !.speed = NonZero(new.speed, @)]

\* Mutant: a speed once taken is kept.
TakeOnce(new) ==
    [configuration EXCEPT !.delay = NonZero(new.delay, @),
                          !.speed = IF @ = 0 THEN new.speed ELSE @]

TakeNonZero(new) ==
    [configuration EXCEPT !.delay = NonZero(new.delay, @), !.speed = NonZero(new.speed, @)]

deviceTwinCallback(parsed) ==
    /\ InCall
    /\ updates # <<>>
    /\ LET update == Head(updates)
       IN  /\ configuration' = IF parsed
                               THEN TakeNonZero(ParseFromJson(Settings(update)))
                               ELSE configuration
           /\ seen' = update.as_of
           /\ missed' = (~parsed \/ (missed /\ update.state = "PARTIAL"))
    /\ updates' = Tail(updates)
    /\ UNCHANGED <<wifi, task, online, hub>>

\* SetMotorState, whose answer may then fail to be allocated.  getMotorState and all
\* other calls change nothing.
deviceMethodCallback(state) ==
    /\ InCall
    /\ online
    /\ configuration' = [configuration EXCEPT !.motor = state]
    /\ UNCHANGED <<wifi, task, online, hub, twin>>
-----------------------------------------------------------------------------
Ended == pc = "ended" /\ UNCHANGED vars

Initialize == InitializeFails \/ InitializeNoClient \/ InitializeConnects

CallReturns == ConnectReturns \/ ReportReturns \/ SendReturns \/ TickReturns

Events == StationConnects \/ StationGotIp \/ SntpSetsClock

SDK ==
    \/ Connect
    \/ Disconnect
    \/ LoseClient
    \/ \E parsed \in BOOLEAN : deviceTwinCallback(parsed)
    \/ \E state \in {"ON", "OFF"} : deviceMethodCallback(state)

Next ==
    \/ TaskStarts
    \/ ObtainTime
    \/ Initialize
    \/ CallReturns
    \/ Turn
    \/ Second
    \/ Events
    \/ SDK
    \/ \E new \in Documents : ChangeDesired(new)
    \/ Ended

Spec == Init /\ [][Next]_vars

\* The task runs and time passes; the calls return (AzClient, CallsReturn); SNTP answers;
\* a client that is online and called again and again gets what the hub has sent.
Fairness ==
    /\ WF_vars(TaskStarts \/ ObtainTime \/ Initialize \/ Turn)
    /\ WF_vars(CallReturns)
    /\ SF_vars(Second)
    /\ SF_vars(SntpSetsClock)
    /\ SF_vars(\E parsed \in BOOLEAN : deviceTwinCallback(parsed))

FairSpec == Spec /\ Fairness
-----------------------------------------------------------------------------
(* Properties.                                                             *)

Updates == [state : {"COMPLETE", "PARTIAL"}, settings : Properties, as_of : Properties]

\* The type invariant.
TypeOK ==
    /\ station \in {"off", "down", "up"}
    /\ CONNECTED_BIT \in BOOLEAN
    /\ clock \in BOOLEAN
    /\ pc \in {"app_main", "wait_bits", "clock", "initialize", "connect", "report", "loop",
               "send", "tick", "ended"}
    /\ client \in BOOLEAN
    /\ configuration \in [delay : 1..(Horizon - 1), speed : 0..255, motor : {"ON", "OFF"}]
    /\ elapsed \in 0..Horizon
    /\ online \in BOOLEAN
    /\ desired \in Properties
    /\ changes \in 0..MaxChanges
    /\ updates \in Seq(Updates)
    /\ seen \in Properties
    /\ missed \in BOOLEAN

\* The configuration agrees with the desired properties p, as far as they are set to
\* something the device can take.
Agrees(p) ==
    \A f \in Fields : ParseFromJson(p)[f] # 0 => configuration[f] = ParseFromJson(p)[f]

\* The configuration is always the desired one as of the last update received, however
\* updates, complete and partial, lost connections and changes at the hub follow on
\* one another (lines 213-245, 342-363).  Only an update lost for want of memory breaks
\* it, until the next complete one.
TwinIsApplied == ~missed => Agrees(seen)

\* Why: each update on the way turns the desired properties as of the one before it into
\* its own, and after the last of them the device has those of the hub.
Before(i) == IF i = 1 THEN seen ELSE updates[i - 1].as_of
UpdatesLeadOn ==
    /\ \A i \in 1..Len(updates) :
          IF updates[i].state = "COMPLETE" THEN updates[i].settings = updates[i].as_of
          ELSE \A f \in Fields :
                  updates[i].settings[f] = 0 \/ updates[i].settings[f] = updates[i].as_of[f]
    /\ \A i \in 1..Len(updates) :
          updates[i].state = "PARTIAL" =>
             \A f \in Fields :
                updates[i].as_of[f] # 0 /\ updates[i].settings[f] = 0
                   => Before(i)[f] = updates[i].as_of[f]
UpdatesLeadToHub ==
    IF online
    THEN desired = IF updates = <<>> THEN seen ELSE updates[Len(updates)].as_of
    ELSE updates = <<>>
TwinInvariant == TwinIsApplied /\ UpdatesLeadOn /\ UpdatesLeadToHub

Over == pc = "ended"

\* With nothing on its way to a device that is online, its configuration is the one at
\* the hub: no update undoes a newer one, whichever connections were lost in between.
HubIsMirrored == online /\ updates = <<>> /\ ~missed => Agrees(desired)

\* Once nobody changes the desired properties any more (MaxChanges), a device that is
\* online again and again has them for good, unless an update was lost.
Converges == []<>online => <>[](Over \/ missed \/ Agrees(desired))

\* The address comes late, is lost, comes again: the loop is reached all the same,
\* unless bInitialize fails (main.c 46-60, 88; agenttime_esp.c 36-41).
LoopIsReached == []<>(station = "up") => <>(pc = "loop" \/ Over)

\* Reports go on, whatever the twin makes of the delay in the middle of a turn.
ReportsGoOn == pc = "loop" ~> pc = "send" \/ Over

\* However long a report takes, the loop calls vTick between two of them: what AzClient
\* assumes of its caller (lines 428-449).
TicksGoOn == pc = "loop" ~> pc = "tick" \/ Over
=============================================================================
