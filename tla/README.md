# esp-azure in TLA+

Specifications of the code in this repository: the port of the Azure IoT C SDK to
the ESP32 (`port/`) and the applications built on it (`examples/`). They are
written from the source; line numbers in the modules are those of the file a
module names at its head. Paths below are relative to `src/`.

## The system

A device runs a few FreeRTOS tasks. One of them owns the IoT Hub client and
calls the Azure IoT SDK (`IoTHubClient_LL_*`, a git submodule, not in this
repository). The SDK has no thread: all of its work is done inside
`IoTHubClient_LL_DoWork`, which calls the TLS adapter of the port
(`tlsio_dowork`, `tlsio_send_async`, ...) below and the callbacks of the
application above. The adapter calls `esp_tls` of ESP-IDF.

    AzureCore (report loop, twin, methods)          main.c (WiFi, tasks)
        | calls                 ^ twin, method callbacks
    AzureClient (retry, time-out, re-connect)
        | LL_SendEventAsync, LL_DoWork   ^ confirmation, status callbacks
    Azure IoT SDK (external)  ----> platform_esp / agenttime_esp (clock)
        | open, send, dowork, close      ^ on_open_complete, on_send_complete, ...
    tlsio_esp_tls
        | connect, read, write, delete
    esp_tls (external)

    sensor task ---> sensors (I2C) ---> LCD (I2C)  <--- azure task

| Component | Source | State | Operations | What is hard | Correct when |
|---|---|---|---|---|---|
| TLS adapter | `port/src/tlsio_esp_tls.c` | state machine CLOSED / INIT / OPEN / ERROR, queue of messages with the bytes left, `esp_tls` handle, options, callbacks | create, destroy, setoption, open, close, send, dowork | callbacks in the middle of its functions may call it again; partial writes; failures at any write | every accepted message completes once, in order, with the right result; bytes leave in order; one answer per open; no use after delete |
| IoT Hub client | `examples/azure_project/main/AzureClient.c` | client handle, connected and reset flags, the id waited for and the next id, events owned by the SDK | bInitialize, vClose, vTick, bSendEventInstance, bSendEvent, bReportState, four SDK callbacks | confirmations arrive in DoWork, late, or never; re-connection in the middle of a send; time-outs against answers | true means delivered; each event freed once; never two events outstanding; calls return; resets are served |
| Application core | `.../AzureCore.c` | configuration (motor state, reporting delay, speed), time of the last report | report loop, twin update, getMotorState / SetMotorState | the callbacks change the configuration inside the loop; values cut to 8 or 32 bits; 0 for absent | a desired value takes effect; a report is due at most one interval after the last one |
| WiFi, task start | `.../main.c`, `azure_main.c` of the samples | event group bit | event handler, app_main, azure_task | order of events and tasks | nothing talks to the hub before an address was got |
| Time | `port/src/platform_esp.c`, `agenttime_esp.c` | the clock is set or not | platform_init, get_time | waits without a bound | platform_init returns once the clock is set |
| Sensors | `.../SensorCore.c`, `bme280_support.c`, `bme280.c`, `tmp007.c`, `opt3001.c` | the driver's copy of three registers, `t_fine`, buffers, the values shown | set up three chips, then read them in a loop | results of the bus are dropped, so a failed transfer goes on with what the buffer held; the chips keep their state over a restart | a chip that is set up measures as configured; the copy is what the chip holds; values shown together belong together |
| LCD, I2C | `.../LCDIIC.c`, `i2c_driver.c` | the display's memory, address and half byte; the loop of each text | initialise, show a string | two tasks, no lock; four writes per byte, whose results are dropped; a restart in the middle of a byte | the display comes into step from any state; a text appears where it was put |
| MQTT sample | `examples/iothub_client_sample_mqtt` | iterator, callbackCounter, one shared message | the send loop, confirmation | one counter counts attempts, the other successes | one message in flight; the loop goes on |
| Twin sample | `examples/iothub_devicetwin_samples_and_methods` | a car: a reminder (heap), a speed | twin update | updates lost with the connection; a reminder that is freed and kept | a desired value is printed and taken over |
| Provisioning sample | `examples/prov_dev_client_ll_sample` | registration result | register, then send | order of the two clients | the client is created only after a registration |
| Motion sensor | `.../bmi160.c`, `bmi160_support.c` | the registers of the BMI160 and of the BMM150 behind it; a copy of the manual bit, the trim values | a getter and a setter for each of some 180 fields; calls of several accesses; nine running modes; offset compensation | fields share registers, which are read, changed and written on a bus whose failures nobody reports; modes depend on what the mode before, or the program before a restart, left in the devices | a call changes the settings it names and no other; a mode ends with the magnetometer as it needs it; start-up ends |
| Certificates | `port/src/certs.c` | none | constants | | not modelled |

`PROJECT.json` lists the components with their status, and under "hazards" each
place where this code can go wrong in a way a test hardly reaches, with the
property that would show it.

## The modules

### SendQueue: what a transport promises

`accepted`, `completed` and `result` are all that the user of the adapter can
see: `send_async` returned 0; `on_send_complete` was called, with a result.
Messages complete one at a time, once each, in the order of acceptance.

### TlsIo: the TLS adapter

One instance from create to destroy. `tlsio_state`, `callbacks`, `handle`,
`options`, `esp_tls_cfg`, `pending`, `size` and `unsent` are the fields of
`TLS_IO_INSTANCE` and `PENDING_TRANSMISSION`, reduced to what the code branches
on; `wire`, `accepted`, `completed`, `result`, `open_results` and `fault` are
history and no guard but the one that sends a message once reads them.

Control is a stack. Each element of `stack` is either a point inside a function
of the adapter where it calls out or loops (`"dowork_read"`, `"dowork_send"`,
`"send_async"`, `"close_async"`, `"destroy"`), or a callback of the upper layer
in progress. The code between two such points is one action: for instance
`DoworkSendWrites` is `esp_tls_conn_write`, the update of `unsent_size`, and, when
nothing is left, the removal of the message from the queue up to the call of
`on_send_complete`; `CallbackReturns` is its return. While a callback is at the
head of the stack the upper layer may call `setoption`, `open`, `close` or `send`,
as far as `Reentry` allows for all of the callbacks in progress. A call refused
by an early return changes nothing and is not an action.

External: `esp_tls` takes any outcome the code tells apart (connected, in
progress, failed; n bytes, nothing now, failed); it is given the handle, and
`Uses_handle` records the use of one that was deleted. `singlylinkedlist` is a
FIFO queue. `errno` is not modelled: a failed read or write is fatal or not.

### AzClient: the IoT Hub client

`pc` is where the task is in `bInitialize` ("initialize", "connect"),
`bSendEventOnce` ("attempt", "check", "send", "wait") or `vTick` ("check",
"tick"), `op` the function called, `attempts` and `trials` what is left of its two
loops. The other variables are the static variables of the file and what the SDK
holds: `outstanding`, the events given to it and not called back; `hub`, those
the hub acknowledged. An event is its tracking id.

While `pc` is "connect", "wait" or "tick" the task is inside `DoWork`, and the SDK
takes any number of steps (`Deliver`, `Confirm`, `ConnectionStatus`) before one of
the `...DoWorkReturns` actions. `LL_Destroy` calls back every event the client
still owns with a result other than OK, as `vFreeEventInstance` in the callbacks
expects of it. That the SDK does so for reported states too is an assumption:
if it did not, a state that timed out would leak.

`vCheckConnection` is two actions, because `bInitialize`, which it calls, is in
progress between them: `vClose` first, then one of the `Initialize...` actions,
whose end (`Initialized`) clears `bResetClient` and goes on in the caller.

### MqttSample: the send loop of the MQTT sample

`iterator`, `callbackCounter`, `g_continueRunning`, `message` (the one
`EVENT_INSTANCE`) and `index` are the variables of the sample; `outstanding` is what
the SDK has to confirm, `confirmed`, `created` and `destroyed` are history. A turn
of the loop is two actions: a send, one that fails, or none (`pc` = "loop"), and the
return of `DoWork` ("dowork"), with the callbacks in between. "drain" is the loop of
the last calls of `DoWork`. A message handle is the value of `iterator` it was
created with. The interval between two sends is not modelled: a turn may always
skip the send.

### AzCore: the application of the project example

`station`, `CONNECTED_BIT` and `clock` are what `azure_task` waits for; `pc` is where it
is, "connect", "report", "send" and "tick" being calls of AzureClient.c, in which the SDK
calls back. `configuration` is `objstrConfiguration`, `elapsed` the seconds since
`sent_time`. Of AzClient it keeps what its caller sees: calls return, and there may be
no client, for good after a re-connection without one. In return it shows what AzClient
assumes of its caller: `vTick` is called again and again (`TicksGoOn`).

External is the hub: the desired properties, their changes, and the updates on the way,
a complete one after each connection and a partial one after each change, in order.
Whether an update can be read at all (allocation, parsing) is left open.
0 stands for a property that is 0, null or absent, as the code makes 0 of all of
these; a speed is cut to 8 bits. Time passes in calls; between two turns of the loop at
most one second begins, so that the sleep of 10 ms is not stretched by other tasks.

### Screen and Display: the display and its driver

`Screen` is what `LCDIIC.h` promises: after the initialisation the display is blank, a
text appears character by character from the place it was put at, the end of a row
going on at the start of the next, and nothing else changes. It promises nothing once
the display is `garbled`, by a write that failed or by two texts at once, until the
program starts again.

`Display` is `LCDIIC.c`. A step is one write to the I2C port: `Write(t)` is any of the
eight in `LCDIIC_vWriteCommand` and `LCDIIC_vWriteData`, `step` how many of the four of
the byte in hand are done, `sent`, `moving` and `rest` where the callers are
(`LCDIIC_vInit`, `LCDIIC_vSetCursorPosition`, the loop of `LCDIIC_vShowStringAt`). Every
task, and `app_main` before them, may take its next step at any time, which is what the
code allows. External is the hardware, with its state `port` and `lcd`: the port drives
the lines of an HD44780, which takes a nibble when the enable line falls, a whole byte
for a nibble while it listens to eight lines, and which keeps all of this when the
program restarts. The refinement mapping (`Shown`) reads the screen off the display's
memory by the addresses of its rows.

### SensorCore: the sensor task

`Program` is the sequence of calls of `Sensor_s32Process` and of
`bme280_data_readout_template`, the last three over and over; `at` is the call and
`stage` its next bus transaction. `PowerMode`, `Reset`, `WriteRegister` and
`ReadRegister` are the transactions of the five setters of `bme280.c`, which differ only in
the field they set (`Field`), in what they write to the configuration register (`Value`)
and in their order (`AfterWrite`); `Burst` is a reading with its compensation, and the
others are the transactions of `tmp007.c` and `opt3001.c`. Each takes `ok`, whether it
went well: for the BME280 nobody looks at it, and a failed read leaves the buffer.

A quantity is the number of the sample it comes from, so that what is compared is which
samples end up together. External are the chips: they measure when they are on, the
BME280 may ignore its configuration register while it is awake and takes the humidity
setting with the next write of `ctrl_meas`, and all keep their state over a restart. `clean` and `intact` are history: no transaction
failed since the start, or since the last setter began. `sensorTmp007Enable`, three writes, is
one transaction, of which a failure may leave either.

### TwinSample: the device twin sample

`car` and `monitor` are what the sample keeps and prints; `deviceTwinCallback` is the
whole callback with `parseFromJson`, for an update with or without a reminder and a
speed, with or without memory. `FREED` is a reminder pointer to memory that was given
back: what is read there is anything, and it may be handed out again (`AfterFreed`); what a
second free does to other blocks of the heap is left out, but for a crash.
The hub sends a whole document when the device connects and a patch for every change;
what is on its way when the connection drops is lost. `missed` says that an update was
dropped for want of memory and no whole document came since.

### Bmi160Map, Bmi160Calls, Settings and Bmi160: the registers of the motion sensor

`Bmi160Map` is a table: for every field the driver can get or set, its register, position
and width and what its setter accepts, each entry standing for a getter and a setter of
`bmi160.c`, which differ in nothing else. That no two fields share a bit and that each one
written lies in one register are assumptions of the module, which TLC evaluates; the fields
that are only read are in the table for these assumptions and are used by nothing else. The
registers are the set of bits that are one.

`Bmi160Calls` gives the calls as sequences of accesses. An access is the read-modify-write
of one field, or the write of a whole register; besides the plain setters (`Set`) these are
the ones that touch other settings too: interrupts that share an engine
(`set_intr_low_g`, `set_intr_any_motion`), those mapped by whole registers
(`map_significant_motion_intr`, `map_step_detector_intr`), tags that need their pin as an
input, offsets, the step counter's configuration and the triggers of the offset
compensation. The functions of the bus answer 0 whatever happened, so that no call stops
on a failed transfer: `found` and `kept` are what the buffer of a failed read holds, and
`Spoilt` is the register after it was written back. `Ensure` is an access made only where it
is needed, which the driver finds with a read of its own (`FailedLook` when that fails).

`Settings` is the promise: settings independent of each other; an assignment changes those
it names, and one with a failed transfer is not made, or made with damage to settings of the
same register, which is what the code does to them. `Bmi160` makes any calls one after
another, access by access, with transfers that fail, and implements it: the mapping cuts
the registers into fields.

### Bmi160Modes: the motion sensor from start-up on

A call is a program (`Code`), a sequence of instructions: `"put"` is a setter, the others
are the reads on whose answer something depends. Conditions in the code are conditions of
an instruction (`when`), and `pc` is the next one. `start_up` is what `Sensor_s32Process` does
before its loop: `bmi160_initialize_sensor`, the navigation mode, the compensation of both
sensors. Afterwards any running mode, any preset of the magnetometer and
`MAG_FORCE_MODE` may be called. Of the settings, which are independent (Bmi160), those are
followed that the driver reads back or the BMM150 acts on. The transfer of an instruction
may be lost, and the program may restart before any of them: `ram` is zero again, while
`held`, `power` and `magnet`, the state of the two devices, stay. External are the devices:
the BMM150 is reached in manual mode, with the interface on and powered, and but for its
power bit only while it is powered itself; it may not be there at all (`present`).

### Instances and proofs

`MCTlsIo` defines values for `Reentry`, `MCDisplay` texts for `Calls`, `MCAzCore` the desired
properties (`Documents`), `MCBmi160` the settings in use. The other modules need no MC module:
their constants are numbers and model values. `TlsIo_proofs`, `AzClient_proofs`,
`MqttSample_proofs`, `AzCore_proofs`, `Display_proofs`, `SensorCore_proofs`,
`TwinSample_proofs` and `Bmi160_proofs` hold the theorems. A run checks the type invariant of
TlsIo (`TypeOK`); that of every module is a theorem for all values of its constants. The names
of Bmi160Modes that Bmi160 has too begin with `Modes`, since `Bmi160_proofs` extends both.

## The runs

| Run | Shows |
|---|---|
| tlsio_safety | 3 messages of up to 2 bytes; sends from inside three callbacks, closes from inside two; failed allocations: safety, that TlsIo implements SendQueue, that calls return and messages complete |
| tlsio_report | violation: a failed connection is not reported (`ErrorIsReported`) |
| azclient | 3 ids, 2 attempts per send, 2 turns of each loop: all safety and liveness properties of the client |
| azclient_reconnect | violation: a re-connection that fails once is never tried again |
| mqtt_sample | 4 messages, each of which may fail at any step: all safety properties, and the sample ends if no message is lost |
| azcore | two values of each desired property beside none and two changes of them, addresses, connections and the client lost at any time: the configuration agrees with the hub when nothing is on its way (`HubIsMirrored`) and in the end for good (`Converges`), so that no newer value is undone by an older one; the loop is reached, reports and ticks go on |
| display | two tasks and three texts, one write that fails and one restart at any point: initialisation settles the display, driver and display stay in step, and Display implements Screen |
| display_race | violation: two tasks, no failure; the cursor is not where it was set |
| sensors | 2 samples of each chip, 2 failed transactions and one restart at any point: the BME280 is configured, the copy of its registers is right, a setter after a failure takes effect and puts the copy right (`SettersRecover`), readings belong together |
| twin | 3 changes of the twin, one lost connection, one failed allocation: the speed is mirrored, in the end for good |
| motion_registers | two calls of any kind, on registers all zero or all one, two transfers of which fail: what a call names holds what was asked (`HeldAsAsked`), and Bmi160 implements Settings, in which the two `map_*` calls name every field of the registers they write |
| motion_modes | start-up and two further calls, one lost transfer, one restart, at any point but on the second page of registers, a BMM150 that answers or does not: every mode of an undisturbed run ends with the magnetometer ready or off as it needs it, whatever the run before left (`ModeReached`); offsets are found with both sensors awake; start-up ends |

Bounds, and why they are enough:

- `Msgs`: three messages give a queue with a head, a middle and a tail, so that
  order, a removal at the head and an append during a callback all differ.
- `MaxSize = 2`: the smallest size that can be written in two parts.
- `MAX_RCV_COUNT = 1` (5 in the code): two reads in a row, then the loop breaks;
  the count only matters against 1 more or fewer.
- `MaxDepth = 8`: never reached. Each message is sent once, and the deepest chain
  with three of them has five calls.
- `Reentry`: `CarefulReentry` lets the upper layer make any call from inside any
  callback, but for three: a close from inside `on_bytes_received`, after which the read
  loop goes on with a deleted handle; a close from inside `on_open_complete` with
  IO_OPEN_CANCELLED, where the adapter is still INIT and would cancel the open again; and
  a send from inside `on_send_complete` with IO_SEND_CANCELLED, where it may still be OPEN
  while its handle is gone. These are the hypotheses of the theorems (`Careful`); with any
  one of them dropped TLC finds a counterexample.
- `Reuse = {}` in the passing runs: an upper layer that closed an instance
  destroys it, as the pointer to the deleted handle must not be used again.
- `AllocFailures` is without `"handle"`: where that allocation fails, create goes on
  with the instance it has destroyed.
- `MaxId = 2`, `SEND_EVENT_RETRY_COUNT = 2` (5 in the code): an id for each attempt
  of one send and one left for the next, so that an event left over by a time-out
  can meet the next attempt and the next send.
- `Trials`, `ConnTrials`, `TickLoops = 2` (1000, 3000, 5): a turn that is not the
  last and one that is.
- `MESSAGE_COUNT = 4` (50 in the code): a first and a last message and two between
  them; with 0, for messages without end, the counters have no bound, and only the
  theorems speak of it.
- `Delays = {1, 2}`, `INTIAL_DELAY_VALUE = 2` (600 in the code), `Horizon = 3`: a delay that
  is made shorter and longer, and time beyond all delays. `Speeds = {7, 306}`, the second of
  which is 50 in 8 bits. `MCDocuments` of MCAzCore, six of the nine combinations: changes that
  set, replace or remove one of the two or both, so that a newer value may be undone by an
  older one. `MaxChanges = 2`: a complete and two partial updates on the way at once. The
  theorems are for all other values.
- `SCREEN_WIDTH = 2` (20 in the code), `SCREEN_HIGH = 4`: rows with a first and a last
  place. The three texts end inside a row, at its end, and beyond it from the last row to
  the first. `MAX_FAILURES = 1` and `MAX_RESTARTS = 1`: any write may be the one that fails,
  any step the last before the restart. A garbled display is followed only until the
  second text of the sensor task (`FirstGarbledText`), and through the restart: Screen
  promises nothing about it, and the theorems have no such bound.
- `MAX_SAMPLES = 2`, `MAX_FAILURES = 2`, `MAX_RESTARTS = 1` of SensorCore: an old and a new
  sample, a failure that meets another, a chip found in any state. Without a bound on
  samples the numbers grow for ever.
- `Speed = {0, 50, 300}`: a speed that is no different from an absent one, one that
  fits a byte, one that does not. Two reminders, for one that changes. The hub stops after
  `MAX_EDITS` changes, so the system may stop, and the run does not look for deadlock.

- `MCUsed` and `MCObserved` of Bmi160: of each register with several fields two or three,
  every field that a call of several accesses touches, one of a full register, and
  one that is wider than what its setter accepts; `MCInputs` = 0, 1, 6: nothing,
  one bit, a number too wide for most fields. `MaxFailures = 2`: a read that fails and the
  write after it, or the look before an access (`FailedLook`) and the access. `MaxCalls = 2`: a call and one that
  finds what it left; each call names all that matters for the properties, and the
  theorems have no such bound.
- `MaxLater = 2`, `MaxRestarts = 1`, `MaxLosses = 1` of Bmi160Modes: with the two modes of
  start-up a mode after any mode or preset, the state any single cut and any single lost
  transfer leaves in the devices, and the start-up that meets it. Restarts and lost transfers
  while the second page of registers is selected are left out (`FirstPage`): what the
  sensor answers there is not known. The loops have the bounds of the code, 5 and 10.

Fairness. `TlsIo`: the upper layer calls `dowork` again and again (the SDK's
transport does so in every DoWork), a call in progress goes on, callbacks return;
a connection that is offered bytes again and again takes some of them (otherwise
no property of delivery could hold). Nothing is assumed about reads: the peer may
send for ever. `AzClient`: the task is scheduled and DoWork returns; the caller
calls `vTick` again and again, which the loop of AzureCore does between two reports
(426-451: the time of a report is taken after it was sent, so that the next turn
of the loop calls `vTick`); an initialisation tried again and again succeeds once.
Nothing is assumed about the hub: it may never answer. `MqttSample`: the task runs,
the interval passes (a send that is possible again and again happens), and the SDK
answers what it accepted, as its own time-out for messages makes it do. `AzCore`: the task runs, its calls
return (CallsReturn of AzClient), seconds pass, SNTP answers a station that has an
address again and again, and updates reach a client that is online again and again;
that it has an address or is online is assumed only where a property says so.
`TwinSample`: DoWork is called for ever, connects and brings the updates, and a device
that panics starts again; nothing is assumed of the hub, nor that a connection holds, of
which the bound sees to it that only one is lost. `Bmi160Modes`: the sensor task goes on with the call it is in; the
devices need not answer. `Display`, `SensorCore` and `Bmi160` need none: they have safety
properties only.

## What is proved

For every value of the constants that satisfies their named assumptions
(messages, sizes, reentry, depth; ids, retries, turns; texts and sizes of the screen;
bounds), the proof modules show, as theorems of `Spec`:

- `TlsIo_proofs`: `TypeOK`; `QueueInvariant`, and from it `CompletedOnceInOrder`,
  `OKMeansSent` and `ClosedIsEmpty`; `IsSendQueue`, the refinement; `ErrorUntilClosed`;
  `Control`. Under hypotheses on the upper layer, which the statements name:
  `WireIsInOrder` (`NoSendWhenCancelled`), `OneOpenResult` (`NoCloseWhenCancelled`) and
  `NoFault` (`Careful`: these two, no close from `on_bytes_received`, no second use of a
  closed instance, and a handle that can be allocated).
- `AzClient_proofs`: `TypeOK`; `ClientInvariant`, and from it `TrueMeansDelivered`,
  `AtMostOneOutstanding` and `EventHasOneOwner`.
- `MqttSample_proofs`: `SampleInvariant`, with `TypeOK`, and from it `SharedInstance`,
  `DestroyedWhenAnswered` and `ConfirmedInTurn`, for a count of 0 too.
- `AzCore_proofs`: `TwinInvariant`, with `TypeOK`, and from it `TwinIsApplied` and
  `HubIsMirrored`, the safety part of `Converges`. `TwinIsApplied` is not checked by a run.
- `Display_proofs`: `TypeOK`, `InitSettles`, `InStep` and the refinement, `IsScreen`.
- `SensorCore_proofs`: all of the properties checked by the run sensors.
- `TwinSample_proofs`: `TypeOK` and `SpeedMirrored`.
- `Bmi160_proofs`: `TypeOK`, so that no access leaves the eight bits of its register, and the
  refinement, `IsSettings`, for any fields in use and observed, any arguments and contents,
  any number of calls and failures; and `HeldAsAsked`. Of the map they use its three
  assumptions and, for `HeldAsAsked`, the places of the fields that calls name together.
  Of Bmi160Modes, for any number of calls, restarts and lost transfers: `ModesTypeOK`,
  `CalibratesAwake` and `ModeReached`, for which only `BoundsAssumption` is used.

The arguments. *TlsIo*: `accepted = completed \o pending` alone is not
inductive. That a step marks only the head of the queue as answered keeps it only
if a message is in the queue once (`AcceptedOnce`), and `OKMeansSent` needs that
queued messages have no result and a byte left (`QueuedIsUnsent`) and that every
answer belongs to a completed message (`AnsweredIsCompleted`). `NotOpenIsEmpty` is
there for `ClosedIsEmpty`: a drain ends only with an empty queue and sends are
accepted in OPEN only. Since `pending` and `completed` are the two parts of
`accepted`, a removal of the head is `Complete` of SendQueue for the oldest message.
What callbacks may do is the other half of TlsIo. `Control` holds for any `Reentry`: below
the point of control there are callbacks and loops of `internal_close` only. `ClosingAlone`
adds that such a loop is not entered twice, which a send from `on_send_cancelled` could bring
about; so whoever writes finds the queue as it left it, and `WireKept` can say that the wire
ends where the oldest message goes on. `Answered` needs, besides the count of answers, that
what is open has a connection; `HandleKept`, that wherever esp_tls will still be called after
a callback (`UsesHandle`), the handle is not deleted.
*AzClient*: `Leftover` says that an event stays with the SDK outside of "wait" only if a
reset is due, so that the next `vCheckConnection` destroys it before anything else
is sent; `Tracking` that what is waited for is the event in hand or its outcome;
`Numbering` that ids are given once; `Callers` and `Budget` that control and loop
counters fit `pc`. Each action keeps each part; there is one lemma per action.
*MqttSample*: none of the three properties is inductive without `Progress`: at most
one message is in flight, its number is `callbackCounter`, and the confirmed ones
are those below it. A send needs `iterator <= callbackCounter`, which by `Progress`
means that nothing is in flight; hence the instance may be overwritten.
*AzCore*: `TwinIsApplied` alone does not survive a partial update, which is right about
what it does not name only if nothing else has changed: `UpdatesLeadOn` says so of every
update on the way, and `UpdatesLeadToHub` that the last of them brings the properties of the
hub, which is `HubIsMirrored` once none is left.
*Display*: `BootInv` lists what the display can be after each nibble of the
initialisation, for any state it had before; after the third of them every possibility
but one is gone. From then on `ReadyInv` has the half byte it holds equal to the half
the writing task has sent and its address equal to the place of the text, which needs
`AloneInv` (one writer, as long as no two texts overlap) and `PortInv` (the lines show
that writer's last write). `IsScreen` follows since places have different addresses.
*SensorCore*: `Sane` says, for each stage of each setter, what the chip and the copy hold: the
first setter makes them equal from any state of the chip, and each later one changes both
by its field. It speaks only of runs without a failure. `Sound` says less, and of all runs: of
a setter under way, none of whose own transactions failed, the chip sleeps while it is written
to, what was written is there, and what was read back is in the copy; its last read makes this
`SettersRecover`. `PairInv` and `OneReading` speak of all runs as well.
*TwinSample*: `Follows` says that the hub's speed is on its way with no other behind it,
or that nothing is and the car has it; `WholeFirst` that a whole document is only ever
the first update, so that it cannot undo a patch.

*Bmi160*: the invariant is that the accesses still to be made are good ones: they assign bits
of one register of the device, and cover each field wholly or not at all. `StoreGood`,
`WriteGood` and `CallsGood` show it of every call; then an access changes the fields it
covers to what it assigns, and a failed one is not made or damages fields of its register
only (`FailureDamages`, `LookForgoes`). For
`HeldAsAsked` the invariant `Kept` says of a call under way that each setting it names holds
the bits of the number asked for, or that an access still to be made gives it these; and
that none of them takes them away, which `CallsKeep` shows call by call: it is what the order
of the accesses, and their not sharing fields, is for. `ReadBack` then turns bits into the
number a getter returns, one bit at a time, up to the eight that a field has at most.
*Bmi160Modes*: `ModesKept` adds to the types that the interface holds 0 or 2, the two values
a mode asks about, and that the shared counter passes 4 only where the compensation is
polled, so that the wake-up always finds it below its own bound. `AwakeKept` says which
sensors are awake from which instruction of start-up on: behind the two commands of its last
mode no instruction of the call puts one to sleep or jumps back to before them. For
`ModeReached` an invariant has to know the magnetometer at each instruction of a call, more
than a hundred for start-up. It is not written out but composed: `Leads(A, code, B)` says that
the program `code`, begun in a state of the set A, passes through some set of states at each
of its places and ends in B. There is a lemma for each instruction (`LeadsOne`), for one
program after another (`LeadsOn`) and for the conditions around them, and from these one for
each function of the code: the trim values read, the preset, the interface set up, forced,
suspended, up to `ModeLeads`, `StartUpLeads` and `CallLeads`. Every mode leads from a settled
magnetometer (`MagSettled`) to the one it needs; start-up leads there from every state:
whatever its first mode leaves, its second leaves the interface off (`Silent`), so that the
third initialises the BMM150 and reads the trim values anew. The invariant `OnTrace` is
then that a run without a loss is, at each place, in a state of that set. Nothing is
claimed of a run that lost a transfer, nor without a BMM150: then it need not be so.

Only model-checked: the liveness properties, since TLAPS does not prove liveness.

## What the code does not keep

Three comments of the source say something that the code does not do; each is a run that TLC
ends with a counterexample, and an entry of "findings" in `PROJECT.json`:

- errors of the connection are not reported to `on_io_error`;
- a re-connection that fails to create a client disables the client for good;
- the cursor of the display is not where it was set, when two tasks write.

The models contain more of this kind, which the runs leave out by their constants or have no
property for: with `"handle"` in `AllocFailures` or with calls in `Reuse`, `NoFault` of TlsIo
fails (a failed allocation in create is followed by the use of NULL; a second close deletes
the handle twice); `bInitialize` of AzClient returns true without a client; the MQTT sample
does not terminate once a message was lost, which is why `EndsUnlessLost` says so;
`bme280_set_power_mode` writes a constant to the configuration register, so that the standby
time set before is lost; `DATA_RDY` of SensorCore is looked for in the wrong byte of the word
of the OPT3001, so that a read is valid before there is a value (`opt3001.c:157`); the second
reminder of the device twin sample is neither printed nor kept, and the memory of the first
is used after it was freed (`FREED` of TwinSample). In the motion sensor driver: a failed
transfer is reported as a success, and the read of a read-modify-write that fails clears
the fields around the one that is set (`Spoilt`); `map_significant_motion_intr` and
`map_step_detector_intr` drop every other interrupt of the pin; each running mode overwrites
the result of the wake-up of the magnetometer with that of its first command
(`bmi160_support.c:170`); a restart with the magnetometer on leaves the first mode after it
without trim values, which only the next two modes of start-up repair (the mutant of
`initialize_sensor` shows it).

## Not modelled

- Payloads, JSON, formatting and logging; the contents of the SDK, `esp_tls` and
  ESP-IDF; NULL arguments and other calls refused at once.
- Of `bmi160.c`: the FIFO and its parser (15454-16014), the secondary magnetometers this board
  does not have (AKM09911 to YAS537, 17371-18684), the compensation formulas of the
  BMM150; of `bmi160.h` all but the places of the fields and the constants the modules
  name; delays. Of `bme280.c`, the functions the program does not call, the chip id and the
  calibration that `bme280_init` reads, and the arithmetic of the compensation; of `tmp007.c`
  the coefficients. Of the step counter's configuration, a third failure after two of its second
  field (`set_step_config`). Of the sensor task's loop, the readings of the motion sensor, which
  are printed.
- The provisioning sample: a loop until the SDK calls back, and then the send loop of the
  MQTT sample. What can go wrong between the two is in the SDK.
- The functions of `LCDIIC.c`, `tmp007.c` and `opt3001.c` that nobody calls.
- `azure_main.c` of the samples, copies of `main.c`; `certs.c`, constants.

## Plan

1. *Done*: `SendQueue`, `TlsIo`, `AzClient`, `MqttSample`, `AzCore`, `Screen`, `Display`,
   `SensorCore`, `TwinSample`, `Bmi160` and `Bmi160Modes`, with their proofs.
2. The FIFO of the motion sensor, whose parser depends on the header mode the running modes
   choose.
