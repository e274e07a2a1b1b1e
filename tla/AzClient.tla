------------------------------ MODULE AzClient ------------------------------
(***************************************************************************)
(* The IoT Hub client of the project example,                              *)
(* examples/azure_project/main/AzureClient.c: connect, send an event and   *)
(* wait for its confirmation, retry, and re-create the client when the     *)
(* connection is lost.                                                     *)
(*                                                                         *)
(* The client runs in one task.  The Azure IoT SDK, which is external,     *)
(* runs only inside IoTHubClient_LL_DoWork: pc is then "connect", "wait"   *)
(* or "tick", and any number of its callbacks run before DoWork returns.   *)
(* An event is known here by the tracking id bSendEventOnce gives it.      *)
(***************************************************************************)
EXTENDS Integers

CONSTANTS MaxId,      \* bound on the tracking ids given
          SEND_EVENT_RETRY_COUNT,
          Trials,     \* turns of the wait loop: SENDING_EVENTS_TIMEOUT_MS / GAP
          ConnTrials, \* turns of the connection loop of bInitialize
          TickLoops   \* calls of DoWork in one vTick

ASSUME MaxIdAssumption == MaxId \in Nat
ASSUME LoopAssumption ==
    {SEND_EVENT_RETRY_COUNT, Trials, ConnTrials, TickLoops} \subseteq Nat \ {0}

EVENT_CONFIRMED == -2
EVENT_FAILED == -3
Ids == 0..MaxId
Sends == {"bSendEventInstance", "bSendEvent", "bReportState"}

VARIABLES
    iotHubClientHandle,  \* whether there is a client (the pointer is not NULL)
    statusCBk,           \* whether that client has the connection status callback
    bClientConnected,
    bResetClient,
    currentTrackingId,
    s32TrackingId,       \* the next tracking id
    pc,                  \* where the task is
    op,                  \* the function of the interface it is in, or was last in
    attempts,            \* attempts left in the retry loop
    trials,              \* turns left in the innermost loop
    current,             \* the event of the bSendEventOnce in progress, or the last
    returned,            \* what op returned: "none" while it runs
    outstanding,         \* events owned by the SDK: accepted, not yet confirmed
    states,              \* those events that report a state
    frees,               \* how many times each event was freed
    hub                  \* the events the hub acknowledged to the SDK

flags == <<bClientConnected, bResetClient, currentTrackingId>>
handle == <<iotHubClientHandle, statusCBk>>
control == <<pc, op, attempts, trials, current, returned>>
events == <<outstanding, states, frees, hub>>
vars == <<handle, flags, s32TrackingId, control, events>>

Init ==
    /\ iotHubClientHandle = FALSE
    /\ statusCBk = FALSE
    /\ bClientConnected = FALSE
    /\ bResetClient = FALSE
    /\ currentTrackingId = -1
    /\ s32TrackingId = 0
    /\ pc = "start"
    /\ op = "bInitialize"
    /\ attempts = 0
    /\ trials = 0
    /\ current = -1
    /\ returned = "none"
    /\ outstanding = {}
    /\ states = {}
    /\ frees = [e \in Ids |-> 0]
    /\ hub = {}
-----------------------------------------------------------------------------
(* Returning.                                                              *)

Returns(value) == pc' = "idle" /\ returned' = value

AttemptsLeft == attempts > 1

\* An attempt that failed is followed by the next one, if any is left.
AttemptFails ==
    IF AttemptsLeft
    THEN pc' = "attempt" /\ attempts' = attempts - 1 /\ UNCHANGED returned
    ELSE Returns("FALSE") /\ attempts' = 0

Free(e) == frees' = [frees EXCEPT ![e] = @ + 1]
-----------------------------------------------------------------------------
(* vCheckConnection, vClose, bInitialize.                                  *)

\* vCheckConnection returns, to vTick or to bSendEventOnce.
Checked ==
    IF op = "vTick"
    THEN pc' = "tick" /\ trials' = TickLoops
    ELSE pc' = "send" /\ trials' = Trials

\* IoTHubClient_LL_Destroy calls back every event it still owns, with a result
\* other than OK; the callback frees the event.
LL_Destroy ==
    /\ frees' = [e \in Ids |-> IF e \in outstanding THEN frees[e] + 1 ELSE frees[e]]
    /\ outstanding' = {}
    /\ currentTrackingId' = IF currentTrackingId \in outstanding \ states
                            THEN EVENT_FAILED ELSE currentTrackingId

\* vCheckConnection: AzClient_vClose, then AzClient_bInitialize.
vCheckConnection ==
    /\ pc = "check"
    /\ IF bResetClient
       THEN /\ IF iotHubClientHandle THEN LL_Destroy
               ELSE UNCHANGED <<outstanding, frees, currentTrackingId>>
            /\ iotHubClientHandle' = FALSE
            /\ statusCBk' = FALSE
            /\ pc' = "initialize"
            /\ UNCHANGED trials
       ELSE /\ Checked
            /\ UNCHANGED <<handle, outstanding, frees, currentTrackingId>>
    /\ UNCHANGED <<bClientConnected, bResetClient, s32TrackingId, op, attempts, current,
                   returned, states, hub>>

\* bInitialize returns to its caller; vCheckConnection ignores the result.
Initialized(value) ==
    IF op = "bInitialize"
    THEN Returns(value) /\ UNCHANGED <<trials, bResetClient>>
    ELSE bResetClient' = FALSE /\ Checked /\ UNCHANGED returned

Start ==
    /\ pc = "start"
    /\ pc' = "initialize"
    /\ UNCHANGED <<handle, flags, s32TrackingId, op, attempts, trials, current,
                   returned, events>>

\* IoTHub_Init fails, or the client cannot be created: the result is still true.
InitializeNoClient ==
    /\ pc = "initialize"
    /\ Initialized("TRUE")
    /\ UNCHANGED <<handle, bClientConnected, currentTrackingId, s32TrackingId, op,
                   attempts, current, events>>

\* An option or a callback cannot be set: the client stays as it is.
InitializeOptionFails ==
    /\ pc = "initialize"
    /\ iotHubClientHandle' = TRUE
    /\ statusCBk' \in BOOLEAN
    /\ Initialized("FALSE")
    /\ UNCHANGED <<bClientConnected, currentTrackingId, s32TrackingId, op, attempts,
                   current, events>>

InitializeConnects ==
    /\ pc = "initialize"
    /\ iotHubClientHandle' = TRUE
    /\ statusCBk' = TRUE
    /\ pc' = "connect"
    /\ trials' = ConnTrials
    /\ UNCHANGED <<flags, s32TrackingId, op, attempts, current, returned, events>>

\* DoWork returns in the connection loop.
ConnectDoWorkReturns ==
    /\ pc = "connect"
    /\ IF bClientConnected \/ trials = 1
       THEN Initialized("TRUE")
       ELSE trials' = trials - 1 /\ UNCHANGED <<pc, returned, bResetClient>>
    /\ UNCHANGED <<handle, bClientConnected, currentTrackingId, s32TrackingId, op,
                   attempts, current, events>>
-----------------------------------------------------------------------------
(* bSendEventInstance, bSendEvent, bReportState, vTick.                    *)

Idle == pc = "idle" /\ ~(op = "bInitialize" /\ returned = "FALSE")

\* A call is made only while the ids left are enough for all of its attempts.
SendCall(f) ==
    /\ Idle
    /\ s32TrackingId + SEND_EVENT_RETRY_COUNT <= MaxId + 1
    /\ pc' = "attempt"
    /\ op' = f
    /\ attempts' = IF f = "bSendEventInstance" THEN 1 ELSE SEND_EVENT_RETRY_COUNT
    /\ returned' = "none"
    /\ UNCHANGED <<handle, flags, s32TrackingId, trials, current, events>>

\* tBuildEvent cannot create the message, or there is no client and bSendEventOnce
\* frees the event it was given.
AttemptNotMade ==
    /\ pc = "attempt"
    /\ op # "bReportState" \/ ~iotHubClientHandle
    /\ AttemptFails
    /\ UNCHANGED <<handle, flags, s32TrackingId, op, trials, current, events>>

TrackEvent == currentTrackingId' = s32TrackingId

\* bSendEventOnce up to vCheckConnection.
AttemptStarts ==
    /\ pc = "attempt"
    /\ iotHubClientHandle
    /\ TrackEvent
    /\ current' = s32TrackingId
    /\ s32TrackingId' = s32TrackingId + 1
    /\ states' = IF op = "bReportState" THEN states \union {current'} ELSE states
    /\ pc' = "check"
    /\ UNCHANGED <<handle, bClientConnected, bResetClient, op, attempts, trials,
                   returned, outstanding, frees, hub>>

\* Mutant: an event the SDK did not accept is not freed.
SendAsyncFailsAndLeaks ==
    /\ pc = "send"
    /\ AttemptFails
    /\ UNCHANGED <<handle, flags, s32TrackingId, op, trials, current, events>>

\* IoTHubClient_LL_SendEventAsync, or SendReportedState, refuses the event.
SendAsyncFails ==
    /\ pc = "send"
    /\ Free(current)
    /\ AttemptFails
    /\ UNCHANGED <<handle, flags, s32TrackingId, op, trials, current, outstanding,
                   states, hub>>

SendAsyncAccepts ==
    /\ pc = "send"
    /\ iotHubClientHandle
    /\ outstanding' = outstanding \union {current}
    /\ pc' = "wait"
    /\ UNCHANGED <<handle, flags, s32TrackingId, op, attempts, trials, current,
                   returned, states, frees, hub>>

\* Mutant: a time-out does not ask for a new client.
TimeoutKeepsClient == UNCHANGED bResetClient

TimeoutResetsClient == bResetClient' = TRUE

\* Mutant: once the event failed, its time does not run.
CountUnlessFailed == IF currentTrackingId = EVENT_FAILED THEN trials ELSE trials - 1

TrialsLeft == trials - 1

\* DoWork returns in the wait loop of bSendEventOnce.
WaitDoWorkReturns ==
    /\ pc = "wait"
    /\ \/ /\ currentTrackingId = EVENT_CONFIRMED
          /\ Returns("TRUE")
          /\ attempts' = 0
          /\ UNCHANGED <<bResetClient, trials>>
       \/ /\ currentTrackingId # EVENT_CONFIRMED
          /\ bResetClient
          /\ AttemptFails
          /\ UNCHANGED <<bResetClient, trials>>
       \/ /\ currentTrackingId # EVENT_CONFIRMED
          /\ ~bResetClient
          /\ trials' = TrialsLeft
          /\ IF trials' = 0
             THEN TimeoutResetsClient /\ AttemptFails
             ELSE UNCHANGED <<bResetClient, pc, returned, attempts>>
    /\ UNCHANGED <<handle, bClientConnected, currentTrackingId, s32TrackingId, op,
                   current, events>>

\* Mutant: vTick does not look at bResetClient.
TickWithoutCheck == pc' = "tick" /\ trials' = TickLoops

TickChecks == pc' = "check" /\ UNCHANGED trials

vTick ==
    /\ Idle
    /\ iotHubClientHandle
    /\ op' = "vTick"
    /\ returned' = "none"
    /\ TickChecks
    /\ UNCHANGED <<handle, flags, s32TrackingId, attempts, current, events>>

\* Without a client, vTick returns at once.
vTickNoClient ==
    /\ Idle
    /\ ~iotHubClientHandle
    /\ op' = "vTick"
    /\ returned' = "done"
    /\ UNCHANGED <<handle, flags, s32TrackingId, pc, attempts, trials, current, events>>

\* DoWork returns in the loop of vTick.
TickDoWorkReturns ==
    /\ pc = "tick"
    /\ IF bResetClient \/ trials = 1
       THEN Returns("done") /\ trials' = 0
       ELSE trials' = trials - 1 /\ UNCHANGED <<pc, returned>>
    /\ UNCHANGED <<handle, flags, s32TrackingId, op, attempts, current, events>>
-----------------------------------------------------------------------------
(* The SDK, inside DoWork: the hub acknowledges the event; callbacks.       *)

InDoWork == pc \in {"connect", "wait", "tick"} /\ iotHubClientHandle

Deliver(e) ==
    /\ InDoWork
    /\ e \in outstanding
    /\ hub' = hub \union {e}
    /\ UNCHANGED <<handle, flags, s32TrackingId, control, outstanding, states, frees>>

\* Mutant: every confirmation of the event waited for counts, whatever its result.
AnyConfirmation(e, ok) ==
    IF currentTrackingId = e THEN EVENT_CONFIRMED ELSE currentTrackingId

\* What SendConfirmationCBk and ReportConfirmationCBk make of the result.
Confirmation(e, ok) ==
    IF currentTrackingId # e THEN currentTrackingId
    ELSE IF ok THEN EVENT_CONFIRMED
    ELSE IF e \in states THEN currentTrackingId
    ELSE EVENT_FAILED

\* A confirmation: OK (or 204) for an event the hub acknowledged, or a failure.
Confirm(e, ok) ==
    /\ InDoWork
    /\ e \in outstanding
    /\ ok => e \in hub
    /\ currentTrackingId' = Confirmation(e, ok)
    /\ outstanding' = outstanding \ {e}
    /\ Free(e)
    /\ UNCHANGED <<handle, bClientConnected, bResetClient, s32TrackingId, control,
                   states, hub>>

\* AzClient_vConnectionStatusCBk: connected; lost in a way that asks for a new
\* client (expired token or no network, unauthenticated); any other report.
ConnectionStatus ==
    /\ InDoWork
    /\ statusCBk
    /\ \/ bClientConnected' = TRUE /\ UNCHANGED bResetClient
       \/ bClientConnected' = FALSE /\ bResetClient' = TRUE
       \/ bClientConnected' = FALSE /\ UNCHANGED bResetClient
    /\ UNCHANGED <<handle, currentTrackingId, s32TrackingId, control, events>>
-----------------------------------------------------------------------------
\* bInitialize returned false: the caller of this module gives up.
Stopped ==
    /\ pc = "idle"
    /\ ~Idle
    /\ UNCHANGED vars

Calls == (\E f \in Sends : SendCall(f)) \/ vTick \/ vTickNoClient

Steps ==
    \/ Start
    \/ vCheckConnection
    \/ InitializeNoClient
    \/ InitializeOptionFails
    \/ InitializeConnects
    \/ ConnectDoWorkReturns
    \/ AttemptNotMade
    \/ AttemptStarts
    \/ SendAsyncFails
    \/ SendAsyncAccepts
    \/ WaitDoWorkReturns
    \/ TickDoWorkReturns

SDK ==
    \/ \E e \in Ids : Deliver(e)
    \/ \E e \in Ids, ok \in BOOLEAN : Confirm(e, ok)
    \/ ConnectionStatus

Next == Calls \/ Steps \/ SDK \/ Stopped

Spec == Init /\ [][Next]_vars

\* The task runs, DoWork returns, the caller calls vTick again and again (AzureCore
\* does so between two reports), and bInitialize, tried again and again, succeeds.
Fairness ==
    /\ WF_vars(Steps)
    /\ SF_vars(vTick \/ vTickNoClient)
    /\ SF_vars(InitializeConnects)

FairSpec == Spec /\ Fairness
-----------------------------------------------------------------------------
(* Properties.                                                             *)

\* The type invariant.
TypeOK ==
    /\ iotHubClientHandle \in BOOLEAN
    /\ statusCBk \in BOOLEAN
    /\ bClientConnected \in BOOLEAN
    /\ bResetClient \in BOOLEAN
    /\ currentTrackingId \in Ids \union {-1, EVENT_CONFIRMED, EVENT_FAILED}
    /\ s32TrackingId \in 0..(MaxId + 1)
    /\ pc \in {"start", "initialize", "connect", "idle", "attempt", "check", "send",
               "wait", "tick"}
    /\ op \in Sends \union {"bInitialize", "vTick"}
    /\ attempts \in 0..SEND_EVENT_RETRY_COUNT
    /\ trials \in Nat
    /\ current \in Ids \union {-1}
    /\ returned \in {"none", "TRUE", "FALSE", "done"}
    /\ outstanding \subseteq Ids
    /\ states \subseteq Ids
    /\ frees \in [Ids -> Nat]
    /\ hub \subseteq Ids

\* A send that returns true delivered the event of its own last attempt: neither
\* the confirmation of another event nor a failed one is taken for it (lines
\* 440-450, 556-562, 631-634).
TrueMeansDelivered ==
    pc = "idle" /\ op \in Sends /\ returned = "TRUE" => current \in hub

\* The SDK owns at most one event at a time: an event that timed out is gone with
\* its client before the next one is sent, so that no late confirmation comes in
\* while the next one is waited for (lines 576-586, 602, 648-653).
AtMostOneOutstanding ==
    /\ \A e, f \in outstanding : e = f
    /\ pc = "send" => outstanding = {}
    /\ pc = "wait" => outstanding \subseteq {current}

\* Every event ever given an id has one owner, bSendEventOnce or the SDK, until it
\* is freed, once: nothing is leaked, freed twice or called back after it was freed
\* (lines 453, 569, 597, 609, 621).
Handling == pc \in {"check", "initialize", "connect", "send"} /\ op \in Sends
InHand(e) == e = current /\ Handling
EventHasOneOwner ==
    \A e \in 0..(s32TrackingId - 1) :
       /\ frees[e] <= 1
       /\ frees[e] = 1 <=> e \notin outstanding /\ ~InHand(e)
       /\ InHand(e) => e \notin outstanding

\* Why these hold, as one inductive invariant: an event stays with the SDK after its
\* bSendEventOnce gave up only if a reset is due; what is waited for is the event in
\* hand, and it is confirmed only if it reached the hub; an id is given once; no
\* loop runs over (lines 273, 334, 350, 578-584, 602, 627-655).
Leftover ==
    /\ \A e, f \in outstanding : e = f
    /\ outstanding # {} => iotHubClientHandle
    /\ pc \in {"idle", "attempt", "check"} /\ outstanding # {} => bResetClient
    /\ pc \in {"start", "initialize", "connect", "send", "tick"} => outstanding = {}
    /\ pc = "wait" => outstanding \subseteq {current}
Tracking ==
    /\ Handling => currentTrackingId = current
    /\ pc = "wait" => currentTrackingId \in {current, EVENT_CONFIRMED, EVENT_FAILED}
    /\ pc = "wait" /\ currentTrackingId = EVENT_CONFIRMED
          => current \in hub /\ current \notin outstanding
Numbering ==
    /\ \A e \in outstanding : e < s32TrackingId
    /\ current < s32TrackingId
    /\ Handling \/ pc = "wait" => current \in Ids
    /\ \A e \in Ids : e >= s32TrackingId => frees[e] = 0
Callers ==
    /\ pc \in {"attempt", "send", "wait"} => op \in Sends
    /\ pc = "start" => op = "bInitialize"
    /\ pc = "check" => op # "bInitialize"
    /\ pc = "tick" => op = "vTick"
Budget ==
    /\ pc \in {"connect", "send", "wait", "tick"} => trials > 0
    /\ pc = "attempt" => attempts > 0 /\ s32TrackingId + attempts <= MaxId + 1
    /\ Handling \/ pc = "wait" => attempts > 0 /\ s32TrackingId + attempts <= MaxId + 2
ClientInvariant ==
    /\ Leftover
    /\ Tracking
    /\ Numbering
    /\ Callers
    /\ Budget
    /\ TrueMeansDelivered
    /\ EventHasOneOwner

\* Every call returns, whatever the hub does: each attempt ends by a confirmation,
\* a reset or its time-out (lines 627-655).
CallsReturn == []<>(pc = "idle")

\* A reset that was asked for is served as long as vTick is called (lines 317, 578).
ResetIsServed == bResetClient ~> ~bResetClient \/ (pc = "idle" /\ ~Idle)
-----------------------------------------------------------------------------
(* What a comment of the source says and the code does not do.              *)

\* Line 581: re-connect the IoT Hub.  A re-connection that was begun leads to a new
\* client, at its first attempt or at a later one.
Reconnects == pc = "initialize" /\ op # "bInitialize" ~> iotHubClientHandle
=============================================================================
