----------------------------- MODULE MqttSample -----------------------------
(***************************************************************************)
(* The MQTT sample,                                                        *)
(* examples/iothub_client_sample_mqtt/main/iothub_client_sample_mqtt.c: it *)
(* sends MESSAGE_COUNT messages, the next one when all before it are       *)
(* confirmed, through one EVENT_INSTANCE that all of the sends share.      *)
(*                                                                         *)
(* External: the SDK, whose callbacks run inside IoTHubClient_LL_DoWork    *)
(* (pc = "dowork") and IoTHubClient_LL_Destroy.  A message handle is known *)
(* here by the value of iterator it was created with.                      *)
(***************************************************************************)
EXTENDS Integers, FiniteSets

CONSTANTS MESSAGE_COUNT,   \* the messages to send, 0 for no end of them
          DOWORK_LOOP_NUM

ASSUME CountAssumption == MESSAGE_COUNT \in Nat /\ DOWORK_LOOP_NUM \in Nat

NULL == -1

VARIABLES
    iterator,           \* the messages tried
    callbackCounter,    \* the messages confirmed with OK
    g_continueRunning,
    message,            \* the EVENT_INSTANCE: the handle and the id last stored
    index,              \* turns left of the last loop
    pc,                 \* "start", "loop", "dowork", "drain", "done"
    outstanding,        \* ids of the messages the SDK still has to confirm
    confirmed,          \* ids of the messages confirmed with OK
    created, destroyed  \* message handles

loop == <<iterator, g_continueRunning, message, index>>
handles == <<created, destroyed>>
vars == <<loop, callbackCounter, pc, outstanding, confirmed, handles>>

Init ==
    /\ iterator = 0
    /\ callbackCounter = 0
    /\ g_continueRunning = TRUE
    /\ message = [messageHandle |-> NULL, messageTrackingId |-> NULL]
    /\ index = DOWORK_LOOP_NUM
    /\ pc = "start"
    /\ outstanding = {}
    /\ confirmed = {}
    /\ created = {}
    /\ destroyed = {}
-----------------------------------------------------------------------------
\* The client is created and its message callback is set.
Start ==
    /\ pc = "start"
    /\ pc' = "loop"
    /\ UNCHANGED <<loop, callbackCounter, outstanding, confirmed, handles>>

\* IoTHub_Init fails, or the client or its message callback cannot be had.
StartFails ==
    /\ pc = "start"
    /\ pc' = "done"
    /\ UNCHANGED <<loop, callbackCounter, outstanding, confirmed, handles>>

\* Mutant: the next message does not wait for the confirmation of the last one.
AheadByOne == MESSAGE_COUNT = 0 \/ iterator < MESSAGE_COUNT

\* The condition of the send but for the interval, which passes or has not yet.
MaySend ==
    /\ MESSAGE_COUNT = 0 \/ iterator < MESSAGE_COUNT
    /\ iterator <= callbackCounter

\* The message cannot be created.
CreateFails ==
    /\ pc = "loop"
    /\ MaySend
    /\ message' = [message EXCEPT !.messageHandle = NULL]
    /\ iterator' = iterator + 1
    /\ pc' = "dowork"
    /\ UNCHANGED <<callbackCounter, g_continueRunning, index, outstanding, confirmed,
                   handles>>

\* Mutant: the shared instance keeps the first handle it got.
StoreHandleOnce ==
    message' = IF message.messageHandle = NULL
               THEN [messageHandle |-> iterator, messageTrackingId |-> iterator]
               ELSE [message EXCEPT !.messageTrackingId = iterator]

StoreMessage == message' = [messageHandle |-> iterator, messageTrackingId |-> iterator]

\* The message is created and offered to the SDK, which accepts it or does not.
SendEventAsync(accepted) ==
    /\ pc = "loop"
    /\ MaySend
    /\ StoreMessage
    /\ created' = created \union {iterator}
    /\ outstanding' = IF accepted THEN outstanding \union {iterator} ELSE outstanding
    /\ iterator' = iterator + 1
    /\ pc' = "dowork"
    /\ UNCHANGED <<callbackCounter, g_continueRunning, index, confirmed, destroyed>>

\* It is not the time to send, or not the turn.
Skip ==
    /\ pc = "loop"
    /\ pc' = "dowork"
    /\ UNCHANGED <<loop, callbackCounter, outstanding, confirmed, handles>>

Counted(ok) == IF ok THEN callbackCounter + 1 ELSE callbackCounter

\* SendConfirmationCallback, for the send of message e.
SendConfirmationCallback(e, ok) ==
    /\ pc \in {"dowork", "drain"}
    /\ e \in outstanding
    /\ outstanding' = outstanding \ {e}
    /\ confirmed' = IF ok THEN confirmed \union {e} ELSE confirmed
    /\ callbackCounter' = Counted(ok)
    /\ destroyed' = destroyed \union {message.messageHandle}
    /\ UNCHANGED <<loop, pc, created>>

\* ReceiveMessageCallback, for the message "quit".
ReceiveQuit ==
    /\ pc \in {"dowork", "drain"}
    /\ g_continueRunning' = FALSE
    /\ UNCHANGED <<iterator, message, index, callbackCounter, pc, outstanding, confirmed,
                   handles>>

\* Mutant: the sample ends when it has tried the messages.
AllTried == MESSAGE_COUNT # 0 /\ iterator >= MESSAGE_COUNT

\* Mutant: the sample waits for one confirmation more than there are messages.
OneTooMany == MESSAGE_COUNT # 0 /\ callbackCounter > MESSAGE_COUNT

AllConfirmed == MESSAGE_COUNT # 0 /\ callbackCounter >= MESSAGE_COUNT

DoWorkReturns ==
    /\ pc = "dowork"
    /\ pc' = IF AllConfirmed \/ ~g_continueRunning THEN "drain" ELSE "loop"
    /\ UNCHANGED <<loop, callbackCounter, outstanding, confirmed, handles>>

TurnLeft == index > 0

\* The last calls of DoWork; then the client is destroyed, and calls back with a
\* result other than OK for the message it still has.
DrainDoWorkReturns ==
    /\ pc = "drain"
    /\ IF TurnLeft
       THEN index' = index - 1 /\ UNCHANGED <<pc, outstanding, destroyed>>
       ELSE /\ pc' = "done"
            /\ outstanding' = {}
            /\ destroyed' = IF outstanding = {} THEN destroyed
                            ELSE destroyed \union {message.messageHandle}
            /\ UNCHANGED index
    /\ UNCHANGED <<iterator, g_continueRunning, message, callbackCounter, confirmed,
                   created>>

Done == pc = "done" /\ UNCHANGED vars
-----------------------------------------------------------------------------
Send == CreateFails \/ \E accepted \in BOOLEAN : SendEventAsync(accepted)

Callbacks ==
    \/ \E e \in outstanding, ok \in BOOLEAN : SendConfirmationCallback(e, ok)
    \/ ReceiveQuit

Returns == DoWorkReturns \/ DrainDoWorkReturns

Next == Start \/ StartFails \/ Send \/ Skip \/ Callbacks \/ Returns \/ Done

Spec == Init /\ [][Next]_vars

\* The task runs, the interval passes, and what the SDK accepted is answered.
Fairness ==
    /\ WF_vars(Start \/ StartFails \/ Send \/ Skip \/ Returns)
    /\ SF_vars(Send)
    /\ SF_vars(\E e \in outstanding, ok \in BOOLEAN : SendConfirmationCallback(e, ok))

FairSpec == Spec /\ Fairness
-----------------------------------------------------------------------------
(* Properties.                                                             *)

Handles == Nat \union {NULL}

\* The type invariant.
TypeOK ==
    /\ iterator \in Nat
    /\ callbackCounter \in Nat
    /\ g_continueRunning \in BOOLEAN
    /\ message \in [messageHandle : Handles, messageTrackingId : Handles]
    /\ index \in 0..DOWORK_LOOP_NUM
    /\ pc \in {"start", "loop", "dowork", "drain", "done"}
    /\ outstanding \subseteq Nat
    /\ confirmed \subseteq Nat
    /\ created \subseteq Nat
    /\ destroyed \subseteq Handles

\* The one EVENT_INSTANCE is never overwritten while the SDK has it as the context
\* of an unconfirmed send: when the callback runs, the instance still names the
\* message that is confirmed (lines 136, 189, 196, 202).
SharedInstance ==
    \A e \in outstanding : message = [messageHandle |-> e, messageTrackingId |-> e]

\* A message handle is destroyed only after its confirmation, never twice, and never
\* when there is none: what is in flight is not destroyed, and the callback destroys
\* the message it is about (line 122).
DestroyedWhenAnswered ==
    /\ destroyed \subseteq created
    /\ destroyed \intersect outstanding = {}
    /\ confirmed \subseteq destroyed

Numbers(n) == 0..(n - 1)

Ended == pc = "drain" \/ (pc = "done" /\ iterator > 0)

\* A sample that ended without being told to quit had every one of its messages
\* confirmed, and a send starts only when all messages before it are (lines 189, 225).
ConfirmedInTurn ==
    /\ Ended /\ g_continueRunning => confirmed = Numbers(MESSAGE_COUNT)
    /\ pc = "loop" /\ MaySend => confirmed = Numbers(iterator)

\* The messages confirmed are the first callbackCounter of them, and at most one
\* more was tried (lines 117-121, 189, 220).
Progress ==
    /\ confirmed = Numbers(callbackCounter)
    /\ iterator \in {callbackCounter, callbackCounter + 1}
    /\ outstanding \subseteq {callbackCounter}
    /\ outstanding # {} => iterator = callbackCounter + 1
    /\ created \subseteq Numbers(iterator)
    /\ outstanding \subseteq created
    /\ MESSAGE_COUNT # 0 => iterator <= MESSAGE_COUNT
    /\ pc = "start" => iterator = 0
    /\ Ended /\ g_continueRunning => MESSAGE_COUNT # 0 /\ callbackCounter = MESSAGE_COUNT

\* The inductive invariant: the three properties above, and Progress, the reason for
\* them.
SampleInvariant ==
    SharedInstance /\ DestroyedWhenAnswered /\ ConfirmedInTurn /\ Progress

\* A message was lost: not created, not accepted, or confirmed with a failure.
Lost == \E i \in Numbers(iterator) : i \notin confirmed \union outstanding

\* The sample ends, unless it could not start or a message is lost.
EndsUnlessLost == MESSAGE_COUNT # 0 => <>(pc = "done" \/ Lost)
=============================================================================
