-------------------------- MODULE AzClient_proofs ---------------------------
(***************************************************************************)
(* Proofs about AzClient for any number of tracking ids, retries and turns *)
(* of its loops: ClientInvariant, with the type invariant, is inductive,   *)
(* and the safety properties follow from it.  One lemma per action, one    *)
(* step per part of the invariant.                                         *)
(***************************************************************************)
EXTENDS AzClient, TLAPS

\* The loops of the client turn at least once.
LEMMA LoopBounds ==
    /\ MaxId \in Nat
    /\ SEND_EVENT_RETRY_COUNT \in Nat \ {0}
    /\ Trials \in Nat \ {0}
    /\ ConnTrials \in Nat \ {0}
    /\ TickLoops \in Nat \ {0}
  BY MaxIdAssumption, LoopAssumption DEF MaxIdAssumption, LoopAssumption

USE LoopBounds DEF handle, flags, control, events, Ids, Sends, EVENT_CONFIRMED, EVENT_FAILED

Inv == TypeOK /\ ClientInvariant

\* The invariant holds before the first call of bInitialize.
LEMMA InitKeeps == Init => Inv
<1> SUFFICES ASSUME Init PROVE Inv
  OBVIOUS
<1>1. frees \in [Ids -> Nat] /\ \A e \in Ids : frees[e] = 0
  BY DEF Init
<1>2. TypeOK
  <2>1. s32TrackingId \in 0..(MaxId + 1) /\ attempts \in 0..SEND_EVENT_RETRY_COUNT
    BY DEF Init
  <2> QED
    BY <1>1, <2>1 DEF Init, TypeOK
<1>3. Leftover /\ Tracking /\ Callers /\ Budget
  BY DEF Init, Leftover, Tracking, Callers, Budget, Handling
<1>4. Numbering
  BY <1>1 DEF Init, Numbering, Handling
<1>5. TrueMeansDelivered /\ EventHasOneOwner
  BY DEF Init, TrueMeansDelivered, EventHasOneOwner
<1> QED
  BY <1>2, <1>3, <1>4, <1>5 DEF Inv, ClientInvariant

\* A reset destroys the client with the event it still owns, before anything else is
\* sent; no reset due means that nothing is left (lines 576-586, 303-310).
LEMMA vCheckConnectionKeeps ==
    ASSUME Inv, vCheckConnection PROVE Inv'
<1> USE DEF Inv, ClientInvariant, vCheckConnection, Checked, LL_Destroy
<1>1. TypeOK'
  <2>1. frees' \in [Ids -> Nat]
    <3>1. \/ frees' = frees
          \/ frees' = [e \in Ids |-> IF e \in outstanding THEN frees[e] + 1 ELSE frees[e]]
      OBVIOUS
    <3>2. frees \in [Ids -> Nat]
      BY DEF TypeOK
    <3>3. \A e \in Ids : frees[e] \in Nat /\ frees[e] + 1 \in Nat
      BY <3>2
    <3>4. [e \in Ids |-> IF e \in outstanding THEN frees[e] + 1 ELSE frees[e]] \in [Ids -> Nat]
      BY <3>3
    <3> QED
      BY <3>1, <3>2, <3>4
  <2>2. outstanding' \subseteq Ids /\ iotHubClientHandle' \in BOOLEAN /\ statusCBk' \in BOOLEAN
    BY DEF TypeOK
  <2>3. currentTrackingId' \in Ids \union {-1, EVENT_CONFIRMED, EVENT_FAILED}
    BY DEF TypeOK
  <2>4. trials' \in Nat /\ pc' \in {"initialize", "tick", "send"}
    BY DEF TypeOK
  <2> QED
    BY <2>1, <2>2, <2>3, <2>4 DEF TypeOK
<1>2. Leftover'
  BY DEF Leftover
<1>3. Tracking'
  <2>1. pc' \in {"initialize", "tick", "send"} /\ op' = op /\ current' = current
    OBVIOUS
  <2>2. Handling' => Handling
    BY <2>1 DEF Handling
  <2>3. Handling => currentTrackingId = current /\ current \notin outstanding
    BY DEF Tracking, EventHasOneOwner, InHand, Handling, Numbering, TypeOK
  <2>4. Handling => currentTrackingId' = current'
    BY <2>1, <2>3
  <2> QED
    BY <2>1, <2>2, <2>4 DEF Tracking
<1>4. Numbering'
  <2>1. pc' \in {"initialize", "tick", "send"} /\ op' = op /\ current' = current
    OBVIOUS
  <2>2. Handling' => Handling
    BY <2>1 DEF Handling
  <2>3. \A e \in Ids : e >= s32TrackingId => e \notin outstanding
    BY DEF Numbering, TypeOK
  <2>4. \A e \in Ids : e >= s32TrackingId => frees'[e] = 0
    BY <2>3 DEF Numbering, TypeOK
  <2>5. outstanding' \subseteq outstanding
    OBVIOUS
  <2> QED
    BY <2>1, <2>2, <2>4, <2>5 DEF Numbering
<1>5. Callers'
  BY DEF TypeOK, Callers
<1>6. Budget'
  BY DEF Budget, Handling
<1>7. TrueMeansDelivered'
  BY DEF TrueMeansDelivered
<1>8. EventHasOneOwner'
  BY DEF TypeOK, EventHasOneOwner, InHand, Handling, Leftover
<1> QED
  BY <1>1, <1>2, <1>3, <1>4, <1>5, <1>6, <1>7, <1>8

\* Initialisation fails before there is a client: the caller goes on without one, or
\* with the client it had (lines 81-95).
LEMMA InitializeNoClientKeeps ==
    ASSUME Inv, InitializeNoClient PROVE Inv'
<1> USE DEF Inv, ClientInvariant, InitializeNoClient, Initialized, Returns, Checked
<1>1. TypeOK'
  <2>1. trials' \in Nat
    BY DEF TypeOK
  <2>2. bResetClient' \in BOOLEAN
    BY DEF TypeOK
  <2>3. pc' \in {"tick", "send", "idle"} /\ returned' \in {returned, "TRUE"}
    OBVIOUS
  <2> QED
    BY <2>1, <2>2, <2>3 DEF TypeOK
<1>2. Leftover'
  BY DEF Leftover
<1>3. Tracking'
  BY DEF Tracking, Handling
<1>4. Numbering'
  BY DEF Numbering, Handling
<1>5. Callers'
  BY DEF TypeOK, Callers
<1>6. Budget'
  BY DEF Budget, Handling
<1>7. TrueMeansDelivered'
  BY DEF TrueMeansDelivered
<1>8. EventHasOneOwner'
  BY DEF EventHasOneOwner, InHand, Handling
<1> QED
  BY <1>1, <1>2, <1>3, <1>4, <1>5, <1>6, <1>7, <1>8

\* Initialisation fails with a client already created (lines 98-270).
LEMMA InitializeOptionFailsKeeps ==
    ASSUME Inv, InitializeOptionFails PROVE Inv'
<1> USE DEF Inv, ClientInvariant, InitializeOptionFails, Initialized, Returns, Checked
<1>1. TypeOK'
  BY DEF TypeOK
<1>2. Leftover'
  BY DEF Leftover
<1>3. Tracking'
  BY DEF Tracking, Handling
<1>4. Numbering'
  BY DEF Numbering, Handling
<1>5. Callers'
  BY DEF TypeOK, Callers
<1>6. Budget'
  BY DEF Budget, Handling
<1>7. TrueMeansDelivered'
  BY DEF TrueMeansDelivered
<1>8. EventHasOneOwner'
  BY DEF EventHasOneOwner, InHand, Handling
<1> QED
  BY <1>1, <1>2, <1>3, <1>4, <1>5, <1>6, <1>7, <1>8

\* The client is configured, the connection loop begins (lines 98-271).
LEMMA InitializeConnectsKeeps ==
    ASSUME Inv, InitializeConnects PROVE Inv'
<1> USE DEF Inv, ClientInvariant, InitializeConnects
<1>1. TypeOK'
  BY DEF TypeOK
<1>2. Leftover'
  BY DEF Leftover
<1>3. Tracking'
  BY DEF Tracking, Handling
<1>4. Numbering'
  BY DEF Numbering, Handling
<1>5. Callers'
  BY DEF Callers
<1>6. Budget'
  BY DEF Budget, Handling
<1>7. TrueMeansDelivered'
  BY DEF TrueMeansDelivered
<1>8. EventHasOneOwner'
  BY DEF EventHasOneOwner, InHand, Handling
<1> QED
  BY <1>1, <1>2, <1>3, <1>4, <1>5, <1>6, <1>7, <1>8

\* The connection loop ends, connected or not (lines 271-286).
LEMMA ConnectDoWorkReturnsKeeps ==
    ASSUME Inv, ConnectDoWorkReturns PROVE Inv'
<1> USE DEF Inv, ClientInvariant, ConnectDoWorkReturns, Initialized, Returns, Checked
<1>1. TypeOK'
  <2>1. trials' \in Nat
    BY DEF TypeOK, Budget
  <2>3. bResetClient' \in BOOLEAN
    BY DEF TypeOK
  <2>2. pc' \in {"connect", "tick", "send", "idle"} /\ returned' \in {returned, "TRUE"}
    OBVIOUS
  <2> QED
    BY <2>1, <2>2, <2>3 DEF TypeOK
<1>2. Leftover'
  BY DEF Leftover
<1>3. Tracking'
  BY DEF Tracking, Handling
<1>4. Numbering'
  BY DEF Numbering, Handling
<1>5. Callers'
  BY DEF TypeOK, Callers
<1>6. Budget'
  BY DEF TypeOK, Budget, Handling
<1>7. TrueMeansDelivered'
  BY DEF TrueMeansDelivered
<1>8. EventHasOneOwner'
  BY DEF EventHasOneOwner, InHand, Handling
<1> QED
  BY <1>1, <1>2, <1>3, <1>4, <1>5, <1>6, <1>7, <1>8

\* The first call of bInitialize (line 72).
LEMMA StartKeeps ==
    ASSUME Inv, Start PROVE Inv'
<1> USE DEF Inv, ClientInvariant, Start
<1>1. TypeOK'
  BY DEF TypeOK
<1>2. Leftover'
  BY DEF Leftover
<1>3. Tracking'
  BY DEF Tracking, Callers, Handling
<1>4. Numbering'
  BY DEF Numbering, Callers, Handling
<1>5. Callers'
  BY DEF Callers
<1>6. Budget'
  BY DEF Budget, Callers, Handling
<1>7. TrueMeansDelivered'
  BY DEF TrueMeansDelivered
<1>8. EventHasOneOwner'
  BY DEF EventHasOneOwner, InHand, Handling, Callers
<1> QED
  BY <1>1, <1>2, <1>3, <1>4, <1>5, <1>6, <1>7, <1>8

\* An attempt fails before an event gets an id (lines 359-387, 590-599).
LEMMA AttemptNotMadeKeeps ==
    ASSUME Inv, AttemptNotMade PROVE Inv'
<1> USE DEF Inv, ClientInvariant, AttemptNotMade, AttemptFails, AttemptsLeft, Returns
<1>1. TypeOK'
  BY DEF TypeOK
<1>2. Leftover'
  BY DEF Leftover
<1>3. Tracking'
  BY DEF Tracking, Handling
<1>4. Numbering'
  BY DEF Numbering, Handling
<1>5. Callers'
  BY DEF Callers
<1>6. Budget'
  BY DEF TypeOK, Budget, Handling
<1>7. TrueMeansDelivered'
  BY DEF TrueMeansDelivered
<1>8. EventHasOneOwner'
  BY DEF EventHasOneOwner, InHand, Handling
<1> QED
  BY <1>1, <1>2, <1>3, <1>4, <1>5, <1>6, <1>7, <1>8

\* The event gets a new id and becomes the one waited for (lines 600-602).
LEMMA AttemptStartsKeeps ==
    ASSUME Inv, AttemptStarts PROVE Inv'
<1> USE DEF Inv, ClientInvariant, AttemptStarts, TrackEvent
<1>1. TypeOK'
  BY DEF TypeOK, Budget
<1>2. Leftover'
  BY DEF Leftover
<1>3. Tracking'
  BY DEF Tracking, Handling
<1>4. Numbering'
  BY DEF TypeOK, Numbering, Budget, Handling
<1>5. Callers'
  BY DEF Callers
<1>6. Budget'
  BY DEF TypeOK, Budget, Handling
<1>7. TrueMeansDelivered'
  BY DEF TrueMeansDelivered
<1>8. EventHasOneOwner'
  BY DEF TypeOK, EventHasOneOwner, InHand, Handling, Numbering, Callers, Leftover,
         Budget
<1> QED
  BY <1>1, <1>2, <1>3, <1>4, <1>5, <1>6, <1>7, <1>8

\* The event that was not accepted is freed by bSendEventOnce (lines 603-625).
LEMMA SendAsyncFailsKeeps ==
    ASSUME Inv, SendAsyncFails PROVE Inv'
<1> USE DEF Inv, ClientInvariant, SendAsyncFails, Free, AttemptFails, AttemptsLeft,
            Returns
<1>1. TypeOK'
  <2>1. current \in Ids /\ frees \in [Ids -> Nat]
    BY DEF TypeOK, Numbering, Handling, Callers
  <2>2. frees' \in [Ids -> Nat]
    BY <2>1
  <2>3. attempts' \in 0..SEND_EVENT_RETRY_COUNT
    BY DEF TypeOK, Budget, Handling, Callers
  <2>4. pc' \in {"attempt", "idle"} /\ returned' \in {returned, "FALSE"}
    OBVIOUS
  <2> QED
    BY <2>2, <2>3, <2>4 DEF TypeOK
<1>2. Leftover'
  BY DEF Leftover
<1>3. Tracking'
  BY DEF Tracking, Handling
<1>4. Numbering'
  BY DEF TypeOK, Numbering, Handling
<1>5. Callers'
  BY DEF Callers
<1>6. Budget'
  BY DEF TypeOK, Budget, Callers, Handling
<1>7. TrueMeansDelivered'
  BY DEF TrueMeansDelivered
<1>8. EventHasOneOwner'
  BY DEF TypeOK, EventHasOneOwner, InHand, Handling, Callers
<1> QED
  BY <1>1, <1>2, <1>3, <1>4, <1>5, <1>6, <1>7, <1>8

\* The event passes from bSendEventOnce to the SDK (lines 603-627).
LEMMA SendAsyncAcceptsKeeps ==
    ASSUME Inv, SendAsyncAccepts PROVE Inv'
<1> USE DEF Inv, ClientInvariant, SendAsyncAccepts
<1>1. TypeOK'
  BY DEF TypeOK, Numbering, Callers, Handling
<1>2. Leftover'
  BY DEF Leftover
<1>3. Tracking'
  BY DEF TypeOK, Tracking, Callers, Handling
<1>4. Numbering'
  BY DEF Numbering, Callers, Handling
<1>5. Callers'
  BY DEF Callers
<1>6. Budget'
  <2>1. Handling
    BY DEF Callers, Handling
  <2>2. attempts > 0 /\ s32TrackingId + attempts <= MaxId + 2 /\ trials > 0
    BY <2>1 DEF Budget
  <2> QED
    BY <2>2 DEF Budget, Handling
<1>7. TrueMeansDelivered'
  BY DEF TrueMeansDelivered
<1>8. EventHasOneOwner'
  BY DEF EventHasOneOwner, InHand, Handling, Callers
<1> QED
  BY <1>1, <1>2, <1>3, <1>4, <1>5, <1>6, <1>7, <1>8

\* The wait loop ends with the confirmation, with a reset due, or with the time-out,
\* which makes a reset due (lines 627-657).
LEMMA WaitDoWorkReturnsKeeps ==
    ASSUME Inv, WaitDoWorkReturns PROVE Inv'
<1> USE DEF Inv, ClientInvariant, WaitDoWorkReturns, Returns, AttemptFails, AttemptsLeft,
            TrialsLeft, TimeoutResetsClient
<1>1. TypeOK'
  <2>1. pc = "wait" /\ trials > 0 /\ trials \in Nat /\ attempts > 0
    BY DEF TypeOK, Budget
  <2>2. trials' \in Nat
    BY <2>1
  <2>3. attempts' \in 0..SEND_EVENT_RETRY_COUNT
    BY <2>1 DEF TypeOK
  <2>4. pc' \in {"wait", "attempt", "idle"} /\ returned' \in {returned, "TRUE", "FALSE"}
    OBVIOUS
  <2>5. bResetClient' \in BOOLEAN
    BY DEF TypeOK
  <2> QED
    BY <2>2, <2>3, <2>4, <2>5 DEF TypeOK
<1>2. Leftover'
  <2>1. outstanding \subseteq {current}
    BY DEF Leftover
  <2>2. iotHubClientHandle \/ outstanding = {}
    BY DEF Leftover
  <2>3. pc' \in {"wait", "attempt", "idle"}
    OBVIOUS
  <2>4. pc' # "wait" => bResetClient' \/ outstanding = {}
    BY <2>1 DEF Tracking
  <2> QED
    BY <2>1, <2>2, <2>3, <2>4 DEF Leftover
<1>3. Tracking'
  BY DEF Tracking, Handling
<1>4. Numbering'
  BY DEF Numbering, Handling
<1>5. Callers'
  BY DEF Callers
<1>6. Budget'
  BY DEF TypeOK, Budget, Handling
<1>7. TrueMeansDelivered'
  BY DEF TypeOK, TrueMeansDelivered, Tracking
<1>8. EventHasOneOwner'
  BY DEF EventHasOneOwner, InHand, Handling
<1> QED
  BY <1>1, <1>2, <1>3, <1>4, <1>5, <1>6, <1>7, <1>8

\* A turn of the loop of vTick (lines 318-326).
LEMMA TickDoWorkReturnsKeeps ==
    ASSUME Inv, TickDoWorkReturns PROVE Inv'
<1> USE DEF Inv, ClientInvariant, TickDoWorkReturns, Returns
<1>1. TypeOK'
  BY DEF TypeOK, Budget
<1>2. Leftover'
  BY DEF Leftover
<1>3. Tracking'
  BY DEF Tracking, Handling
<1>4. Numbering'
  BY DEF Numbering, Handling
<1>5. Callers'
  BY DEF Callers
<1>6. Budget'
  BY DEF TypeOK, Budget, Handling
<1>7. TrueMeansDelivered'
  BY DEF TrueMeansDelivered
<1>8. EventHasOneOwner'
  BY DEF EventHasOneOwner, InHand, Handling
<1> QED
  BY <1>1, <1>2, <1>3, <1>4, <1>5, <1>6, <1>7, <1>8

\* A send is called (lines 328-358).
LEMMA SendCallKeeps ==
    ASSUME Inv, NEW f \in Sends, SendCall(f) PROVE Inv'
<1> USE DEF Inv, ClientInvariant, SendCall, Idle
<1>1. TypeOK'
  BY DEF TypeOK
<1>2. Leftover'
  BY DEF Leftover
<1>3. Tracking'
  BY DEF Tracking, Handling
<1>4. Numbering'
  BY DEF Numbering, Handling
<1>5. Callers'
  BY DEF Callers
<1>6. Budget'
  BY DEF TypeOK, Budget, Handling
<1>7. TrueMeansDelivered'
  BY DEF TrueMeansDelivered
<1>8. EventHasOneOwner'
  BY DEF EventHasOneOwner, InHand, Handling
<1> QED
  BY <1>1, <1>2, <1>3, <1>4, <1>5, <1>6, <1>7, <1>8

\* vTick is called with a client (lines 311-317).
LEMMA vTickKeeps ==
    ASSUME Inv, vTick PROVE Inv'
<1> USE DEF Inv, ClientInvariant, vTick, TickChecks, Idle
<1>1. TypeOK'
  BY DEF TypeOK
<1>2. Leftover'
  BY DEF Leftover
<1>3. Tracking'
  BY DEF Tracking, Handling
<1>4. Numbering'
  BY DEF Numbering, Handling
<1>5. Callers'
  BY DEF Callers
<1>6. Budget'
  BY DEF Budget, Handling
<1>7. TrueMeansDelivered'
  BY DEF TrueMeansDelivered
<1>8. EventHasOneOwner'
  BY DEF EventHasOneOwner, InHand, Handling
<1> QED
  BY <1>1, <1>2, <1>3, <1>4, <1>5, <1>6, <1>7, <1>8

\* vTick is called without a client (lines 311-316).
LEMMA vTickNoClientKeeps ==
    ASSUME Inv, vTickNoClient PROVE Inv'
<1> USE DEF Inv, ClientInvariant, vTickNoClient, Idle
<1>1. TypeOK'
  BY DEF TypeOK
<1>2. Leftover'
  BY DEF Leftover
<1>3. Tracking'
  BY DEF Tracking, Handling
<1>4. Numbering'
  BY DEF Numbering, Handling
<1>5. Callers'
  BY DEF Callers
<1>6. Budget'
  BY DEF Budget, Handling
<1>7. TrueMeansDelivered'
  BY DEF TrueMeansDelivered
<1>8. EventHasOneOwner'
  BY DEF EventHasOneOwner, InHand, Handling
<1> QED
  BY <1>1, <1>2, <1>3, <1>4, <1>5, <1>6, <1>7, <1>8

\* The hub acknowledges an event the SDK owns.
LEMMA DeliverKeeps ==
    ASSUME Inv, NEW e \in Ids, Deliver(e) PROVE Inv'
<1> USE DEF Inv, ClientInvariant, Deliver, InDoWork
<1>1. TypeOK'
  BY DEF TypeOK
<1>2. Leftover'
  BY DEF Leftover
<1>3. Tracking'
  BY DEF Tracking, Handling
<1>4. Numbering'
  BY DEF Numbering, Handling
<1>5. Callers'
  BY DEF Callers
<1>6. Budget'
  BY DEF Budget, Handling
<1>7. TrueMeansDelivered'
  BY DEF TrueMeansDelivered
<1>8. EventHasOneOwner'
  BY DEF EventHasOneOwner, InHand, Handling
<1> QED
  BY <1>1, <1>2, <1>3, <1>4, <1>5, <1>6, <1>7, <1>8

\* A confirmation frees its event, and counts only for the event waited for (lines
\* 434-459, 550-575).
LEMMA ConfirmKeeps ==
    ASSUME Inv, NEW e \in Ids, NEW ok \in BOOLEAN, Confirm(e, ok) PROVE Inv'
<1> USE DEF Inv, ClientInvariant, Confirm, InDoWork, Confirmation, Free
<1>1. TypeOK'
  BY DEF TypeOK
<1>2. Leftover'
  BY DEF Leftover
<1>3. Tracking'
  BY DEF Tracking, Leftover, Handling
<1>4. Numbering'
  BY DEF TypeOK, Numbering, Handling
<1>5. Callers'
  BY DEF Callers
<1>6. Budget'
  BY DEF Budget, Handling
<1>7. TrueMeansDelivered'
  BY DEF TrueMeansDelivered
<1>8. EventHasOneOwner'
  BY DEF TypeOK, EventHasOneOwner, InHand, Handling
<1> QED
  BY <1>1, <1>2, <1>3, <1>4, <1>5, <1>6, <1>7, <1>8

\* The status callback touches two flags only (lines 389-433).
LEMMA ConnectionStatusKeeps ==
    ASSUME Inv, ConnectionStatus PROVE Inv'
<1> USE DEF Inv, ClientInvariant, ConnectionStatus, InDoWork
<1>1. TypeOK'
  BY DEF TypeOK
<1>2. Leftover'
  BY DEF Leftover
<1>3. Tracking'
  BY DEF Tracking, Handling
<1>4. Numbering'
  BY DEF Numbering, Handling
<1>5. Callers'
  BY DEF Callers
<1>6. Budget'
  BY DEF Budget, Handling
<1>7. TrueMeansDelivered'
  BY DEF TrueMeansDelivered
<1>8. EventHasOneOwner'
  BY DEF EventHasOneOwner, InHand, Handling
<1> QED
  BY <1>1, <1>2, <1>3, <1>4, <1>5, <1>6, <1>7, <1>8

-----------------------------------------------------------------------------
(* The theorems.                                                           *)

\* Every step of the task, of its callers and of the SDK keeps the invariant.
LEMMA NextKeeps == Inv /\ [Next]_vars => Inv'
<1> SUFFICES ASSUME Inv, [Next]_vars PROVE Inv'
  OBVIOUS
<1>1. CASE Calls
  BY <1>1, SendCallKeeps, vTickKeeps, vTickNoClientKeeps DEF Calls
<1>2. CASE Steps
  BY <1>2, vCheckConnectionKeeps, InitializeNoClientKeeps, InitializeOptionFailsKeeps,
           InitializeConnectsKeeps, ConnectDoWorkReturnsKeeps, StartKeeps,
           AttemptNotMadeKeeps, AttemptStartsKeeps, SendAsyncFailsKeeps,
           SendAsyncAcceptsKeeps, WaitDoWorkReturnsKeeps, TickDoWorkReturnsKeeps
     DEF Steps
<1>3. CASE SDK
  BY <1>3, DeliverKeeps, ConfirmKeeps, ConnectionStatusKeeps DEF SDK
<1>4. CASE UNCHANGED vars
  BY <1>4 DEF vars, Inv, ClientInvariant, TypeOK, Leftover, Tracking, Numbering, Callers,
              Budget, Handling, TrueMeansDelivered, EventHasOneOwner, InHand
<1>5. CASE Stopped
  BY <1>4, <1>5 DEF Stopped
<1> QED
  BY <1>1, <1>2, <1>3, <1>4, <1>5 DEF Next

\* The invariant holds in every reachable state.
LEMMA Invariance == Spec => []Inv
<1> QED
  BY InitKeeps, NextKeeps, PTL DEF Spec

\* Every variable of the client keeps its type: ids stay within their bound and no
\* counter of a loop falls below zero, for any retry and loop counts.
THEOREM TypeCorrect == Spec => []TypeOK
<1>1. Inv => TypeOK
  BY DEF Inv
<1> QED
  BY <1>1, Invariance, PTL

\* The inductive invariant of the client: who owns which event, and what the event
\* waited for may be, at each point of the task.
THEOREM ClientIsInvariant == Spec => []ClientInvariant
<1>1. Inv => ClientInvariant
  BY DEF Inv
<1> QED
  BY <1>1, Invariance, PTL

\* A send that returns true delivered its own last event (lines 440-450, 556-562).
THEOREM TrueIsDelivered == Spec => []TrueMeansDelivered
<1>1. Inv => TrueMeansDelivered
  BY DEF Inv, ClientInvariant
<1> QED
  BY <1>1, Invariance, PTL

\* The SDK never owns two events, so that a late confirmation cannot be taken for
\* that of another event (lines 576-586, 648-653).
THEOREM OneOutstanding == Spec => []AtMostOneOutstanding
<1>1. Inv => AtMostOneOutstanding
  BY DEF Inv, ClientInvariant, Leftover, AtMostOneOutstanding
<1> QED
  BY <1>1, Invariance, PTL

\* No event is leaked, freed twice or called back after it was freed (lines 453,
\* 569, 597, 609, 621).
THEOREM OneOwner == Spec => []EventHasOneOwner
<1>1. Inv => EventHasOneOwner
  BY DEF Inv, ClientInvariant
<1> QED
  BY <1>1, Invariance, PTL
=============================================================================
