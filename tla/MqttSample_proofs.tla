-------------------------- MODULE MqttSample_proofs --------------------------
(* The proofs about MqttSample: the two parts of its inductive invariant are *)
(* the types, TypeOK, and SampleInvariant, whose part Progress bounds what   *)
(* is in flight to one message, the one with the number callbackCounter.     *)
EXTENDS MqttSample, TLAPS

IInv == TypeOK /\ SampleInvariant

\* The initial state satisfies the invariant.
LEMMA InitHolds == Init => IInv
<1>1. ASSUME Init PROVE TypeOK
  BY <1>1, CountAssumption DEF Init, TypeOK, Handles, NULL
<1>2. ASSUME Init PROVE SampleInvariant
  BY <1>2, CountAssumption DEF Init, SampleInvariant, SharedInstance,
     DestroyedWhenAnswered, ConfirmedInTurn, Progress, Numbers, Ended
<1> QED BY <1>1, <1>2 DEF IInv

\* ConfirmedInTurn follows from the other parts in every state.
LEMMA InTurnFollows == TypeOK /\ Progress => ConfirmedInTurn
<1> SUFFICES ASSUME TypeOK, Progress PROVE ConfirmedInTurn
  OBVIOUS
<1>1. Ended /\ g_continueRunning => confirmed = Numbers(MESSAGE_COUNT)
  BY DEF Progress
<1>2. pc = "loop" /\ MaySend => confirmed = Numbers(iterator)
  BY DEF TypeOK, Progress, MaySend
<1> QED BY <1>1, <1>2 DEF ConfirmedInTurn

\* Starting, or failing to, keeps the invariant.
LEMMA StartHolds == IInv /\ (Start \/ StartFails) => IInv'
<1> SUFFICES ASSUME IInv, (Start \/ StartFails) PROVE TypeOK' /\ SampleInvariant'
  BY DEF IInv
<1> USE CountAssumption DEF IInv, Start, StartFails, loop, handles
<1>1. TypeOK'
  BY DEF TypeOK, Handles, NULL
<1>2. SharedInstance'
  BY DEF SampleInvariant, SharedInstance, Progress, TypeOK, Handles
<1>3. DestroyedWhenAnswered'
  BY DEF SampleInvariant, SharedInstance, DestroyedWhenAnswered, Progress, TypeOK,
     Numbers
<1>4. Progress'
  <2>1. iterator = 0 /\ iterator' = 0
    BY DEF SampleInvariant, Progress
  <2>2. ~Ended'
    BY <2>1 DEF Ended
  <2>3. UNCHANGED <<callbackCounter, confirmed, outstanding, created>> /\ pc' # "start"
    OBVIOUS
  <2> QED BY <2>1, <2>2, <2>3 DEF SampleInvariant, Progress, Numbers
<1>5. ConfirmedInTurn'
  BY <1>1, <1>4, InTurnFollows, PTL
<1> QED BY <1>1, <1>2, <1>3, <1>4, <1>5 DEF SampleInvariant

\* A message that cannot be created keeps it: its number is used up.
LEMMA CreateFailsHolds == IInv /\ CreateFails => IInv'
<1> SUFFICES ASSUME IInv, CreateFails PROVE TypeOK' /\ SampleInvariant'
  BY DEF IInv
<1> USE CountAssumption DEF IInv, CreateFails, MaySend, loop, handles
<1>1. TypeOK'
  BY DEF TypeOK, Handles, NULL
<1>2. SharedInstance'
  BY DEF SampleInvariant, SharedInstance, Progress, TypeOK, Handles
<1>3. DestroyedWhenAnswered'
  BY DEF SampleInvariant, SharedInstance, DestroyedWhenAnswered, Progress, TypeOK,
     Numbers
<1>4. Progress'
  BY DEF SampleInvariant, Progress, TypeOK, Ended, Numbers
<1>5. ConfirmedInTurn'
  BY <1>1, <1>4, InTurnFollows, PTL
<1> QED BY <1>1, <1>2, <1>3, <1>4, <1>5 DEF SampleInvariant

\* A send keeps it: MaySend says that nothing is in flight.
LEMMA SendHolds == IInv /\ (\E accepted \in BOOLEAN : SendEventAsync(accepted)) => IInv'
<1> SUFFICES ASSUME IInv, (\E accepted \in BOOLEAN : SendEventAsync(accepted)) PROVE TypeOK' /\ SampleInvariant'
  BY DEF IInv
<1> USE CountAssumption DEF IInv, SendEventAsync, StoreMessage, MaySend, loop, handles
<1>1. TypeOK'
  BY DEF TypeOK, Handles, NULL
<1>2. SharedInstance'
  BY DEF SampleInvariant, SharedInstance, Progress, TypeOK, Handles
<1>3. DestroyedWhenAnswered'
  BY DEF SampleInvariant, SharedInstance, DestroyedWhenAnswered, Progress, TypeOK,
     Numbers
<1>4. Progress'
  BY DEF SampleInvariant, Progress, TypeOK, Ended, Numbers
<1>5. ConfirmedInTurn'
  BY <1>1, <1>4, InTurnFollows, PTL
<1> QED BY <1>1, <1>2, <1>3, <1>4, <1>5 DEF SampleInvariant

\* A turn without a send keeps it.
LEMMA SkipHolds == IInv /\ Skip => IInv'
<1> SUFFICES ASSUME IInv, Skip PROVE TypeOK' /\ SampleInvariant'
  BY DEF IInv
<1> USE CountAssumption DEF IInv, Skip, loop, handles
<1>1. TypeOK'
  BY DEF TypeOK, Handles, NULL
<1>2. SharedInstance'
  BY DEF SampleInvariant, SharedInstance, Progress, TypeOK, Handles
<1>3. DestroyedWhenAnswered'
  BY DEF SampleInvariant, SharedInstance, DestroyedWhenAnswered, Progress, TypeOK,
     Numbers
<1>4. Progress'
  BY DEF SampleInvariant, Progress, TypeOK, Ended, Numbers
<1>5. ConfirmedInTurn'
  BY <1>1, <1>4, InTurnFollows, PTL
<1> QED BY <1>1, <1>2, <1>3, <1>4, <1>5 DEF SampleInvariant

\* A confirmation keeps it: the message is the one in flight, and the one named by
\* the instance.
LEMMA ConfirmHolds ==
    IInv /\ (\E e \in outstanding, ok \in BOOLEAN : SendConfirmationCallback(e, ok)) => IInv'
<1> SUFFICES ASSUME IInv,
                    NEW e \in outstanding, NEW ok \in BOOLEAN,
                    SendConfirmationCallback(e, ok)
             PROVE TypeOK' /\ SampleInvariant'
  BY DEF IInv
<1> USE DEF IInv, SampleInvariant
<1>1. /\ e = callbackCounter /\ e \in Nat /\ outstanding = {e} /\ outstanding' = {}
      /\ iterator = callbackCounter + 1
      /\ message.messageHandle = e /\ e \in created
  <2>1. outstanding # {} /\ e \in outstanding
    OBVIOUS
  <2>2. e = callbackCounter /\ e \in Nat /\ e \in created /\ outstanding = {e}
    BY <2>1 DEF TypeOK, Progress
  <2>3. iterator = callbackCounter + 1
    BY <2>1 DEF Progress
  <2>4. message.messageHandle = e
    BY <2>1 DEF SharedInstance
  <2>5. outstanding' = {}
    BY <2>2 DEF SendConfirmationCallback
  <2> QED BY <2>2, <2>3, <2>4, <2>5
<1>2. UNCHANGED <<iterator, g_continueRunning, message, index, pc, created>>
  BY DEF SendConfirmationCallback, loop
<1>3. destroyed' = destroyed \union {e}
  BY <1>1 DEF SendConfirmationCallback
<1>4. confirmed' = IF ok THEN confirmed \union {e} ELSE confirmed
  BY DEF SendConfirmationCallback
<1>5. callbackCounter' = IF ok THEN callbackCounter + 1 ELSE callbackCounter
  BY DEF SendConfirmationCallback, Counted
<1>6. TypeOK'
  <2>1. callbackCounter' \in Nat
    BY <1>5 DEF TypeOK
  <2>2. outstanding' \subseteq Nat /\ confirmed' \subseteq Nat
    BY <1>1, <1>4 DEF TypeOK
  <2>3. destroyed' \subseteq Handles
    BY <1>1, <1>3 DEF TypeOK, Handles
  <2> QED BY <1>2, <2>1, <2>2, <2>3 DEF TypeOK
<1>7. SharedInstance'
  BY <1>1 DEF SharedInstance
<1>8. DestroyedWhenAnswered'
  BY <1>1, <1>2, <1>3, <1>4 DEF DestroyedWhenAnswered
<1>9. Progress'
  <2>1. confirmed' = Numbers(callbackCounter)'
    <3>1. confirmed = 0..(callbackCounter - 1) /\ callbackCounter \in Nat
      BY DEF Progress, Numbers, TypeOK
    <3>2. CASE ok
      <4>1. callbackCounter' = callbackCounter + 1
        BY <3>2, <1>5
      <4>2. confirmed' = 0..(callbackCounter - 1) \union {callbackCounter}
        BY <3>1, <3>2, <1>1, <1>4
      <4> QED BY <3>1, <4>1, <4>2 DEF Numbers
    <3>3. CASE ~ok
      BY <3>1, <3>3, <1>4, <1>5 DEF Numbers
    <3> QED BY <3>2, <3>3
  <2>2. iterator' \in {callbackCounter', callbackCounter' + 1}
    BY <1>1, <1>2, <1>5 DEF TypeOK
  <2>3. ~(Ended /\ g_continueRunning)'
    BY <1>1, <1>2, CountAssumption DEF TypeOK, Progress, Ended
  <2>4. (created \subseteq Numbers(iterator))'
    BY <1>2 DEF Progress
  <2> QED BY <1>1, <1>2, <2>1, <2>2, <2>3, <2>4 DEF Progress
<1> QED BY <1>6, <1>7, <1>8, <1>9, InTurnFollows, PTL

\* The quit message keeps it.
LEMMA ReceiveHolds == IInv /\ ReceiveQuit => IInv'
<1> SUFFICES ASSUME IInv, ReceiveQuit PROVE TypeOK' /\ SampleInvariant'
  BY DEF IInv
<1> USE CountAssumption DEF IInv, ReceiveQuit, loop, handles
<1>1. TypeOK'
  BY DEF TypeOK, Handles, NULL
<1>2. SharedInstance'
  BY DEF SampleInvariant, SharedInstance, Progress, TypeOK, Handles
<1>3. DestroyedWhenAnswered'
  BY DEF SampleInvariant, SharedInstance, DestroyedWhenAnswered, Progress, TypeOK,
     Numbers
<1>4. Progress'
  BY DEF SampleInvariant, Progress, TypeOK, Ended, Numbers
<1>5. ConfirmedInTurn'
  BY <1>1, <1>4, InTurnFollows, PTL
<1> QED BY <1>1, <1>2, <1>3, <1>4, <1>5 DEF SampleInvariant

\* The end of a turn keeps it: the count bounds what was tried.
LEMMA DoWorkHolds == IInv /\ DoWorkReturns => IInv'
<1> SUFFICES ASSUME IInv, DoWorkReturns PROVE TypeOK' /\ SampleInvariant'
  BY DEF IInv
<1> USE DEF IInv, SampleInvariant, DoWorkReturns, loop, handles
<1>1. TypeOK'
  BY DEF TypeOK
<1>2. SharedInstance' /\ DestroyedWhenAnswered'
  BY DEF SharedInstance, DestroyedWhenAnswered
<1>3. Progress'
  <2>1. (Ended /\ g_continueRunning)' => MESSAGE_COUNT # 0 /\ callbackCounter = MESSAGE_COUNT
    BY CountAssumption DEF TypeOK, Progress, Ended, AllConfirmed
  <2> QED BY <2>1 DEF Progress, Numbers
<1> QED BY <1>1, <1>2, <1>3, InTurnFollows, PTL

\* The last turns and the end of the client keep it.
LEMMA DrainHolds == IInv /\ DrainDoWorkReturns => IInv'
<1> SUFFICES ASSUME IInv, DrainDoWorkReturns PROVE TypeOK' /\ SampleInvariant'
  BY DEF IInv
<1> USE DEF IInv, SampleInvariant
<1>1. UNCHANGED <<iterator, g_continueRunning, message, callbackCounter, confirmed,
                  created>>
  BY DEF DrainDoWorkReturns
<1>2. CASE TurnLeft
  <2>1. index' = index - 1 /\ UNCHANGED <<pc, outstanding, destroyed>>
    BY <1>2 DEF DrainDoWorkReturns
  <2>2. TypeOK'
    BY <1>1, <1>2, <2>1, CountAssumption DEF TypeOK, TurnLeft
  <2>3. SharedInstance' /\ DestroyedWhenAnswered' /\ Progress'
    BY <1>1, <2>1 DEF SharedInstance, DestroyedWhenAnswered, Progress, Ended, Numbers
  <2> QED BY <2>2, <2>3, InTurnFollows, PTL
<1>3. CASE ~TurnLeft
  <2>1. /\ pc = "drain" /\ pc' = "done" /\ outstanding' = {} /\ index' = index
        /\ destroyed' = IF outstanding = {} THEN destroyed
                        ELSE destroyed \union {message.messageHandle}
    BY <1>3 DEF DrainDoWorkReturns
  <2>2. outstanding # {} => message.messageHandle \in created
    BY DEF SharedInstance, Progress
  <2>3. TypeOK'
    BY <1>1, <2>1, <2>2 DEF TypeOK, Handles
  <2>4. SharedInstance' /\ DestroyedWhenAnswered'
    BY <1>1, <2>1, <2>2 DEF SharedInstance, DestroyedWhenAnswered
  <2>5. Progress'
    BY <1>1, <2>1 DEF Progress, Ended, Numbers
  <2> QED BY <2>3, <2>4, <2>5, InTurnFollows, PTL
<1> QED BY <1>2, <1>3

\* The invariant of the sample, SampleInvariant, with the types, is inductive: it holds
\* in every reachable state, for any number of messages and of last turns.
THEOREM SampleIsInvariant == Spec => [](TypeOK /\ SampleInvariant)
<1>1. Init => IInv
  BY InitHolds
<1>2. IInv /\ [Next]_vars => IInv'
  <2> SUFFICES ASSUME IInv, [Next]_vars PROVE IInv'
    OBVIOUS
  <2>1. CASE UNCHANGED vars
    BY <2>1 DEF IInv, vars, loop, handles, TypeOK, SampleInvariant, SharedInstance,
       DestroyedWhenAnswered, ConfirmedInTurn, Progress, Ended, MaySend, Numbers
  <2>2. CASE Start \/ StartFails
    BY <2>2, StartHolds
  <2>3. CASE CreateFails
    BY <2>3, CreateFailsHolds
  <2>4. CASE \E accepted \in BOOLEAN : SendEventAsync(accepted)
    BY <2>4, SendHolds
  <2>5. CASE Skip
    BY <2>5, SkipHolds
  <2>6. CASE \E e \in outstanding, ok \in BOOLEAN : SendConfirmationCallback(e, ok)
    BY <2>6, ConfirmHolds
  <2>7. CASE ReceiveQuit
    BY <2>7, ReceiveHolds
  <2>8. CASE DoWorkReturns \/ DrainDoWorkReturns
    BY <2>8, DoWorkHolds, DrainHolds
  <2> QED
    BY <2>1, <2>2, <2>3, <2>4, <2>5, <2>6, <2>7, <2>8
       DEF Next, Send, Callbacks, Returns, Done
<1> QED BY <1>1, <1>2, PTL DEF Spec, IInv

\* The EVENT_INSTANCE that all the sends share always names the one message that is
\* unconfirmed (SharedInstance).
THEOREM InstanceIsSafe == Spec => []SharedInstance
BY SampleIsInvariant, PTL DEF SampleInvariant

\* The callback destroys the handle of the message it confirms and no other
\* (DestroyedWhenAnswered).
THEOREM DestroysTheAnswered == Spec => []DestroyedWhenAnswered
BY SampleIsInvariant, PTL DEF SampleInvariant

\* A send waits for its turn, and a sample that ends by its count has had all of its
\* messages confirmed (ConfirmedInTurn).
THEOREM EndsWithAllConfirmed == Spec => []ConfirmedInTurn
BY SampleIsInvariant, PTL DEF SampleInvariant

\* Every variable keeps its type (TypeOK).
THEOREM TypeCorrect == Spec => []TypeOK
BY SampleIsInvariant, PTL
=============================================================================
