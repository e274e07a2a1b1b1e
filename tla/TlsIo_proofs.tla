---------------------------- MODULE TlsIo_proofs ----------------------------
(***************************************************************************)
(* Proofs about TlsIo for any set of messages, any size and any way in     *)
(* which the upper layer calls the adapter back from inside its callbacks. *)
(***************************************************************************)
EXTENDS TlsIo, SequenceTheorems, TLAPS

USE SizeAssumption, CountAssumption DEF SizeAssumption, CountAssumption

-----------------------------------------------------------------------------
(* What the control operators and the steps on the queue keep.             *)

Points == Callbacks \union Inside

\* The queue operators keep the types of what they assign: the removal of the
\* oldest message, with whichever result its callback gets (lines 84-119).
LEMMA ProcessType ==
    ASSUME TypeOK,
           NEW send_result \in {"OK", "CANCELLED"},
           process_and_destroy_head_message(send_result)
    PROVE  /\ pending' \in Seq(Msgs)
           /\ completed' \in Seq(Msgs)
           /\ result' \in [Msgs -> {"none", "OK", "CANCELLED"}]
<1>1. pending \in Seq(Msgs) /\ pending # <<>> /\ completed \in Seq(Msgs)
  BY DEF TypeOK, process_and_destroy_head_message
<1>2. Head(pending) \in Msgs /\ Tail(pending) \in Seq(Msgs)
  BY <1>1
<1>3. result \in [Msgs -> {"none", "OK", "CANCELLED"}]
  BY DEF TypeOK
<1>4. result' \in [Msgs -> {"none", "OK", "CANCELLED"}]
  BY <1>2, <1>3 DEF process_and_destroy_head_message
<1> QED
  BY <1>1, <1>2, <1>4 DEF process_and_destroy_head_message

\* Entering, leaving or replacing a point of control keeps the stack well formed.
LEMMA StackType ==
    ASSUME TypeOK, NEW point \in Points,
           \/ Call(point)
           \/ stack # <<>> /\ (Goto(point) \/ Return)
    PROVE  stack' \in Seq(Points)
<1>1. stack \in Seq(Points)
  BY DEF TypeOK, Points
<1>2. CASE Call(point)
  BY <1>1, <1>2 DEF Call
<1>3. CASE stack # <<>> /\ Goto(point)
  <2>1. Tail(stack) \in Seq(Points)
    BY <1>1, <1>3
  <2> QED
    BY <2>1, <1>3 DEF Goto
<1>4. CASE stack # <<>> /\ Return
  BY <1>1, <1>4 DEF Return
<1> QED
  BY <1>2, <1>3, <1>4

-----------------------------------------------------------------------------
(* Type correctness.                                                       *)

\* The initial state has the right types.
LEMMA InitType == Init => TypeOK
<1> SUFFICES ASSUME Init PROVE TypeOK
  OBVIOUS
<1>1. <<>> \in Seq(Msgs) /\ <<>> \in Seq(Callbacks \union Inside)
        /\ <<>> \in Seq(Msgs \X (1..MaxSize))
  OBVIOUS
<1>2. /\ size \in [Msgs -> 0..MaxSize]
      /\ unsent \in [Msgs -> 0..MaxSize]
      /\ \A m \in Msgs : unsent[m] <= size[m]
  BY DEF Init
<1>3. result \in [Msgs -> {"none", "OK", "CANCELLED"}]
  BY DEF Init
<1> QED
  BY <1>1, <1>2, <1>3 DEF Init, TypeOK, States

\* Each call of the upper layer keeps the types.
LEMMA UpperLayerType ==
    ASSUME TypeOK, UpperLayer
    PROVE  TypeOK'
<1> USE DEF conn, config, queue
<1>1. CASE Create
  BY <1>1 DEF TypeOK, Create
<1>2. CASE Destroy
  <2>1. stack' \in Seq(Points)
    BY <1>2, StackType DEF Destroy, Idle, TypeOK, Points, Inside
  <2> QED
    BY <1>2, <2>1 DEF TypeOK, Destroy, Delete_connection, Uses_handle, Points
<1>3. ASSUME NEW o \in Options, SetOption(o)
      PROVE  TypeOK'
  BY <1>3 DEF TypeOK, SetOption
<1>4. CASE OpenAsync
  BY <1>4 DEF TypeOK, OpenAsync, Configured, States
<1>5. CASE CloseAsync
  <2>1. stack' \in Seq(Points)
    BY <1>5, StackType DEF CloseAsync, TypeOK, Points, Inside, Callbacks
  <2> QED
    BY <1>5, <2>1 DEF TypeOK, CloseAsync, Delete_connection, Uses_handle, Points
<1>6. ASSUME NEW m \in Msgs, NEW s \in 1..MaxSize, SendAsync(m, s)
      PROVE  TypeOK'
  <2>1. stack' \in Seq(Points)
    BY <1>6, StackType DEF SendAsync, Points, Inside
  <2> QED
    BY <1>6, <2>1 DEF TypeOK, SendAsync, Unsent, Enqueue, Points
<1> QED
  BY <1>1, <1>2, <1>3, <1>4, <1>5, <1>6 DEF UpperLayer

\* A write takes the next bytes of the oldest message: the wire and the count of
\* bytes left stay well formed.
LEMMA WriteType ==
    ASSUME TypeOK, NEW n \in 1..MaxSize, DoworkSendWrites(n)
    PROVE  TypeOK'
<1> USE DEF conn, config, queue
<1> DEFINE m == Head(pending)
           bytes == [i \in 1..n |-> <<m, Offset(m) + i>>]
<1>1. m \in Msgs /\ unsent[m] \in 0..MaxSize /\ size[m] \in 0..MaxSize /\ n <= unsent[m]
        /\ unsent[m] <= size[m]
  BY DEF TypeOK, DoworkSendWrites
<1>2. bytes \in Seq(Msgs \X (1..MaxSize))
  <2>1. \A i \in 1..n : Offset(m) + i \in 1..MaxSize
    BY <1>1 DEF Offset
  <2> QED
    BY <1>1, <2>1
<1>3. wire' \in Seq(Msgs \X (1..MaxSize))
  BY <1>2 DEF TypeOK, DoworkSendWrites
<1>4. unsent' \in [Msgs -> 0..MaxSize] /\ \A x \in Msgs : unsent'[x] <= size'[x]
  BY <1>1 DEF TypeOK, DoworkSendWrites
<1>5. /\ pending' \in Seq(Msgs)
      /\ completed' \in Seq(Msgs)
      /\ result' \in [Msgs -> {"none", "OK", "CANCELLED"}]
  BY ProcessType DEF TypeOK, DoworkSendWrites
<1>6. stack' \in Seq(Points)
  BY StackType DEF DoworkSendWrites, Sending, At, Points, Callbacks
<1> QED
  BY <1>3, <1>4, <1>5, <1>6 DEF TypeOK, DoworkSendWrites, Uses_handle, Points

\* Every other step inside the adapter, or out of a callback, keeps the types.
LEMMA RunningType ==
    ASSUME TypeOK, Running
    PROVE  TypeOK'
<1> USE DEF conn, config, queue
<1>1. CASE Drain
  <2>1. stack' \in Seq(Points)
    BY <1>1, StackType DEF Drain, At, Points, Callbacks
  <2>2. /\ pending' \in Seq(Msgs)
        /\ completed' \in Seq(Msgs)
        /\ result' \in [Msgs -> {"none", "OK", "CANCELLED"}]
    BY <1>1, ProcessType DEF Drain, TypeOK
  <2> QED
    BY <1>1, <2>1, <2>2 DEF TypeOK, Drain, EnterClosed, States, Points
<1>2. CASE DoworkSendNothing
  <2>1. stack' \in Seq(Points)
    BY <1>2, StackType DEF DoworkSendNothing, Sending, At, Points, Callbacks
  <2> QED
    BY <1>2, <2>1 DEF TypeOK, DoworkSendNothing, Uses_handle, Points
<1>3. CASE DoworkSendFails
  <2>1. stack' \in Seq(Points)
    BY <1>3, StackType DEF DoworkSendFails, Sending, At, Points, Callbacks
  <2> QED
    BY <1>3, <2>1 DEF TypeOK, DoworkSendFails, Uses_handle, Points, States
<1>4. ASSUME NEW n \in 1..MaxSize, DoworkSendWrites(n)
      PROVE  TypeOK'
  BY <1>4, WriteType
<1>5. CASE DoworkRead
  <2>1. stack' \in Seq(Points)
    BY <1>5, StackType DEF DoworkRead, At, Points, Callbacks, Inside
  <2> QED
    BY <1>5, <2>1 DEF TypeOK, DoworkRead, Uses_handle, Points, States
<1>6. CASE OnBytesReceivedReturns
  <2>1. stack' \in Seq(Points)
    BY <1>6, StackType DEF OnBytesReceivedReturns, At, Points, Inside
  <2> QED
    BY <1>6, <2>1 DEF TypeOK, OnBytesReceivedReturns, Counted, Points
<1>7. CASE OnOpenCancelledReturns
  <2>1. stack' \in Seq(Points)
    BY <1>7, StackType DEF OnOpenCancelledReturns, At, Points, Inside
  <2> QED
    BY <1>7, <2>1 DEF TypeOK, OnOpenCancelledReturns, Delete_connection,
                      Uses_handle, Points
<1>8. CASE CallbackReturns
  <2>1. stack' \in Seq(Points)
    BY <1>8, StackType DEF CallbackReturns, At, Points, Callbacks
  <2> QED
    BY <1>8, <2>1 DEF TypeOK, CallbackReturns, Points
<1> QED
  BY <1>1, <1>2, <1>3, <1>4, <1>5, <1>6, <1>7, <1>8 DEF Running

\* dowork, where it connects and where it starts to read, keeps the types.
LEMMA DoworkType ==
    ASSUME TypeOK, Dowork
    PROVE  TypeOK'
<1> USE DEF conn, config, queue
<1>1. CASE DoworkInit
  <2>1. stack' \in Seq(Points)
    BY <1>1, StackType DEF DoworkInit, TypeOK, Points, Callbacks
  <2> QED
    BY <1>1, <2>1 DEF TypeOK, DoworkInit, Uses_handle, Points, States
<1>2. CASE DoworkOpen
  <2>1. stack' \in Seq(Points)
    BY <1>2, StackType DEF DoworkOpen, Points, Inside
  <2> QED
    BY <1>2, <2>1 DEF TypeOK, DoworkOpen, Points
<1> QED
  BY <1>1, <1>2 DEF Dowork

\* Every variable of the adapter has its type in every reachable state.
THEOREM TypeCorrect == Spec => []TypeOK
<1>1. Init => TypeOK
  BY InitType
<1>2. TypeOK /\ [Next]_vars => TypeOK'
  <2>1. ASSUME TypeOK, UNCHANGED vars
        PROVE  TypeOK'
    BY <2>1 DEF TypeOK, vars, conn, config, queue
  <2>2. ASSUME TypeOK, Next
        PROVE  TypeOK'
    BY <2>1, <2>2, UpperLayerType, DoworkType, RunningType DEF Next, Over
  <2> QED
    BY <2>1, <2>2
<1> QED
  BY <1>1, <1>2, PTL DEF Spec

-----------------------------------------------------------------------------
(* Sequences.                                                              *)

\* Moving the head of one sequence to the end of another keeps their concatenation.
LEMMA MoveHead ==
    ASSUME NEW S, NEW c \in Seq(S), NEW p \in Seq(S), p # <<>>
    PROVE  Append(c, Head(p)) \o Tail(p) = c \o p
<1> DEFINE d == Append(c, Head(p))
<1>1. /\ Head(p) \in S /\ Tail(p) \in Seq(S) /\ Len(Tail(p)) = Len(p) - 1
      /\ \A i \in 1..Len(Tail(p)) : Tail(p)[i] = p[i + 1]
  BY HeadTailProperties
<1>2. d \in Seq(S) /\ Len(d) = Len(c) + 1
  BY <1>1
<1>3. d \o Tail(p) \in Seq(S) /\ c \o p \in Seq(S)
  BY <1>1, <1>2
<1>4. Len(d \o Tail(p)) = Len(c \o p)
  BY <1>1, <1>2
<1>5. ASSUME NEW i \in 1..Len(d \o Tail(p))
      PROVE  (d \o Tail(p))[i] = (c \o p)[i]
  <2>1. CASE i <= Len(c)
    BY <1>1, <1>2, <2>1
  <2>2. CASE i = Len(c) + 1
    BY <1>1, <1>2, <2>2
  <2>3. CASE i > Len(c) + 1
    <3>1. i - Len(d) \in 1..Len(Tail(p)) /\ (i - Len(d)) + 1 = i - Len(c)
      BY <1>1, <1>2, <1>4, <2>3
    <3> QED
      BY <1>1, <1>2, <2>3, <3>1
  <2> QED
    BY <2>1, <2>2, <2>3
<1> HIDE DEF d
<1>6. d \o Tail(p) = c \o p
  BY <1>3, <1>4, <1>5, SeqEqual
<1> QED
  BY <1>6 DEF d

-----------------------------------------------------------------------------
(* The queue: every message is completed once, in order (lines 83-119, 583). *)

\* Where a message stands: completed messages first, then the queued ones.
LEMMA Places ==
    ASSUME TypeOK, CompletedOnceInOrder
    PROVE  /\ Len(accepted) = Len(completed) + Len(pending)
           /\ \A i \in 1..Len(completed) :
                 i \in 1..Len(accepted) /\ accepted[i] = completed[i]
           /\ \A i \in 1..Len(pending) :
                 /\ Len(completed) + i \in 1..Len(accepted)
                 /\ accepted[Len(completed) + i] = pending[i]
  BY ConcatProperties DEF TypeOK, CompletedOnceInOrder

\* A message leaves the queue: it gets its answer, the others keep theirs.
LEMMA ProcessMessages ==
    ASSUME TypeOK, Messages,
           NEW send_result \in {"OK", "CANCELLED"},
           process_and_destroy_head_message(send_result),
           UNCHANGED accepted,
           \A x \in Msgs : x # Head(pending) => unsent'[x] = unsent[x],
           send_result = "OK" <=> unsent'[Head(pending)] = 0
    PROVE  Messages'
<1> DEFINE m == Head(pending)
<1>1. /\ pending \in Seq(Msgs) /\ pending # <<>> /\ completed \in Seq(Msgs)
      /\ pending' = Tail(pending) /\ completed' = Append(completed, m)
  BY DEF TypeOK, process_and_destroy_head_message
<1>2. /\ m \in Msgs /\ m = pending[1] /\ 1 \in 1..Len(pending)
      /\ Tail(pending) \in Seq(Msgs) /\ Len(Tail(pending)) = Len(pending) - 1
      /\ \A i \in 1..Len(Tail(pending)) : Tail(pending)[i] = pending[i + 1]
  BY <1>1, HeadTailProperties
<1>3. \A x \in Msgs : result'[x] = IF x = m THEN send_result ELSE result[x]
  BY <1>2 DEF TypeOK, process_and_destroy_head_message
<1>4. CompletedOnceInOrder'
  BY <1>1, MoveHead DEF Messages, CompletedOnceInOrder
<1>5. AcceptedOnce'
  BY DEF Messages, AcceptedOnce
<1>6. ASSUME NEW i \in 1..Len(pending), i # 1
      PROVE  pending[i] # m
  <2>1. /\ Len(completed) + i \in 1..Len(accepted)
        /\ Len(completed) + 1 \in 1..Len(accepted)
        /\ accepted[Len(completed) + i] = pending[i]
        /\ accepted[Len(completed) + 1] = m
    BY <1>2, Places DEF Messages
  <2> QED
    BY <1>1, <1>6, <2>1 DEF Messages, AcceptedOnce
<1>7. ASSUME NEW i \in 1..Len(completed)
      PROVE  completed[i] # m
  <2>1. /\ i \in 1..Len(accepted) /\ accepted[i] = completed[i]
        /\ Len(completed) + 1 \in 1..Len(accepted)
        /\ accepted[Len(completed) + 1] = m
    BY <1>2, Places DEF Messages
  <2> QED
    BY <1>1, <2>1 DEF Messages, AcceptedOnce
<1>8. QueuedIsUnsent'
  <2> SUFFICES ASSUME NEW i \in 1..Len(Tail(pending))
               PROVE  result'[Tail(pending)[i]] = "none" /\ unsent'[Tail(pending)[i]] > 0
    BY <1>1 DEF QueuedIsUnsent
  <2>1. i + 1 \in 1..Len(pending) /\ i + 1 # 1 /\ Tail(pending)[i] = pending[i + 1]
    BY <1>1, <1>2
  <2>2. pending[i + 1] \in Msgs /\ pending[i + 1] # m
    BY <1>1, <1>6, <2>1
  <2> QED
    BY <1>3, <2>1, <2>2 DEF Messages, QueuedIsUnsent
<1>9. CompletedIsAnswered'
  <2> SUFFICES ASSUME NEW i \in 1..Len(Append(completed, m))
               PROVE  LET c == Append(completed, m)[i]
                      IN  result'[c] # "none" /\ (result'[c] = "OK" <=> unsent'[c] = 0)
    BY <1>1 DEF CompletedIsAnswered
  <2>1. CASE i \in 1..Len(completed)
    <3>1. Append(completed, m)[i] = completed[i] /\ completed[i] \in Msgs
      BY <1>1, <1>2, <2>1
    <3>2. result'[completed[i]] = result[completed[i]]
            /\ unsent'[completed[i]] = unsent[completed[i]]
      BY <1>3, <1>7, <2>1, <3>1
    <3> QED
      BY <2>1, <3>1, <3>2 DEF Messages, CompletedIsAnswered
  <2>2. CASE i = Len(completed) + 1
    <3>1. Append(completed, m)[i] = m
      BY <1>1, <1>2, <2>2
    <3> QED
      BY <1>2, <1>3, <3>1
  <2> QED
    BY <1>1, <1>2, <2>1, <2>2
<1>10. AnsweredIsCompleted'
  <2> SUFFICES ASSUME NEW x \in Msgs, result'[x] # "none"
               PROVE  \E i \in 1..Len(Append(completed, m)) : Append(completed, m)[i] = x
    BY <1>1 DEF AnsweredIsCompleted
  <2>1. CASE x = m
    BY <1>1, <1>2, <2>1
  <2>2. CASE x # m
    <3>1. PICK i \in 1..Len(completed) : completed[i] = x
      BY <1>3, <2>2 DEF Messages, AnsweredIsCompleted
    <3> QED
      BY <1>1, <1>2, <3>1
  <2> QED
    BY <2>1, <2>2
<1> QED
  BY <1>4, <1>5, <1>8, <1>9, <1>10 DEF Messages

\* send_async queues a message that was never queued before (lines 576-583).
LEMMA SendMessages ==
    ASSUME TypeOK, Messages, NEW m \in Msgs, NEW s \in 1..MaxSize, SendAsync(m, s)
    PROVE  Messages'
<1>1. /\ pending' = Append(pending, m) /\ accepted' = Append(accepted, m)
      /\ completed' = completed /\ result' = result
      /\ \A x \in Msgs : unsent'[x] = IF x = m THEN s ELSE unsent[x]
      /\ \A i \in 1..Len(accepted) : accepted[i] # m
  BY DEF TypeOK, SendAsync, Enqueue, Unsent, queue
<1>2. /\ pending \in Seq(Msgs) /\ accepted \in Seq(Msgs) /\ completed \in Seq(Msgs)
      /\ accepted = completed \o pending
  BY DEF TypeOK, Messages, CompletedOnceInOrder
<1>3. CompletedOnceInOrder'
  <2> DEFINE a == Append(completed \o pending, m)
             b == completed \o Append(pending, m)
  <2>1. a \in Seq(Msgs) /\ b \in Seq(Msgs) /\ Len(a) = Len(b)
    BY <1>2
  <2>2. ASSUME NEW i \in 1..Len(a)
        PROVE  a[i] = b[i]
    <3>1. Len(completed) \in Nat /\ Len(pending) \in Nat
      BY <1>2
    <3>2. CASE i <= Len(completed)
      BY <1>2, <3>1, <3>2
    <3>3. CASE i > Len(completed) /\ i <= Len(completed) + Len(pending)
      BY <1>2, <3>1, <3>3
    <3>4. CASE i = Len(completed) + Len(pending) + 1
      BY <1>2, <3>1, <3>4
    <3> QED
      BY <1>2, <3>1, <3>2, <3>3, <3>4
  <2> HIDE DEF a, b
  <2>3. a = b
    BY <2>1, <2>2, SeqEqual
  <2> QED
    BY <1>1, <1>2, <2>3 DEF CompletedOnceInOrder, a, b
<1>4. AcceptedOnce'
  <2> SUFFICES ASSUME NEW i \in 1..Len(Append(accepted, m)),
                      NEW j \in 1..Len(Append(accepted, m)),
                      Append(accepted, m)[i] = Append(accepted, m)[j]
               PROVE  i = j
    BY <1>1 DEF AcceptedOnce
  <2>1. /\ Len(Append(accepted, m)) = Len(accepted) + 1
        /\ Append(accepted, m)[Len(accepted) + 1] = m
        /\ \A k \in 1..Len(accepted) : Append(accepted, m)[k] = accepted[k]
    BY <1>2
  <2>2. CASE i \in 1..Len(accepted) /\ j \in 1..Len(accepted)
    BY <2>1, <2>2 DEF Messages, AcceptedOnce
  <2>3. CASE i \notin 1..Len(accepted) \/ j \notin 1..Len(accepted)
    <3>1. Len(accepted) \in Nat
      BY <1>2
    <3> QED
      BY <1>1, <2>1, <2>3, <3>1
  <2> QED
    BY <2>2, <2>3
<1>5. ASSUME NEW i \in 1..Len(completed)
      PROVE  completed[i] # m
  <2>1. i \in 1..Len(accepted) /\ accepted[i] = completed[i]
    BY Places DEF Messages
  <2> QED
    BY <1>1, <2>1
<1>6. result[m] = "none"
  BY <1>5 DEF Messages, AnsweredIsCompleted
<1>7. QueuedIsUnsent'
  <2> SUFFICES ASSUME NEW i \in 1..Len(Append(pending, m))
               PROVE  LET q == Append(pending, m)[i]
                      IN  result[q] = "none" /\ unsent'[q] > 0
    BY <1>1 DEF QueuedIsUnsent
  <2>1. CASE i \in 1..Len(pending)
    <3>1. Append(pending, m)[i] = pending[i] /\ pending[i] \in Msgs
      BY <1>2, <2>1
    <3> QED
      BY <1>1, <2>1, <3>1 DEF Messages, QueuedIsUnsent
  <2>2. CASE i = Len(pending) + 1
    BY <1>1, <1>2, <1>6, <2>2
  <2> QED
    BY <1>2, <2>1, <2>2
<1>8. CompletedIsAnswered'
  <2>1. \A i \in 1..Len(completed) :
            completed[i] \in Msgs /\ unsent'[completed[i]] = unsent[completed[i]]
    BY <1>1, <1>2, <1>5
  <2> QED
    BY <1>1, <2>1 DEF Messages, CompletedIsAnswered
<1>9. AnsweredIsCompleted'
  BY <1>1 DEF Messages, AnsweredIsCompleted
<1> QED
  BY <1>3, <1>4, <1>7, <1>8, <1>9 DEF Messages

\* A write that does not finish the oldest message only lowers what it has left.
LEMMA WriteMessages ==
    ASSUME TypeOK, Messages, NEW n \in 1..MaxSize, DoworkSendWrites(n)
    PROVE  Messages'
<1> DEFINE m == Head(pending)
<1>1. /\ pending \in Seq(Msgs) /\ pending # <<>> /\ m \in Msgs
      /\ UNCHANGED accepted
      /\ unsent' = [unsent EXCEPT ![m] = @ - n]
  BY DEF TypeOK, DoworkSendWrites
<1>2. \A x \in Msgs : unsent'[x] = IF x = m THEN unsent[m] - n ELSE unsent[x]
  BY <1>1 DEF TypeOK
<1>3. n <= unsent[m] /\ unsent[m] \in Nat /\ unsent'[m] \in Nat
  BY <1>1, <1>2 DEF TypeOK, DoworkSendWrites
<1>4. CASE Entirely(unsent'[m])
  <2>1. process_and_destroy_head_message("OK")
    BY <1>4 DEF DoworkSendWrites
  <2> QED
    BY <1>1, <1>2, <1>4, <2>1, ProcessMessages DEF Entirely
<1>5. CASE ~Entirely(unsent'[m])
  <2>1. UNCHANGED <<pending, completed, result>>
    BY <1>5 DEF DoworkSendWrites
  <2>2. unsent'[m] > 0
    BY <1>3, <1>5 DEF Entirely
  <2>3. \A i \in 1..Len(completed) : completed[i] \in Msgs /\ completed[i] # m
    <3>1. /\ Len(completed) + 1 \in 1..Len(accepted)
          /\ accepted[Len(completed) + 1] = m
      BY <1>1, Places DEF Messages
    <3> SUFFICES ASSUME NEW i \in 1..Len(completed)
                 PROVE  completed[i] \in Msgs /\ completed[i] # m
      OBVIOUS
    <3>2. i \in 1..Len(accepted) /\ accepted[i] = completed[i]
      BY Places DEF Messages
    <3>3. i # Len(completed) + 1 /\ completed[i] \in Msgs
      BY DEF TypeOK
    <3> QED
      BY <3>1, <3>2, <3>3 DEF Messages, AcceptedOnce
  <2>4. \A i \in 1..Len(pending) : pending[i] \in Msgs
    BY <1>1
  <2>5. QueuedIsUnsent'
    BY <1>2, <2>1, <2>2, <2>4 DEF Messages, QueuedIsUnsent
  <2>6. CompletedIsAnswered'
    BY <1>2, <2>1, <2>3 DEF Messages, CompletedIsAnswered
  <2> QED
    BY <1>1, <2>1, <2>5, <2>6 DEF Messages, CompletedOnceInOrder, AcceptedOnce,
                                 AnsweredIsCompleted
<1> QED
  BY <1>4, <1>5

\* Closing cancels the messages that are left, from the oldest (line 128).
LEMMA DrainMessages ==
    ASSUME TypeOK, Messages, Drain
    PROVE  Messages'
<1>1. UNCHANGED <<unsent, accepted>>
  BY DEF Drain
<1>2. CASE process_and_destroy_head_message("CANCELLED")
  <2>1. pending \in Seq(Msgs) /\ pending # <<>>
    BY <1>2 DEF TypeOK, process_and_destroy_head_message
  <2>2. unsent[Head(pending)] > 0 /\ unsent[Head(pending)] \in Nat
    BY <2>1 DEF TypeOK, Messages, QueuedIsUnsent
  <2> QED
    BY <1>1, <1>2, <2>2, ProcessMessages
<1>3. CASE UNCHANGED <<pending, completed, result>>
  BY <1>1, <1>3 DEF Messages, CompletedOnceInOrder, AcceptedOnce, QueuedIsUnsent,
                   CompletedIsAnswered, AnsweredIsCompleted
<1> QED
  BY <1>2, <1>3 DEF Drain

\* Every step keeps the invariant of the messages.
LEMMA MessagesStep ==
    ASSUME TypeOK, Messages, [Next]_vars
    PROVE  Messages'
<1>1. ASSUME UNCHANGED <<pending, unsent, accepted, completed, result>>
      PROVE  Messages'
  BY <1>1 DEF Messages, CompletedOnceInOrder, AcceptedOnce, QueuedIsUnsent,
              CompletedIsAnswered, AnsweredIsCompleted
<1>2. CASE UpperLayer
  <2>1. ASSUME NEW m \in Msgs, NEW s \in 1..MaxSize, SendAsync(m, s)
        PROVE  Messages'
    BY <2>1, SendMessages
  <2>2. CASE Create \/ Destroy \/ (\E o \in Options : SetOption(o)) \/ OpenAsync \/ CloseAsync
    BY <1>1, <2>2 DEF Create, Destroy, SetOption, OpenAsync, CloseAsync, queue
  <2> QED
    BY <1>2, <2>1, <2>2 DEF UpperLayer
<1>3. CASE Dowork
  BY <1>1, <1>3 DEF Dowork, DoworkInit, DoworkOpen, queue
<1>4. CASE Running
  <2>1. CASE Drain
    BY <2>1, DrainMessages
  <2>2. ASSUME NEW n \in 1..MaxSize, DoworkSendWrites(n)
        PROVE  Messages'
    BY <2>2, WriteMessages
  <2>3. CASE \/ DoworkSendNothing \/ DoworkSendFails \/ DoworkRead
             \/ OnBytesReceivedReturns \/ OnOpenCancelledReturns \/ CallbackReturns
    BY <1>1, <2>3 DEF DoworkSendNothing, DoworkSendFails, DoworkRead,
          OnBytesReceivedReturns, OnOpenCancelledReturns, CallbackReturns, queue
  <2> QED
    BY <1>4, <2>1, <2>2, <2>3 DEF Running
<1>5. CASE Over \/ UNCHANGED vars
  BY <1>1, <1>5 DEF Over, vars, queue
<1> QED
  BY <1>2, <1>3, <1>4, <1>5 DEF Next

\* Every step keeps the queue of an adapter that is not open empty.
LEMMA NotOpenStep ==
    ASSUME TypeOK, NotOpenIsEmpty, [Next]_vars
    PROVE  NotOpenIsEmpty'
<1> USE DEF NotOpenIsEmpty, conn, queue
<1>1. CASE UpperLayer
  <2>1. ASSUME NEW m \in Msgs, NEW s \in 1..MaxSize, SendAsync(m, s)
        PROVE  NotOpenIsEmpty'
    BY <2>1 DEF SendAsync, CanCall
  <2>2. CASE Create \/ Destroy \/ (\E o \in Options : SetOption(o)) \/ OpenAsync \/ CloseAsync
    BY <2>2 DEF Create, Destroy, NeedsClose, Idle, SetOption, OpenAsync, MayOpen,
                CloseAsync, CanCall
  <2> QED
    BY <1>1, <2>1, <2>2 DEF UpperLayer
<1>2. CASE Dowork
  BY <1>2 DEF Dowork, DoworkInit, DoworkOpen, Idle
<1>3. CASE Running
  <2>1. CASE Drain
    BY <2>1 DEF Drain, EnterClosed, process_and_destroy_head_message, At
  <2>2. ASSUME NEW n \in 1..MaxSize, DoworkSendWrites(n)
        PROVE  NotOpenIsEmpty'
    BY <2>2 DEF DoworkSendWrites, process_and_destroy_head_message, Sending, At
  <2>3. CASE DoworkSendNothing \/ DoworkSendFails \/ DoworkRead
    BY <2>3 DEF DoworkSendNothing, DoworkSendFails, DoworkRead, Sending, At
  <2>4. CASE OnBytesReceivedReturns \/ OnOpenCancelledReturns \/ CallbackReturns
    BY <2>4 DEF OnBytesReceivedReturns, OnOpenCancelledReturns, CallbackReturns, At
  <2> QED
    BY <1>3, <2>1, <2>2, <2>3, <2>4 DEF Running
<1>4. CASE Over \/ UNCHANGED vars
  BY <1>4 DEF Over, vars
<1> QED
  BY <1>1, <1>2, <1>3, <1>4 DEF Next

\* The inductive invariant of the queue holds in every reachable state.
THEOREM QueueIsInvariant == Spec => []QueueInvariant
<1>1. Init => QueueInvariant
  BY DEF Init, QueueInvariant, Messages, CompletedOnceInOrder, AcceptedOnce,
         QueuedIsUnsent, CompletedIsAnswered, AnsweredIsCompleted, NotOpenIsEmpty
<1>2. TypeOK /\ QueueInvariant /\ [Next]_vars => QueueInvariant'
  BY MessagesStep, NotOpenStep DEF QueueInvariant
<1> QED
  BY <1>1, <1>2, TypeCorrect, PTL DEF Spec

-----------------------------------------------------------------------------
(* What follows from it.                                                   *)

\* Every accepted message is in the queue or was completed, once and in order.
THEOREM CompletionInOrder == Spec => []CompletedOnceInOrder
<1>1. QueueInvariant => CompletedOnceInOrder
  BY DEF QueueInvariant, Messages
<1> QED
  BY <1>1, QueueIsInvariant, PTL

\* IO_SEND_OK is reported exactly for the messages whose last byte was written.
THEOREM OKExactlyWhenSent == Spec => []OKMeansSent
<1>1. TypeOK /\ QueueInvariant => OKMeansSent
  <2> SUFFICES ASSUME TypeOK, Messages, NEW i \in 1..Len(accepted)
               PROVE  result[accepted[i]] = "OK" <=> unsent[accepted[i]] = 0
    BY DEF QueueInvariant, OKMeansSent
  <2>1. CASE i \in 1..Len(completed)
    BY <2>1, Places DEF Messages, CompletedIsAnswered
  <2>2. CASE i \notin 1..Len(completed)
    <3> DEFINE k == i - Len(completed)
    <3>a. Len(completed) \in Nat /\ Len(pending) \in Nat
      BY DEF TypeOK
    <3>b. k \in 1..Len(pending) /\ i = Len(completed) + k
      BY <2>2, <3>a, Places DEF Messages
    <3>1. k \in 1..Len(pending) /\ accepted[i] = pending[k]
      BY <3>b, Places DEF Messages
    <3>2. result[accepted[i]] = "none" /\ unsent[accepted[i]] > 0
      BY <3>1 DEF Messages, QueuedIsUnsent
    <3>3. accepted[i] \in Msgs
      BY DEF TypeOK
    <3> QED
      BY <3>2, <3>3 DEF TypeOK
  <2> QED
    BY <2>1, <2>2
<1> QED
  BY <1>1, TypeCorrect, QueueIsInvariant, PTL

\* Closing, or destroying, leaves no message without its answer.
THEOREM NothingStranded == Spec => []ClosedIsEmpty
<1>1. QueueInvariant => ClosedIsEmpty
  BY DEF QueueInvariant, NotOpenIsEmpty, ClosedIsEmpty
<1> QED
  BY <1>1, QueueIsInvariant, PTL

-----------------------------------------------------------------------------
(* TlsIo implements SendQueue.                                             *)

\* A removal from the queue is a Complete step: the head is the oldest message.
LEMMA ProcessIsComplete ==
    ASSUME TypeOK, Messages,
           NEW send_result \in {"OK", "CANCELLED"},
           process_and_destroy_head_message(send_result),
           UNCHANGED accepted
    PROVE  Queue!Complete(send_result)
<1>1. pending \in Seq(Msgs) /\ pending # <<>>
  BY DEF TypeOK, process_and_destroy_head_message
<1>2. 1 \in 1..Len(pending) /\ pending[1] = Head(pending)
  BY <1>1
<1>3. /\ Len(completed) + 1 \in 1..Len(accepted)
      /\ accepted[Len(completed) + 1] = Head(pending)
  BY <1>2, Places DEF Messages
<1>4. Queue!Oldest = Head(pending)
  BY <1>3 DEF Queue!Oldest
<1>5. Len(completed) < Len(accepted)
  BY <1>3 DEF TypeOK
<1> QED
  BY <1>4, <1>5 DEF Queue!Complete, process_and_destroy_head_message

\* Every step of the adapter is a step of the queue or leaves it alone.
LEMMA QueueStep ==
    ASSUME TypeOK, Messages, [Next]_vars
    PROVE  [Queue!Next]_(Queue!vars)
<1> USE DEF Queue!vars, Queue!Next, Queue!Results
<1>1. CASE UpperLayer
  <2>1. ASSUME NEW m \in Msgs, NEW s \in 1..MaxSize, SendAsync(m, s)
        PROVE  Queue!Accept(m)
    BY <2>1 DEF SendAsync, Queue!Accept
  <2>2. CASE Create \/ Destroy \/ (\E o \in Options : SetOption(o)) \/ OpenAsync \/ CloseAsync
    BY <2>2 DEF Create, Destroy, SetOption, OpenAsync, CloseAsync, queue
  <2> QED
    BY <1>1, <2>1, <2>2 DEF UpperLayer
<1>2. CASE Dowork
  BY <1>2 DEF Dowork, DoworkInit, DoworkOpen, queue
<1>3. CASE Running
  <2>1. CASE Drain
    <3>1. UNCHANGED accepted
      BY <2>1 DEF Drain
    <3>2. CASE process_and_destroy_head_message("CANCELLED")
      BY <3>1, <3>2, ProcessIsComplete
    <3>3. CASE UNCHANGED <<pending, completed, result>>
      BY <3>1, <3>3
    <3> QED
      BY <2>1, <3>2, <3>3 DEF Drain
  <2>2. ASSUME NEW n \in 1..MaxSize, DoworkSendWrites(n)
        PROVE  [Queue!Next]_(Queue!vars)
    <3>1. UNCHANGED accepted
      BY <2>2 DEF DoworkSendWrites
    <3>2. CASE process_and_destroy_head_message("OK")
      BY <3>1, <3>2, ProcessIsComplete
    <3>3. CASE UNCHANGED <<pending, completed, result>>
      BY <3>1, <3>3
    <3> QED
      BY <2>2, <3>2, <3>3 DEF DoworkSendWrites
  <2>3. CASE \/ DoworkSendNothing \/ DoworkSendFails \/ DoworkRead
             \/ OnBytesReceivedReturns \/ OnOpenCancelledReturns \/ CallbackReturns
    BY <2>3 DEF DoworkSendNothing, DoworkSendFails, DoworkRead,
          OnBytesReceivedReturns, OnOpenCancelledReturns, CallbackReturns, queue
  <2> QED
    BY <1>3, <2>1, <2>2, <2>3 DEF Running
<1>4. CASE Over \/ UNCHANGED vars
  BY <1>4 DEF Over, vars, queue
<1> QED
  BY <1>1, <1>2, <1>3, <1>4 DEF Next

\* The adapter is a send queue: messages complete once, in the order in which they
\* were accepted, whatever the connection and the upper layer do.
THEOREM ImplementsSendQueue == Spec => IsSendQueue
<1>1. Init => Queue!Init
  BY DEF Init, Queue!Init
<1>2. TypeOK /\ QueueInvariant /\ [Next]_vars => [Queue!Next]_(Queue!vars)
  BY QueueStep DEF QueueInvariant
<1> QED
  BY <1>1, <1>2, TypeCorrect, QueueIsInvariant, PTL DEF Spec, IsSendQueue, Queue!Spec

\* ERROR is left only by closing, with nothing left to send.
THEOREM ErrorLeftOnlyByClosing == Spec => ErrorUntilClosed
<1>1. TypeOK /\ [Next]_vars =>
         [tlsio_state = "ERROR" /\ tlsio_state' # "ERROR"
            => tlsio_state' = "CLOSED" /\ pending' = <<>>]_vars
  <2> SUFFICES ASSUME TypeOK, Next, tlsio_state = "ERROR", tlsio_state' # "ERROR"
               PROVE  tlsio_state' = "CLOSED" /\ pending' = <<>>
    OBVIOUS
  <2> USE DEF conn
  <2>1. CASE UpperLayer
    BY <2>1 DEF UpperLayer, Create, Destroy, SetOption, OpenAsync, MayOpen, CloseAsync,
                SendAsync
  <2>2. CASE Dowork
    BY <2>2 DEF Dowork, DoworkInit, DoworkOpen
  <2>3. CASE Running
    BY <2>3 DEF Running, Drain, EnterClosed, DoworkSendNothing, DoworkSendFails,
          DoworkSendWrites, DoworkRead, OnBytesReceivedReturns, OnOpenCancelledReturns,
          CallbackReturns
  <2>4. CASE Over
    BY <2>4 DEF Over, vars
  <2> QED
    BY <2>1, <2>2, <2>3, <2>4 DEF Next
<1> QED
  BY <1>1, TypeCorrect, PTL DEF Spec, ErrorUntilClosed

-----------------------------------------------------------------------------
(* The chain of calls.                                                     *)

\* The points below the one control is at.
Under(s) == {s[i] : i \in 2..Len(s)}

\* Every point of the chain.
Elements(s) == {s[i] : i \in 1..Len(s)}
Entered == Elements(stack)

\* The loop of internal_close, called by close_async or by destroy.
Closing == {"close_async", "destroy"}

\* The chain is the point control is at and the ones below it.
LEMMA ElementsAre ==
    ASSUME NEW S, NEW s \in Seq(S)
    PROVE  Elements(s) = IF s = <<>> THEN {} ELSE {Head(s)} \union Under(s)
<1>1. CASE s = <<>>
  BY <1>1 DEF Elements
<1>2. CASE s # <<>>
  <2>1. Head(s) = s[1] /\ Len(s) \in Nat \ {0}
    BY <1>2
  <2>2. 1..Len(s) = {1} \union 2..Len(s)
    BY <2>1
  <2> QED
    BY <1>2, <2>1, <2>2 DEF Under, Elements
<1> QED
  BY <1>1, <1>2

\* What a call, a replacement and a return do to the points below.
LEMMA PushUnder ==
    ASSUME NEW S, NEW s \in Seq(S), NEW p \in S
    PROVE  /\ <<p>> \o s # <<>> /\ Head(<<p>> \o s) = p /\ Tail(<<p>> \o s) = s
           /\ Under(<<p>> \o s) = IF s = <<>> THEN {} ELSE {Head(s)} \union Under(s)
<1> DEFINE t == <<p>> \o s
<1>1. /\ t \in Seq(S) /\ Len(t) = Len(s) + 1 /\ t[1] = p
      /\ \A i \in 2..Len(t) : t[i] = s[i - 1]
  OBVIOUS
<1>2. t # <<>> /\ Head(t) = p
  BY <1>1
<1>3. Tail(t) = s
  <2>1. Tail(t) \in Seq(S) /\ Len(Tail(t)) = Len(s)
    BY <1>1, <1>2
  <2>2. \A i \in 1..Len(s) : Tail(t)[i] = s[i]
    BY <1>1, <1>2, <2>1
  <2> QED
    BY <2>1, <2>2, SeqEqual
<1>4. Under(t) = Elements(s)
  <2>1. \A i \in 2..Len(t) : i - 1 \in 1..Len(s)
    BY <1>1
  <2>2. \A i \in 1..Len(s) : i + 1 \in 2..Len(t) /\ t[i + 1] = s[i]
    BY <1>1
  <2> HIDE DEF t
  <2>3. Under(t) \subseteq Elements(s)
    BY <1>1, <2>1 DEF Under, Elements
  <2>4. Elements(s) \subseteq Under(t)
    BY <2>2 DEF Under, Elements
  <2> QED
    BY <2>3, <2>4
<1>5. Under(t) = IF s = <<>> THEN {} ELSE {Head(s)} \union Under(s)
  BY <1>4, ElementsAre
<1> QED
  BY <1>2, <1>3, <1>5

LEMMA ReplaceUnder ==
    ASSUME NEW S, NEW s \in Seq(S), s # <<>>, NEW p \in S
    PROVE  /\ <<p>> \o Tail(s) # <<>> /\ Head(<<p>> \o Tail(s)) = p
           /\ Tail(<<p>> \o Tail(s)) = Tail(s)
           /\ Under(<<p>> \o Tail(s)) = Under(s)
<1>1. Tail(s) \in Seq(S) /\ Len(Tail(s)) = Len(s) - 1
        /\ \A i \in 1..Len(Tail(s)) : Tail(s)[i] = s[i + 1]
  BY HeadTailProperties
<1> DEFINE t == <<p>> \o Tail(s)
<1>2. /\ t # <<>> /\ Head(t) = p /\ Tail(t) = Tail(s)
  BY <1>1, PushUnder
<1>3. Len(t) = Len(s) /\ \A i \in 2..Len(s) : t[i] = s[i]
  <2>1. Len(t) = Len(s)
    BY <1>1
  <2>2. \A i \in 2..Len(s) : t[i] = Tail(s)[i - 1] /\ i - 1 \in 1..Len(Tail(s))
    BY <1>1, <2>1
  <2>3. \A i \in 2..Len(s) : Tail(s)[i - 1] = s[(i - 1) + 1] /\ (i - 1) + 1 = i
    BY <1>1, <2>2
  <2> QED
    BY <2>1, <2>2, <2>3
<1>4. Under(t) = Under(s)
  BY <1>3 DEF Under
<1> QED
  BY <1>2, <1>4

LEMMA PopUnder ==
    ASSUME NEW S, NEW s \in Seq(S), s # <<>>
    PROVE  /\ Tail(s) \in Seq(S)
           /\ Under(s) = IF Tail(s) = <<>> THEN {} ELSE {Head(Tail(s))} \union Under(Tail(s))
           /\ Under(Tail(s)) \subseteq Under(s)
<1>1. Tail(s) \in Seq(S) /\ Len(Tail(s)) = Len(s) - 1
        /\ \A i \in 1..Len(Tail(s)) : Tail(s)[i] = s[i + 1]
  BY HeadTailProperties
<1>2. Under(s) = Elements(Tail(s))
  <2>1. \A i \in 2..Len(s) : i - 1 \in 1..Len(Tail(s)) /\ Tail(s)[i - 1] = s[i]
    BY <1>1
  <2>2. \A i \in 1..Len(Tail(s)) : i + 1 \in 2..Len(s)
    BY <1>1
  <2> QED
    BY <1>1, <2>1, <2>2 DEF Under, Elements
<1>3. Elements(Tail(s)) = IF Tail(s) = <<>> THEN {} ELSE {Head(Tail(s))} \union Under(Tail(s))
  BY <1>1, ElementsAre
<1>4. Under(Tail(s)) \subseteq Elements(Tail(s))
  BY DEF Under, Elements
<1> QED
  BY <1>1, <1>2, <1>3, <1>4

\* The same of the variable stack: what the three steps of control do to it.
LEMMA CallSteps ==
    ASSUME TypeOK, NEW p \in Points, Call(p)
    PROVE  /\ stack' # <<>> /\ Head(stack') = p /\ Tail(stack') = stack
           /\ Under(stack') = Entered
           /\ Entered' = {p} \union Entered
<1>1. stack \in Seq(Points)
  BY DEF TypeOK, Points
<1>2. stack' = <<p>> \o stack /\ stack' \in Seq(Points)
  BY <1>1 DEF Call
<1>3. stack' # <<>> /\ Head(stack') = p /\ Tail(stack') = stack
  BY <1>1, <1>2, PushUnder
<1>4. Under(stack') = Elements(stack)
  <2>1. Under(<<p>> \o stack) = IF stack = <<>> THEN {} ELSE {Head(stack)} \union Under(stack)
    BY <1>1, PushUnder
  <2> QED
    BY <1>1, <1>2, <2>1, ElementsAre
<1>5. Elements(stack') = {p} \union Under(stack')
  BY <1>2, <1>3, ElementsAre
<1> QED
  BY <1>3, <1>4, <1>5 DEF Entered

LEMMA GotoSteps ==
    ASSUME TypeOK, NEW p \in Points, stack # <<>>, Goto(p)
    PROVE  /\ stack' # <<>> /\ Head(stack') = p /\ Tail(stack') = Tail(stack)
           /\ Under(stack') = Under(stack)
           /\ Entered' = {p} \union Under(stack)
           /\ Entered = {Head(stack)} \union Under(stack)
<1>1. stack \in Seq(Points)
  BY DEF TypeOK, Points
<1>2. stack' = <<p>> \o Tail(stack) /\ stack' \in Seq(Points)
  BY <1>1 DEF Goto
<1> QED
  BY <1>1, <1>2, ReplaceUnder, ElementsAre DEF Entered

LEMMA ReturnSteps ==
    ASSUME TypeOK, stack # <<>>, Return
    PROVE  /\ stack' = Tail(stack) /\ stack' \in Seq(Points)
           /\ Entered' = Under(stack)
           /\ Entered = {Head(stack)} \union Under(stack)
           /\ Under(stack) = IF stack' = <<>> THEN {} ELSE {Head(stack')} \union Under(stack')
           /\ Under(stack') \subseteq Under(stack)
<1>1. stack \in Seq(Points)
  BY DEF TypeOK, Points
<1>2. stack' = Tail(stack) /\ stack' \in Seq(Points)
  BY <1>1, PopUnder DEF Return
<1> QED
  BY <1>1, <1>2, PopUnder, ElementsAre DEF Entered

\* What the upper layer is in when it makes a call allows the call.
LEMMA Allowed ==
    ASSUME TypeOK, NEW call \in Calls, CanCall(call)
    PROVE  /\ instance = "live" /\ fault = "none"
           /\ stack # <<>> => Head(stack) \in Callbacks
           /\ \A c \in Entered \intersect Callbacks : call \in Reentry[c]
  BY DEF CanCall, Entered, Elements

-----------------------------------------------------------------------------
(* Closing.                                                                *)

\* Below the point of control there are only callbacks, and loops of internal_close;
\* the connection is deleted before such a loop begins, and never comes back.
Control ==
    /\ Under(stack) \subseteq Callbacks \union Closing
    /\ Entered \intersect Closing # {} => handle = "deleted"
    /\ instance = "live" => handle # "none"
    /\ instance = "none" => stack = <<>>

\* Every step keeps it.
LEMMA ControlStep ==
    ASSUME TypeOK, Control, [Next]_vars
    PROVE  Control'
<1> USE DEF Control, conn
<1>1. CASE UpperLayer
  <2>1. CASE Create
    <3>1. Entered = {} /\ UNCHANGED stack
      BY <2>1 DEF Create, Entered, Elements
    <3> QED
      BY <2>1, <3>1 DEF Create, Entered
  <2>2. CASE Destroy
    <3>1. Entered = {} /\ Under(stack) = {}
      BY <2>2 DEF Destroy, Idle, Entered, Elements, Under
    <3>2. CASE NeedsClose
      BY <2>2, <3>1, <3>2, CallSteps
         DEF Destroy, Idle, Delete_connection, Points, Inside
    <3>3. CASE ~NeedsClose
      BY <2>2, <3>1, <3>3 DEF Destroy, Idle, Entered
    <3> QED
      BY <3>2, <3>3
  <2>3. ASSUME NEW o \in Options, SetOption(o)
        PROVE  Control'
    BY <2>3 DEF SetOption, Entered
  <2>4. CASE OpenAsync
    BY <2>4 DEF OpenAsync, Entered
  <2>5. CASE CloseAsync
    <3>1. /\ instance = "live" /\ (stack # <<>> => Head(stack) \in Callbacks)
      BY <2>5, Allowed DEF CloseAsync, Calls
    <3>2. Entered \subseteq Callbacks \union Closing
      BY <3>1, ElementsAre DEF TypeOK, Entered
    <3>3. \/ Call("on_open_cancelled") /\ UNCHANGED handle
          \/ Call("close_async") /\ handle' = "deleted"
      BY <2>5 DEF CloseAsync, Delete_connection
    <3> QED
      BY <2>5, <3>1, <3>2, <3>3, CallSteps DEF CloseAsync, Points, Inside, Callbacks, Closing
  <2>6. ASSUME NEW m \in Msgs, NEW s \in 1..MaxSize, SendAsync(m, s)
        PROVE  Control'
    <3>1. /\ instance = "live" /\ (stack # <<>> => Head(stack) \in Callbacks)
      BY <2>6, Allowed DEF SendAsync, Calls
    <3>2. Entered \subseteq Callbacks \union Closing
      BY <3>1, ElementsAre DEF TypeOK, Entered
    <3> QED
      BY <2>6, <3>1, <3>2, CallSteps DEF SendAsync, Points, Inside, Closing
  <2> QED
    BY <1>1, <2>1, <2>2, <2>3, <2>4, <2>5, <2>6 DEF UpperLayer
<1>2. CASE Dowork
  <2>1. Entered = {} /\ stack = <<>>
    BY <1>2 DEF Dowork, DoworkInit, DoworkOpen, Idle, Entered, Elements
  <2>2. /\ UNCHANGED <<instance, handle>> /\ instance = "live"
        /\ UNCHANGED stack \/ Call("on_open_complete") \/ Call("dowork_read")
    BY <1>2 DEF Dowork, DoworkInit, DoworkOpen, Idle
  <2> QED
    BY <2>1, <2>2, CallSteps DEF Entered, Points, Inside, Callbacks, Closing
<1>3. CASE Running
  <2>1. stack # <<>>
    BY <1>3 DEF Running, Drain, DoworkSendNothing, DoworkSendFails, DoworkSendWrites, Sending,
          DoworkRead, OnBytesReceivedReturns, OnOpenCancelledReturns, CallbackReturns, At
  <2>2. instance # "none"
    BY <2>1
  <2>3. Entered = {Head(stack)} \union Under(stack)
    BY <2>1, ElementsAre DEF TypeOK, Entered
  <2>4. CASE Drain
    <3>1. Entered \subseteq Callbacks \union Closing /\ handle = "deleted"
      BY <2>3, <2>4 DEF Drain, At, Closing
    <3>2. CASE Call("on_send_cancelled") /\ UNCHANGED instance
      BY <2>2, <2>4, <3>1, <3>2, CallSteps DEF Drain, Points, Callbacks
    <3>3. CASE Goto("on_io_close_complete") /\ UNCHANGED instance
      BY <2>1, <2>2, <2>4, <3>1, <3>3, GotoSteps DEF Drain, Points, Callbacks
    <3>4. CASE At("destroy") /\ Return /\ instance' = "destroyed"
      BY <2>1, <2>4, <3>1, <3>4, ReturnSteps DEF Drain
    <3> QED
      BY <2>4, <3>2, <3>3, <3>4 DEF Drain
  <2>5. CASE Return /\ UNCHANGED <<instance, handle>>
    BY <2>1, <2>2, <2>5, ReturnSteps
  <2>6. CASE OnOpenCancelledReturns
    BY <2>1, <2>2, <2>6, GotoSteps DEF OnOpenCancelledReturns, Delete_connection, Points, Inside
  <2>7. ASSUME NEW p \in {"on_send_complete", "on_bytes_received", "dowork_send", "dowork_read"},
               Goto(p), UNCHANGED <<instance, handle>>
        PROVE  Control'
    BY <2>1, <2>2, <2>7, GotoSteps DEF Points, Inside, Callbacks, Closing
  <2> QED
    BY <1>3, <2>4, <2>5, <2>6, <2>7 DEF Running, DoworkSendNothing, DoworkSendFails,
          DoworkSendWrites, DoworkRead, OnBytesReceivedReturns, CallbackReturns
<1>4. CASE Over \/ UNCHANGED vars
  BY <1>4 DEF Over, vars, Entered
<1> QED
  BY <1>1, <1>2, <1>3, <1>4 DEF Next

-----------------------------------------------------------------------------
(* What an upper layer must not do in its callbacks.                       *)

\* It does not send from inside on_send_cancelled: the state may still be OPEN there,
\* and the message would be accepted (line 549).
NoSendWhenCancelled == "send" \notin Reentry["on_send_cancelled"]

\* As long as it does not, a loop of internal_close runs alone: nothing else goes on
\* before it is over, but for on_send_cancelled.
ClosingAlone ==
    fault = "none" =>
      /\ "on_send_cancelled" \notin Under(stack)
      /\ IF stack # <<>> /\ Head(stack) = "on_send_cancelled"
         THEN /\ tlsio_state \in {"OPEN", "ERROR"}
              /\ Tail(stack) # <<>> /\ Head(Tail(stack)) \in Closing
              /\ Under(Tail(stack)) \intersect Closing = {}
         ELSE Under(stack) \intersect Closing = {}

\* Wherever else control is, nothing is being closed.
LEMMA NotClosing ==
    ASSUME TypeOK, ClosingAlone, fault = "none", stack # <<>>,
           Head(stack) \notin Closing \union {"on_send_cancelled"}
    PROVE  Entered \intersect Closing = {}
<1>1. Entered = {Head(stack)} \union Under(stack)
  BY ElementsAre DEF TypeOK, Entered
<1> QED
  BY <1>1 DEF ClosingAlone

\* A call out of such a place, or a replacement of it.
LEMMA AloneAfterCall ==
    ASSUME TypeOK, ClosingAlone, fault = "none",
           stack # <<>> => Head(stack) \notin Closing \union {"on_send_cancelled"},
           NEW p \in Points, p # "on_send_cancelled",
           Call(p) \/ (stack # <<>> /\ Goto(p))
    PROVE  ClosingAlone'
<1>1. Entered \intersect Closing = {} /\ "on_send_cancelled" \notin Entered
  <2>1. CASE stack = <<>>
    BY <2>1 DEF Entered, Elements
  <2>2. CASE stack # <<>>
    <3>1. Entered = {Head(stack)} \union Under(stack)
      BY <2>2, ElementsAre DEF TypeOK, Entered
    <3> QED
      BY <2>2, <3>1, NotClosing DEF ClosingAlone
  <2> QED
    BY <2>1, <2>2
<1>2. stack' # <<>> /\ Head(stack') = p
        /\ Under(stack') \intersect (Closing \union {"on_send_cancelled"}) = {}
  BY <1>1, CallSteps, GotoSteps
<1> QED
  BY <1>2 DEF ClosingAlone

\* The return of anything but a loop of internal_close.
LEMMA AloneAfterReturn ==
    ASSUME TypeOK, ClosingAlone, fault = "none", stack # <<>>, Return
    PROVE  ClosingAlone'
<1>1. /\ stack' = Tail(stack)
      /\ Under(stack) = IF stack' = <<>> THEN {} ELSE {Head(stack')} \union Under(stack')
      /\ Under(stack') \subseteq Under(stack)
  BY ReturnSteps
<1>2. "on_send_cancelled" \notin Under(stack') /\ (stack' # <<>> => Head(stack') # "on_send_cancelled")
  BY <1>1 DEF ClosingAlone
<1>3. Under(stack') \intersect Closing = {}
  BY <1>1 DEF ClosingAlone
<1> QED
  BY <1>2, <1>3 DEF ClosingAlone

\* Every step keeps it.
LEMMA ClosingStep ==
    ASSUME NoSendWhenCancelled, TypeOK, NotOpenIsEmpty, Control, ClosingAlone, [Next]_vars
    PROVE  ClosingAlone'
<1> USE DEF conn
<1>1. ASSUME UNCHANGED <<stack, tlsio_state>>, fault = "none"
      PROVE  ClosingAlone'
  BY <1>1 DEF ClosingAlone
<1>2. CASE UpperLayer
  <2>1. CASE Create \/ (\E o \in Options : SetOption(o))
    BY <1>1, <2>1 DEF Create, SetOption, CanCall
  <2>2. CASE Destroy
    <3>1. CASE NeedsClose
      BY <2>2, <3>1, AloneAfterCall DEF Destroy, Idle, Points, Inside
    <3>2. CASE ~NeedsClose
      BY <1>1, <2>2, <3>2 DEF Destroy, Idle
    <3> QED
      BY <3>1, <3>2
  <2>3. CASE OpenAsync
    <3>1. tlsio_state = "CLOSED" /\ fault = "none" /\ UNCHANGED stack
      BY <2>3 DEF OpenAsync, MayOpen, CanCall
    <3> QED
      BY <3>1 DEF ClosingAlone
  <2>4. CASE CloseAsync
    <3>1. /\ instance = "live" /\ fault = "none"
          /\ (stack # <<>> => Head(stack) \in Callbacks)
      BY <2>4, Allowed DEF CloseAsync, Calls
    <3>2. CASE stack # <<>> /\ Head(stack) = "on_send_cancelled"
      <4>1. tlsio_state # "INIT"
        BY <3>1, <3>2 DEF ClosingAlone
      <4>2. handle = "deleted"
        <5>1. Head(Tail(stack)) \in Closing /\ Tail(stack) # <<>>
          BY <3>1, <3>2 DEF ClosingAlone
        <5>2. Head(Tail(stack)) \in Under(stack)
          <6>1. stack \in Seq(Points)
            BY DEF TypeOK, Points
          <6>2. Under(stack) = {Head(Tail(stack))} \union Under(Tail(stack))
            BY <3>2, <5>1, <6>1, PopUnder
          <6> QED
            BY <6>2
        <5>3. Under(stack) \subseteq Entered
          BY ElementsAre, <3>2 DEF TypeOK, Entered
        <5> QED
          BY <5>1, <5>2, <5>3 DEF Control
      <4>3. fault' # "none"
        BY <2>4, <4>1, <4>2 DEF CloseAsync, Delete_connection, Uses_handle, is_an_opening_state
      <4> QED
        BY <4>3 DEF ClosingAlone
    <3>3. CASE ~(stack # <<>> /\ Head(stack) = "on_send_cancelled")
      <4>1. Call("on_open_cancelled") \/ Call("close_async")
        BY <2>4 DEF CloseAsync
      <4> QED
        BY <3>1, <3>3, <4>1, AloneAfterCall DEF Points, Inside, Callbacks, Closing
    <3> QED
      BY <3>2, <3>3
  <2>5. ASSUME NEW m \in Msgs, NEW s \in 1..MaxSize, SendAsync(m, s)
        PROVE  ClosingAlone'
    <3>1. /\ fault = "none"
          /\ (stack # <<>> => Head(stack) \in Callbacks)
          /\ \A c \in Entered \intersect Callbacks : "send" \in Reentry[c]
      BY <2>5, Allowed DEF SendAsync, Calls
    <3>2. stack # <<>> => Head(stack) \in Entered
      BY ElementsAre DEF TypeOK, Entered
    <3>3. stack # <<>> => Head(stack) \notin Closing \union {"on_send_cancelled"}
      BY <3>1, <3>2 DEF NoSendWhenCancelled, Callbacks, Closing
    <3> QED
      BY <2>5, <3>1, <3>3, AloneAfterCall DEF SendAsync, Points, Inside
  <2> QED
    BY <1>2, <2>1, <2>2, <2>3, <2>4, <2>5 DEF UpperLayer
<1>3. CASE Dowork
  <2>1. stack = <<>> /\ fault = "none"
    BY <1>3 DEF Dowork, DoworkInit, DoworkOpen, Idle
  <2>2. CASE UNCHANGED stack
    BY <2>1, <2>2 DEF ClosingAlone
  <2>3. CASE Call("on_open_complete") \/ Call("dowork_read")
    BY <2>1, <2>3, AloneAfterCall DEF Points, Inside, Callbacks
  <2> QED
    BY <1>3, <2>2, <2>3 DEF Dowork, DoworkInit, DoworkOpen
<1>4. CASE Running
  <2>1. stack # <<>> /\ fault = "none"
    BY <1>4 DEF Running, Drain, DoworkSendNothing, DoworkSendFails, DoworkSendWrites, Sending,
          DoworkRead, OnBytesReceivedReturns, OnOpenCancelledReturns, CallbackReturns, At
  <2>2. CASE Return
    BY <2>1, <2>2, AloneAfterReturn
  <2>3. CASE Drain
    <3>1. Head(stack) \in Closing
      BY <2>3 DEF Drain, At, Closing
    <3>2. Under(stack) \intersect (Closing \union {"on_send_cancelled"}) = {}
      BY <2>1, <3>1 DEF ClosingAlone, Closing
    <3>3. CASE process_and_destroy_head_message("CANCELLED") /\ Call("on_send_cancelled")
                 /\ UNCHANGED tlsio_state
      <4>1. tlsio_state \in {"OPEN", "ERROR"}
        BY <3>3 DEF process_and_destroy_head_message, NotOpenIsEmpty, TypeOK, States
      <4>2. stack' # <<>> /\ Head(stack') = "on_send_cancelled" /\ Tail(stack') = stack
              /\ Under(stack') = Entered
        BY <3>3, CallSteps DEF Points, Callbacks
      <4>3. Entered = {Head(stack)} \union Under(stack)
        BY <2>1, ElementsAre DEF TypeOK, Entered
      <4> QED
        BY <2>1, <3>1, <3>2, <3>3, <4>1, <4>2, <4>3 DEF ClosingAlone, Closing
    <3>4. CASE Goto("on_io_close_complete")
      BY <2>1, <3>2, <3>4, GotoSteps DEF ClosingAlone, Points, Callbacks
    <3> QED
      BY <2>2, <2>3, <3>3, <3>4 DEF Drain
  <2>4. ASSUME NEW p \in {"on_send_complete", "on_bytes_received", "dowork_send", "dowork_read",
                          "close_async"},
               Goto(p), Head(stack) \notin Closing \union {"on_send_cancelled"}
        PROVE  ClosingAlone'
    BY <2>1, <2>4, AloneAfterCall DEF Points, Inside, Callbacks
  <2>5. CASE \E n \in 1..MaxSize : DoworkSendWrites(n)
    BY <2>2, <2>4, <2>5 DEF DoworkSendWrites, Sending, At, Closing
  <2>6. CASE DoworkRead \/ OnBytesReceivedReturns \/ OnOpenCancelledReturns
    BY <2>2, <2>4, <2>6 DEF DoworkRead, OnBytesReceivedReturns, OnOpenCancelledReturns, At, Closing
  <2> QED
    BY <1>4, <2>2, <2>3, <2>5, <2>6 DEF Running, DoworkSendNothing, DoworkSendFails,
          CallbackReturns
<1>5. CASE Over \/ UNCHANGED vars
  BY <1>5 DEF Over, vars, ClosingAlone
<1> QED
  BY <1>2, <1>3, <1>4, <1>5 DEF Next

-----------------------------------------------------------------------------
(* One answer to each open.                                                *)

\* It does not close from inside on_open_cancelled: the state is still INIT there,
\* and the open would be cancelled again (line 375).
NoCloseWhenCancelled == "close" \notin Reentry["on_open_cancelled"]

\* OPEN has had its answer, INIT has not or is being closed; and what is open has its
\* connection, unless a close is under way or undefined behaviour has been met.
Answered ==
    /\ open_results <= 1
    /\ tlsio_state = "OPEN" => open_results = 1
    /\ tlsio_state = "INIT" /\ open_results = 1 =>
          stack # <<>> /\ Head(stack) \in {"on_open_cancelled", "close_async"}
    /\ tlsio_state = "OPEN" /\ handle # "allocated" =>
          stack # <<>> /\ (fault = "none" => Entered \intersect Closing # {})

\* Every step keeps it.
LEMMA AnsweredStep ==
    ASSUME NoCloseWhenCancelled, TypeOK, NotOpenIsEmpty, Control, Answered, [Next]_vars
    PROVE  Answered'
<1> USE DEF conn
<1>1. CASE UpperLayer
  <2>1. CASE Create
    BY <2>1 DEF Create, Answered, NotOpenIsEmpty
  <2>2. CASE Destroy
    <3>1. stack = <<>> /\ instance = "live"
      BY <2>2 DEF Destroy, Idle
    <3>2. CASE NeedsClose
      BY <2>2, <3>1, <3>2, CallSteps
         DEF Destroy, Delete_connection, Answered, Points, Inside, Closing
    <3>3. CASE ~NeedsClose
      BY <2>2, <3>1, <3>3 DEF Destroy, NeedsClose, Answered
    <3> QED
      BY <3>2, <3>3
  <2>3. ASSUME NEW o \in Options, SetOption(o)
        PROVE  Answered'
    BY <2>3 DEF SetOption, Answered, Entered
  <2>4. CASE OpenAsync
    BY <2>4 DEF OpenAsync, Answered
  <2>5. CASE CloseAsync
    <3>1. /\ instance = "live" /\ fault = "none"
          /\ (stack # <<>> => Head(stack) \in Callbacks)
          /\ \A c \in Entered \intersect Callbacks : "close" \in Reentry[c]
      BY <2>5, Allowed DEF CloseAsync, Calls
    <3>2. stack # <<>> => Head(stack) \in Entered
      BY ElementsAre DEF TypeOK, Entered
    <3>3. stack # <<>> => Head(stack) \notin {"on_open_cancelled", "close_async"}
      BY <3>1, <3>2 DEF NoCloseWhenCancelled, Callbacks
    <3>4. CASE is_an_opening_state
      <4>1. tlsio_state = "INIT" /\ open_results \in Nat /\ open_results <= 1 /\ open_results # 1
        BY <3>3, <3>4 DEF is_an_opening_state, Answered, TypeOK
      <4>2. open_results' = 1 /\ Call("on_open_cancelled") /\ UNCHANGED tlsio_state
        BY <2>5, <3>4, <4>1 DEF CloseAsync
      <4> QED
        BY <4>1, <4>2, CallSteps DEF Answered, Points, Callbacks
    <3>5. CASE ~is_an_opening_state
      <4>1. UNCHANGED <<open_results, tlsio_state>> /\ Call("close_async") /\ tlsio_state # "INIT"
        BY <2>5, <3>5 DEF CloseAsync, is_an_opening_state
      <4> QED
        BY <4>1, CallSteps DEF Answered, Points, Inside, Closing
    <3> QED
      BY <3>4, <3>5
  <2>6. ASSUME NEW m \in Msgs, NEW s \in 1..MaxSize, SendAsync(m, s)
        PROVE  Answered'
    BY <2>6, CallSteps DEF SendAsync, Answered, Points, Inside
  <2> QED
    BY <1>1, <2>1, <2>2, <2>3, <2>4, <2>5, <2>6 DEF UpperLayer
<1>2. CASE Dowork
  <2>1. CASE DoworkInit
    <3>1. stack = <<>> /\ tlsio_state = "INIT" /\ open_results \in Nat /\ open_results <= 1
            /\ open_results # 1
      BY <2>1 DEF DoworkInit, Idle, Answered, TypeOK
    <3>2. CASE tlsio_state' = "OPEN"
      <4>1. Call("on_open_complete") /\ open_results' = 1
        BY <2>1, <3>1, <3>2 DEF DoworkInit
      <4>2. fault' = "none" => handle' = "allocated"
        BY <2>1 DEF DoworkInit, Uses_handle
      <4> QED
        BY <3>2, <4>1, <4>2, CallSteps DEF Answered, Points, Callbacks
    <3>3. CASE tlsio_state' # "OPEN"
      BY <2>1, <3>1, <3>3 DEF DoworkInit, Answered
    <3> QED
      BY <3>2, <3>3
  <2>2. CASE DoworkOpen
    BY <2>2 DEF DoworkOpen, Idle, Answered
  <2> QED
    BY <1>2, <2>1, <2>2 DEF Dowork
<1>3. CASE Running
  <2>1. stack # <<>> /\ fault = "none"
    BY <1>3 DEF Running, Drain, DoworkSendNothing, DoworkSendFails, DoworkSendWrites, Sending,
          DoworkRead, OnBytesReceivedReturns, OnOpenCancelledReturns, CallbackReturns, At
  <2>2. Entered = {Head(stack)} \union Under(stack)
    BY <2>1, ElementsAre DEF TypeOK, Entered
  <2>3. CASE Drain
    <3>1. CASE pending # <<>>
      <4>1. Call("on_send_cancelled") /\ UNCHANGED <<tlsio_state, handle, open_results, fault>>
        BY <2>3, <3>1 DEF Drain
      <4>2. tlsio_state # "INIT"
        BY <3>1 DEF NotOpenIsEmpty
      <4> QED
        BY <2>1, <4>1, <4>2, CallSteps DEF Answered, Points, Callbacks
    <3>2. CASE pending = <<>>
      BY <2>3, <3>2 DEF Drain, EnterClosed, process_and_destroy_head_message, Answered
    <3> QED
      BY <3>1, <3>2
  \* A step at a point where nothing is being closed leaves what is below as it was.
  <2>4. ASSUME UNCHANGED <<handle, open_results>>,
               tlsio_state' \in {tlsio_state, "ERROR"},
               Head(stack) \notin Closing \union {"on_open_cancelled"},
               \/ Return
               \/ \E p \in Points : Goto(p)
        PROVE  Answered'
    <3>1. Under(stack) \subseteq Entered'
      BY <2>1, <2>4, GotoSteps, ReturnSteps
    <3>2. ~(tlsio_state = "INIT" /\ open_results = 1)
      BY <2>4 DEF Answered, Closing
    <3>3. Entered \intersect Closing # {} => Under(stack) \intersect Closing # {}
      BY <2>2, <2>4
    <3>4. Under(stack) # {} => stack' # <<>>
      BY <3>1 DEF Entered, Elements
    <3> QED
      BY <2>1, <2>4, <3>1, <3>2, <3>3, <3>4 DEF Answered
  <2>5. CASE DoworkSendNothing \/ DoworkSendFails \/ CallbackReturns
    BY <2>4, <2>5 DEF DoworkSendNothing, DoworkSendFails, CallbackReturns, Sending, At, Closing
  <2>6. CASE \E n \in 1..MaxSize : DoworkSendWrites(n)
    <3>1. "on_send_complete" \in Points
      BY DEF Points, Callbacks
    <3> QED
      BY <2>4, <2>6, <3>1 DEF DoworkSendWrites, Sending, At, Closing
  <2>7. CASE DoworkRead \/ OnBytesReceivedReturns
    <3>1. {"on_bytes_received", "dowork_send", "dowork_read"} \subseteq Points
      BY DEF Points, Callbacks, Inside
    <3> QED
      BY <2>4, <2>7, <3>1 DEF DoworkRead, OnBytesReceivedReturns, At, Closing
  <2>8. CASE OnOpenCancelledReturns
    <3>1. Goto("close_async") /\ UNCHANGED <<tlsio_state, open_results>>
      BY <2>8 DEF OnOpenCancelledReturns
    <3>2. stack' # <<>> /\ Head(stack') = "close_async" /\ "close_async" \in Entered'
      BY <2>1, <3>1, GotoSteps DEF Points, Inside
    <3> QED
      BY <3>1, <3>2 DEF Answered, Closing
  <2> QED
    BY <1>3, <2>3, <2>5, <2>6, <2>7, <2>8 DEF Running
<1>4. CASE Over \/ UNCHANGED vars
  BY <1>4 DEF Over, vars, Answered, Entered
<1> QED
  BY <1>1, <1>2, <1>3, <1>4 DEF Next

-----------------------------------------------------------------------------
(* No undefined behaviour.                                                 *)

\* It does not close from inside on_bytes_received: the loop of dowork_read goes on
\* with the connection (line 417).
NoCloseWhenReading == "close" \notin Reentry["on_bytes_received"]

\* What the absence of undefined behaviour takes: the allocation of the handle does
\* not fail, a closed instance is not used again, and the callbacks are careful.
Careful ==
    /\ "handle" \notin AllocFailures
    /\ Reuse = {}
    /\ NoSendWhenCancelled
    /\ NoCloseWhenCancelled
    /\ NoCloseWhenReading

\* Where control is when esp_tls is going to be called, now or later.
UsesHandle == {"dowork_read", "dowork_send", "send_async", "on_bytes_received",
               "on_open_cancelled"}

\* No undefined behaviour so far; the connection is only deleted in a loop of
\* internal_close or once closed, and never while it is still to be used.
HandleKept ==
    /\ fault = "none"
    /\ handle = "deleted" => Entered \intersect Closing # {} \/ tlsio_state = "CLOSED"
    /\ Entered \intersect UsesHandle # {} => handle = "allocated"
    /\ "on_open_cancelled" \notin Under(stack)
    /\ stack # <<>> /\ Head(stack) = "on_open_cancelled" =>
          tlsio_state = "INIT" /\ "on_bytes_received" \notin Under(stack)

\* Where the upper layer is when it makes a call, and the handle it makes it with.
LEMMA CallPlace ==
    ASSUME TypeOK, Control, HandleKept, NEW call \in Calls, CanCall(call)
    PROVE  /\ instance = "live" /\ handle \in {"allocated", "deleted"}
           /\ Entered \subseteq Callbacks \union Closing
           /\ "on_open_cancelled" \in Entered =>
                 stack # <<>> /\ Head(stack) = "on_open_cancelled"
           /\ \A c \in Entered \intersect Callbacks : call \in Reentry[c]
<1>1. /\ instance = "live" /\ handle \in {"allocated", "deleted"}
      /\ stack # <<>> => Head(stack) \in Callbacks
      /\ \A c \in Entered \intersect Callbacks : call \in Reentry[c]
  BY Allowed DEF Control, TypeOK
<1>2. Entered = IF stack = <<>> THEN {} ELSE {Head(stack)} \union Under(stack)
  BY ElementsAre DEF TypeOK, Entered
<1> QED
  BY <1>1, <1>2 DEF Control, HandleKept

\* The calls of the upper layer keep it.
LEMMA HandleUpperLayer ==
    ASSUME Careful, TypeOK, NotOpenIsEmpty, Control, ClosingAlone, HandleKept, UpperLayer
    PROVE  HandleKept'
<1> USE DEF conn, Careful
<1>1. CASE Create
  <2>1. stack = <<>> /\ UNCHANGED <<stack, tlsio_state>> /\ tlsio_state = "CLOSED"
    BY <1>1 DEF Create, NotOpenIsEmpty
  <2>2. fault' = "none"
    BY <1>1 DEF Create
  <2> QED
    BY <2>1, <2>2 DEF HandleKept, Entered, Elements, Under
<1>2. CASE Destroy
  <2>1. /\ instance = "live" /\ stack = <<>> /\ fault = "none"
        /\ Entered = {} /\ Under(stack) = {}
    BY <1>2 DEF Destroy, Idle, Entered, Elements, Under
  <2>2. CASE NeedsClose
    <3>1. handle = "allocated"
      BY <2>1, <2>2 DEF NeedsClose, HandleKept, Control, TypeOK
    <3>2. fault' = "none" /\ Call("destroy")
      BY <1>2, <2>1, <2>2, <3>1 DEF Destroy, Delete_connection, Uses_handle
    <3> QED
      BY <2>1, <3>2, CallSteps DEF HandleKept, Points, Inside, Closing, UsesHandle
  <2>3. CASE ~NeedsClose
    BY <1>2, <2>1, <2>3 DEF Destroy, HandleKept, Entered
  <2> QED
    BY <2>2, <2>3
<1>3. ASSUME NEW o \in Options, SetOption(o)
      PROVE  HandleKept'
  BY <1>3 DEF SetOption, HandleKept, Entered
<1>4. CASE OpenAsync
  <2>1. handle = "allocated" /\ tlsio_state = "CLOSED" /\ UNCHANGED <<handle, stack, fault>>
    BY <1>4, CallPlace DEF OpenAsync, MayOpen, Calls
  <2> QED
    BY <1>4, <2>1 DEF HandleKept, Entered
<1>5. CASE CloseAsync
  <2>1. /\ handle = "allocated"
        /\ Entered \subseteq Callbacks \union Closing
        /\ "on_open_cancelled" \notin Entered /\ "on_bytes_received" \notin Entered
    BY <1>5, CallPlace
       DEF CloseAsync, Calls, NoCloseWhenCancelled, NoCloseWhenReading, Callbacks
  <2>2. CASE is_an_opening_state
    <3>1. Call("on_open_cancelled") /\ UNCHANGED <<handle, fault, tlsio_state>> /\ tlsio_state = "INIT"
      BY <1>5, <2>2 DEF CloseAsync, is_an_opening_state
    <3> QED
      BY <2>1, <3>1, CallSteps DEF HandleKept, Points, Callbacks
  <2>3. CASE ~is_an_opening_state
    <3>1. Call("close_async") /\ fault' = "none"
      BY <1>5, <2>1, <2>3 DEF CloseAsync, Delete_connection, Uses_handle, HandleKept
    <3>2. Entered \intersect UsesHandle = {}
      BY <2>1 DEF UsesHandle, Callbacks, Closing
    <3> QED
      BY <2>1, <3>1, <3>2, CallSteps DEF HandleKept, Points, Inside, Closing, UsesHandle
  <2> QED
    BY <2>2, <2>3
<1>6. ASSUME NEW m \in Msgs, NEW s \in 1..MaxSize, SendAsync(m, s)
      PROVE  HandleKept'
  <2>1. /\ tlsio_state = "OPEN" /\ fault = "none" /\ Call("send_async")
        /\ UNCHANGED <<tlsio_state, handle, fault>>
        /\ stack # <<>> => Head(stack) \in Callbacks
    BY <1>6 DEF SendAsync, CanCall
  <2>2. /\ handle \in {"allocated", "deleted"}
        /\ \A c \in Entered \intersect Callbacks : "send" \in Reentry[c]
        /\ "on_open_cancelled" \in Entered =>
              stack # <<>> /\ Head(stack) = "on_open_cancelled"
    BY <1>6, CallPlace DEF SendAsync, Calls
  <2>3. Entered = IF stack = <<>> THEN {} ELSE {Head(stack)} \union Under(stack)
    BY ElementsAre DEF TypeOK, Entered
  <2>4. stack # <<>> => Head(stack) \notin Closing \union {"on_send_cancelled"}
    BY <2>1, <2>2, <2>3 DEF NoSendWhenCancelled, Callbacks, Closing
  <2>5. Entered \intersect Closing = {}
    BY <2>1, <2>3, <2>4, NotClosing
  <2>6. handle = "allocated"
    BY <2>1, <2>2, <2>5 DEF HandleKept
  <2>7. "on_open_cancelled" \notin Entered
    BY <2>1, <2>2 DEF HandleKept
  <2> QED
    BY <2>1, <2>6, <2>7, CallSteps DEF HandleKept, Points, Inside
<1> QED
  BY <1>1, <1>2, <1>3, <1>4, <1>5, <1>6 DEF UpperLayer

\* So do dowork and what runs on.
LEMMA HandleRunning ==
    ASSUME Careful, TypeOK, NotOpenIsEmpty, Control, ClosingAlone, HandleKept, Dowork \/ Running
    PROVE  HandleKept'
<1> USE DEF conn, Careful
<1>1. CASE Dowork
  <2>1. /\ stack = <<>> /\ Entered = {} /\ fault = "none" /\ tlsio_state # "CLOSED"
        /\ instance = "live"
    BY <1>1 DEF Dowork, DoworkInit, DoworkOpen, Idle, Entered, Elements
  <2>2. handle = "allocated"
    BY <2>1 DEF HandleKept, Control, TypeOK
  <2>3. UNCHANGED handle /\ fault' = "none"
    BY <1>1, <2>1, <2>2 DEF Dowork, DoworkInit, DoworkOpen, Uses_handle
  <2>4. CASE UNCHANGED stack
    BY <2>1, <2>2, <2>3, <2>4 DEF HandleKept, Entered, Under
  <2>5. CASE Call("on_open_complete") \/ Call("dowork_read")
    BY <2>1, <2>2, <2>3, <2>5, CallSteps DEF HandleKept, Points, Inside, Callbacks
  <2> QED
    BY <1>1, <2>4, <2>5 DEF Dowork, DoworkInit, DoworkOpen
<1>2. CASE Running
  <2>1. stack # <<>> /\ fault = "none"
    BY <1>2 DEF Running, Drain, DoworkSendNothing, DoworkSendFails, DoworkSendWrites, Sending,
          DoworkRead, OnBytesReceivedReturns, OnOpenCancelledReturns, CallbackReturns, At
  <2>2. Entered = {Head(stack)} \union Under(stack)
    BY <2>1, ElementsAre DEF TypeOK, Entered
  <2>3. CASE Drain
    <3>1. /\ Head(stack) \in Closing /\ handle = "deleted" /\ UNCHANGED <<handle, fault>>
      BY <2>2, <2>3 DEF Drain, At, Closing, Control
    <3>2. Entered \intersect UsesHandle = {}
      BY <3>1 DEF HandleKept
    <3>3. CASE Call("on_send_cancelled")
      BY <2>1, <2>2, <3>1, <3>2, <3>3, CallSteps DEF HandleKept, Points, Callbacks, UsesHandle
    <3>4. CASE Goto("on_io_close_complete") /\ EnterClosed
      BY <2>1, <2>2, <3>1, <3>2, <3>4, GotoSteps
         DEF HandleKept, EnterClosed, Points, Callbacks, UsesHandle
    <3>5. CASE Return /\ EnterClosed
      BY <2>1, <2>2, <3>1, <3>2, <3>5, ReturnSteps DEF HandleKept, EnterClosed, UsesHandle
    <3> QED
      BY <2>3, <3>3, <3>4, <3>5 DEF Drain
  <2>4. CASE OnOpenCancelledReturns
    <3>1. handle = "allocated" /\ tlsio_state = "INIT" /\ "on_bytes_received" \notin Under(stack)
            /\ "on_open_cancelled" \notin Under(stack)
      BY <2>1, <2>2, <2>4 DEF OnOpenCancelledReturns, At, HandleKept, UsesHandle
    <3>2. Under(stack) \intersect UsesHandle = {}
      BY <3>1 DEF Control, UsesHandle, Callbacks, Closing
    <3>3. Goto("close_async") /\ fault' = "none"
      BY <2>1, <2>4, <3>1 DEF OnOpenCancelledReturns, Delete_connection, Uses_handle
    <3> QED
      BY <2>1, <3>1, <3>2, <3>3, GotoSteps
         DEF HandleKept, Points, Inside, UsesHandle, Closing
  <2>5. CASE CallbackReturns
    <3>1. Return /\ UNCHANGED <<handle, fault, tlsio_state>> /\ Head(stack) \notin Closing
      BY <2>5 DEF CallbackReturns, At, Closing
    <3> QED
      BY <2>1, <2>2, <3>1, ReturnSteps DEF HandleKept
  \* The steps that use the connection.
  <2>6. ASSUME Head(stack) \in UsesHandle \ {"on_open_cancelled"},
               UNCHANGED handle, fault' = IF handle = "allocated" THEN fault ELSE "deleted_handle",
               \/ Return
               \/ Goto("on_send_complete") \/ Goto("on_bytes_received")
               \/ Goto("dowork_send") \/ Goto("dowork_read")
        PROVE  HandleKept'
    <3>1. handle = "allocated"
      BY <2>2, <2>6 DEF HandleKept
    <3>2. CASE Return
      BY <2>1, <2>6, <3>1, <3>2, ReturnSteps DEF HandleKept
    <3>3. CASE ~Return
      BY <2>1, <2>6, <3>1, <3>3, GotoSteps DEF HandleKept, Points, Callbacks, Inside
    <3> QED
      BY <3>2, <3>3
  <2>7. CASE \/ DoworkSendNothing \/ DoworkSendFails \/ (\E n \in 1..MaxSize : DoworkSendWrites(n))
             \/ DoworkRead \/ OnBytesReceivedReturns
    <3>1. Head(stack) \in UsesHandle \ {"on_open_cancelled"}
      BY <2>7 DEF DoworkSendNothing, DoworkSendFails, DoworkSendWrites, DoworkRead, Sending,
                  OnBytesReceivedReturns, At, UsesHandle
    <3>2. handle = "allocated"
      BY <2>2, <3>1 DEF HandleKept
    <3>3. UNCHANGED handle /\ fault' = IF handle = "allocated" THEN fault ELSE "deleted_handle"
      BY <2>7, <3>2 DEF DoworkSendNothing, DoworkSendFails, DoworkSendWrites, DoworkRead,
                  OnBytesReceivedReturns, Uses_handle
    <3> QED
      BY <2>6, <2>7, <3>1, <3>3 DEF DoworkSendNothing, DoworkSendFails, DoworkSendWrites,
                  DoworkRead, OnBytesReceivedReturns
  <2> QED
    BY <1>2, <2>3, <2>4, <2>5, <2>7 DEF Running
<1> QED
  BY <1>1, <1>2

LEMMA HandleStep ==
    ASSUME Careful, TypeOK, NotOpenIsEmpty, Control, ClosingAlone, HandleKept, [Next]_vars
    PROVE  HandleKept'
<1>1. CASE Over \/ UNCHANGED vars
  BY <1>1 DEF Over, vars, conn, HandleKept, Entered
<1> QED
  BY <1>1, HandleUpperLayer, HandleRunning DEF Next

-----------------------------------------------------------------------------
(* The bytes on the wire.                                                  *)

\* Whoever reads has an open connection, or one that was deleted meanwhile.
ReadingOpen ==
    Entered \intersect {"dowork_read", "on_bytes_received"} # {} /\ handle # "deleted"
      => tlsio_state \in {"OPEN", "ERROR"}

\* Every step keeps it.
LEMMA ReadingStep ==
    ASSUME TypeOK, NotOpenIsEmpty, Control, ReadingOpen, [Next]_vars
    PROVE  ReadingOpen'
<1> USE DEF conn
<1>1. CASE UpperLayer
  <2>1. CASE Create
    <3>1. Entered = {} /\ UNCHANGED stack
      BY <2>1 DEF Create, NotOpenIsEmpty, Entered, Elements
    <3> QED
      BY <3>1 DEF ReadingOpen, Entered
  <2>2. CASE Destroy
    BY <2>2 DEF Destroy, Delete_connection, ReadingOpen, Entered
  <2>3. CASE OpenAsync \/ (\E o \in Options : SetOption(o))
    BY <2>3 DEF OpenAsync, MayOpen, SetOption, ReadingOpen, Entered
  <2>4. CASE CloseAsync
    BY <2>4, CallSteps DEF CloseAsync, Delete_connection, ReadingOpen, Points, Callbacks
  <2>5. ASSUME NEW m \in Msgs, NEW s \in 1..MaxSize, SendAsync(m, s)
        PROVE  ReadingOpen'
    BY <2>5 DEF SendAsync, ReadingOpen
  <2> QED
    BY <1>1, <2>1, <2>2, <2>3, <2>4, <2>5 DEF UpperLayer
<1>2. CASE Dowork
  <2>1. Entered = {}
    BY <1>2 DEF Dowork, DoworkInit, DoworkOpen, Idle, Entered, Elements
  <2>2. CASE DoworkInit
    <3>1. UNCHANGED stack \/ Call("on_open_complete")
      BY <2>2 DEF DoworkInit
    <3>2. Entered' \subseteq {"on_open_complete"}
      BY <2>1, <3>1, CallSteps DEF Entered, Points, Callbacks
    <3> QED
      BY <3>2 DEF ReadingOpen
  <2>3. CASE DoworkOpen
    BY <2>3 DEF DoworkOpen, ReadingOpen
  <2> QED
    BY <1>2, <2>2, <2>3 DEF Dowork
<1>3. CASE Running
  <2>1. stack # <<>>
    BY <1>3 DEF Running, Drain, DoworkSendNothing, DoworkSendFails, DoworkSendWrites, Sending,
          DoworkRead, OnBytesReceivedReturns, OnOpenCancelledReturns, CallbackReturns, At
  <2>2. Entered = {Head(stack)} \union Under(stack)
    BY <2>1, ElementsAre DEF TypeOK, Entered
  <2>3. CASE Drain
    <3>1. handle' = "deleted"
      BY <2>2, <2>3 DEF Drain, At, Control, Closing
    <3> QED
      BY <3>1 DEF ReadingOpen
  <2>4. CASE OnOpenCancelledReturns
    BY <2>4 DEF OnOpenCancelledReturns, Delete_connection, ReadingOpen
  <2>5. ASSUME UNCHANGED handle, tlsio_state' \in {tlsio_state, "ERROR"},
               Return \/ Goto("on_send_complete") \/ Goto("dowork_send")
        PROVE  ReadingOpen'
    <3>1. Entered' \subseteq Under(stack) \union {"on_send_complete", "dowork_send"}
      BY <2>1, <2>5, ReturnSteps, GotoSteps DEF Points, Callbacks, Inside
    <3> QED
      BY <2>2, <2>5, <3>1 DEF ReadingOpen
  <2>6. CASE DoworkSendNothing \/ DoworkSendFails \/ CallbackReturns
              \/ (\E n \in 1..MaxSize : DoworkSendWrites(n))
    BY <2>5, <2>6 DEF DoworkSendNothing, DoworkSendFails, CallbackReturns, DoworkSendWrites
  <2>7. CASE DoworkRead \/ OnBytesReceivedReturns
    <3>1. "dowork_read" \in Entered \/ "on_bytes_received" \in Entered
      BY <2>2, <2>7 DEF DoworkRead, OnBytesReceivedReturns, At
    <3>2. UNCHANGED handle /\ tlsio_state' \in {tlsio_state, "ERROR"}
      BY <2>7 DEF DoworkRead, OnBytesReceivedReturns
    <3> QED
      BY <3>1, <3>2 DEF ReadingOpen
  <2> QED
    BY <1>3, <2>3, <2>4, <2>6, <2>7 DEF Running
<1>4. CASE Over \/ UNCHANGED vars
  BY <1>4 DEF Over, vars, ReadingOpen, Entered
<1> QED
  BY <1>1, <1>2, <1>3, <1>4 DEF Next

\* The last byte written is the last one of the message completed last: nothing of the
\* next message was written.
Finished ==
    wire # <<>> =>
      /\ completed # <<>>
      /\ wire[Len(wire)] = <<completed[Len(completed)], size[completed[Len(completed)]]>>

\* The wire ends where the oldest message in the queue goes on.
Linked ==
    IF pending = <<>> \/ unsent[Head(pending)] = size[Head(pending)]
    THEN Finished
    ELSE /\ wire # <<>>
         /\ wire[Len(wire)] = <<Head(pending), size[Head(pending)] - unsent[Head(pending)]>>

\* Where the wire is still written to.
Writable == fault = "none" /\ tlsio_state \in {"OPEN", "ERROR"} /\ Entered \intersect Closing = {}

\* What the order on the wire rests on: only accepted messages are on it, it is empty
\* before the connection is open, only the oldest message is partly written, and the
\* wire ends where that message goes on.
WireKept ==
    /\ WireIsInOrder
    /\ \A j \in 1..Len(wire) : \E k \in 1..Len(accepted) : accepted[k] = wire[j][1]
    /\ tlsio_state = "INIT" => wire = <<>>
    /\ \A i \in 2..Len(pending) : unsent[pending[i]] = size[pending[i]]
    /\ Writable => Linked

\* The messages in the queue are different ones.
LEMMA QueuedOnce ==
    ASSUME TypeOK, Messages, NEW i \in 1..Len(pending), NEW j \in 1..Len(pending),
           pending[i] = pending[j]
    PROVE  i = j
<1>1. Len(completed) \in Nat
  BY DEF TypeOK
<1>2. /\ Len(completed) + i \in 1..Len(accepted) /\ accepted[Len(completed) + i] = pending[i]
      /\ Len(completed) + j \in 1..Len(accepted) /\ accepted[Len(completed) + j] = pending[j]
  BY Places DEF Messages
<1>3. Len(completed) + i = Len(completed) + j
  BY <1>2 DEF Messages, AcceptedOnce
<1> QED
  BY <1>1, <1>3

\* Where the elements of a concatenation are.
LEMMA JoinedAt ==
    ASSUME NEW T, NEW w \in Seq(T), NEW b \in Seq(T), NEW v \in Seq(T), v = w \o b
    PROVE  /\ Len(v) = Len(w) + Len(b) /\ Len(w) \in Nat
           /\ \A j \in 1..Len(w) : v[j] = w[j]
           /\ \A i \in 1..Len(b) : v[Len(w) + i] = b[i]
<1>1. Len(v) = Len(w) + Len(b) /\ Len(w) \in Nat /\ Len(b) \in Nat
  OBVIOUS
<1>2. \A j \in 1..Len(w) : v[j] = w[j]
  OBVIOUS
<1>3. \A i \in 1..Len(b) : v[Len(w) + i] = b[i]
  <2> SUFFICES ASSUME NEW i \in 1..Len(b)
               PROVE  v[Len(w) + i] = b[i]
    OBVIOUS
  <2>1. Len(w) + i \in 1..(Len(w) + Len(b)) /\ ~(Len(w) + i <= Len(w))
          /\ (Len(w) + i) - Len(w) = i
    BY <1>1
  <2>2. v[Len(w) + i] = b[(Len(w) + i) - Len(w)]
    BY <1>1, <2>1
  <2> QED
    BY <2>1, <2>2
<1> QED
  BY <1>1, <1>2, <1>3

\* A write goes on where the wire ends.
LEMMA WriteWire ==
    ASSUME TypeOK, Messages, NotOpenIsEmpty, ClosingAlone, WireKept,
           NEW n \in 1..MaxSize, DoworkSendWrites(n)
    PROVE  WireKept'
<1> DEFINE m == Head(pending)
           o == Offset(m)
<1>1. /\ pending \in Seq(Msgs) /\ pending # <<>> /\ m = pending[1] /\ m \in Msgs
      /\ 1 \in 1..Len(pending)
      /\ completed \in Seq(Msgs) /\ accepted \in Seq(Msgs) /\ wire \in Seq(Msgs \X Nat)
      /\ size \in [Msgs -> 0..MaxSize] /\ unsent \in [Msgs -> 0..MaxSize]
      /\ n <= unsent[m] /\ unsent[m] <= size[m] /\ n \in Nat /\ n > 0
  <2>1. pending \in Seq(Msgs) /\ pending # <<>> /\ m = pending[1] /\ m \in Msgs
          /\ 1 \in 1..Len(pending)
    BY DEF TypeOK, DoworkSendWrites
  <2>2. n <= unsent[m] /\ n \in Nat /\ n > 0
    BY DEF DoworkSendWrites
  <2>3. wire \in Seq(Msgs \X Nat)
    BY DEF TypeOK
  <2>4. unsent[m] <= size[m]
    BY <2>1 DEF TypeOK
  <2> QED
    BY <2>1, <2>2, <2>3, <2>4 DEF TypeOK
<1>2. /\ wire' = wire \o [i \in 1..n |-> <<m, o + i>>]
      /\ unsent' = [unsent EXCEPT ![m] = @ - n]
      /\ UNCHANGED <<size, accepted, tlsio_state>>
  BY DEF DoworkSendWrites, conn
<1>3. Linked
  <2>1. stack # <<>> /\ fault = "none" /\ Head(stack) \notin Closing \union {"on_send_cancelled"}
    BY DEF DoworkSendWrites, Sending, At, Closing
  <2>2. tlsio_state \in {"OPEN", "ERROR"}
    BY <1>1 DEF NotOpenIsEmpty, TypeOK, States
  <2> QED
    BY <2>1, <2>2, NotClosing DEF WireKept, Writable
<1>a. o = size[m] - unsent[m]
  BY DEF Offset
<1> HIDE DEF o, m
<1>4. /\ o \in Nat /\ (o = 0 <=> unsent[m] = size[m])
      /\ unsent'[m] = unsent[m] - n /\ unsent'[m] \in Nat
      /\ o + n = size[m] - unsent'[m]
  <2>1. unsent[m] \in Nat /\ size[m] \in Nat /\ unsent[m] <= size[m] /\ n <= unsent[m]
    BY <1>1
  <2>2. unsent'[m] = unsent[m] - n
    BY <1>1, <1>2
  <2> QED
    BY <1>a, <2>1, <2>2
<1>5. /\ Len(wire') = Len(wire) + n /\ Len(wire) \in Nat
      /\ \A j \in 1..Len(wire) : wire'[j] = wire[j]
      /\ \A i \in 1..n : wire'[Len(wire) + i] = <<m, o + i>>
      /\ wire' # <<>> /\ wire'[Len(wire')] = <<m, o + n>>
  <2> DEFINE T == Msgs \X Nat
             b == [i \in 1..n |-> <<m, o + i>>]
  <2>1. m \in Msgs /\ o \in Nat /\ n \in Nat /\ n > 0
    BY <1>1, <1>4
  <2>2. \A i \in 1..n : <<m, o + i>> \in T
    BY <2>1
  <2>3. wire \in Seq(T) /\ wire' = wire \o b
    BY <1>1, <1>2
  <2> HIDE DEF T
  <2>4. b \in Seq(T) /\ Len(b) = n
    BY <2>1, <2>2
  <2>5. \A i \in 1..n : b[i] = <<m, o + i>>
    OBVIOUS
  <2> HIDE DEF b
  <2>6. wire' \in Seq(T)
    BY <2>3, <2>4
  <2>7. /\ Len(wire') = Len(wire) + Len(b) /\ Len(wire) \in Nat
        /\ \A j \in 1..Len(wire) : wire'[j] = wire[j]
        /\ \A i \in 1..Len(b) : wire'[Len(wire) + i] = b[i]
    BY <2>3, <2>4, <2>6, JoinedAt
  <2>8. /\ Len(wire') = Len(wire) + n /\ Len(wire) \in Nat
        /\ \A j \in 1..Len(wire) : wire'[j] = wire[j]
        /\ \A i \in 1..n : wire'[Len(wire) + i] = <<m, o + i>>
    BY <2>4, <2>5, <2>7
  <2>9. n \in 1..n /\ wire' # <<>>
    BY <2>1, <2>6, <2>8
  <2> QED
    BY <2>8, <2>9
<1>6. /\ Len(completed) \in Nat
      /\ Len(completed) + 1 \in 1..Len(accepted) /\ accepted[Len(completed) + 1] = m
      /\ completed # <<>> => /\ Len(completed) \in 1..Len(accepted)
                             /\ accepted[Len(completed)] = completed[Len(completed)]
  <2>1. Len(completed) \in Nat /\ (completed # <<>> => Len(completed) \in 1..Len(completed))
    BY <1>1
  <2>2. Len(completed) + 1 \in 1..Len(accepted) /\ accepted[Len(completed) + 1] = m
    BY <1>1, Places DEF Messages
  <2> QED
    BY <2>1, <2>2, Places DEF Messages
<1>7. WireIsInOrder'
  <2> SUFFICES ASSUME NEW j \in 1..Len(wire')
               PROVE  LET c == wire'[j][1]
                          i == wire'[j][2]
                      IN  \/ i > 1 /\ j > 1 /\ wire'[j - 1] = <<c, i - 1>>
                          \/ i = 1 /\ j = 1
                          \/ /\ i = 1 /\ j > 1
                             /\ wire'[j - 1][2] = size[wire'[j - 1][1]]
                             /\ \E k \in 1..(Len(accepted) - 1) :
                                   accepted[k] = wire'[j - 1][1] /\ accepted[k + 1] = c
    BY <1>2 DEF WireIsInOrder
  <2>1. CASE j \in 1..Len(wire)
    <3>1. wire'[j] = wire[j] /\ (j > 1 => wire'[j - 1] = wire[j - 1])
      BY <1>5, <2>1
    <3> QED
      BY <2>1, <3>1 DEF WireKept, WireIsInOrder
  <2>2. CASE j = Len(wire) + 1
    <3>1. wire'[j] = <<m, o + 1>>
      BY <1>1, <1>5, <2>2
    <3>2. CASE o # 0
      <4>1. wire # <<>> /\ wire[Len(wire)] = <<m, o>>
        BY <1>1, <1>3, <1>4, <1>a, <3>2 DEF Linked, m
      <4>2. j > 1 /\ wire'[j - 1] = <<m, o>>
        <5>1. j - 1 = Len(wire) /\ Len(wire) \in 1..Len(wire)
          BY <1>1, <1>5, <2>2, <4>1
        <5> QED
          BY <1>5, <2>2, <4>1, <5>1
      <4> QED
        BY <1>4, <3>1, <3>2, <4>2
    <3>3. CASE o = 0 /\ wire = <<>>
      BY <2>2, <3>1, <3>3
    <3>4. CASE o = 0 /\ wire # <<>>
      <4> DEFINE c == completed[Len(completed)]
      <4>1. completed # <<>> /\ wire[Len(wire)] = <<c, size[c]>>
        BY <1>1, <1>3, <1>4, <3>4 DEF Linked, Finished, m
      <4>2. j > 1 /\ wire'[j - 1] = <<c, size[c]>>
        <5>1. j - 1 = Len(wire) /\ Len(wire) \in 1..Len(wire)
          BY <1>1, <1>5, <2>2, <3>4
        <5> QED
          BY <1>5, <2>2, <4>1, <5>1
      <4>3. Len(completed) \in 1..(Len(accepted) - 1)
        BY <1>1, <1>6, <4>1
      <4> QED
        BY <1>6, <3>1, <3>4, <4>1, <4>2, <4>3
    <3> QED
      BY <3>2, <3>3, <3>4
  <2>3. CASE j > Len(wire) + 1
    <3> DEFINE i == j - Len(wire)
    <3>1. i \in 2..n /\ i - 1 \in 1..n /\ j = Len(wire) + i /\ j - 1 = Len(wire) + (i - 1)
      BY <1>5, <2>3
    <3> HIDE DEF i
    <3>2. wire'[j] = <<m, o + i>>
      BY <1>5, <3>1
    <3>a. wire'[j - 1] = <<m, o + (i - 1)>>
      BY <1>5, <3>1
    <3>3. o + i > 1 /\ (o + i) - 1 = o + (i - 1) /\ j > 1
      BY <1>4, <1>5, <3>1
    <3> QED
      BY <3>2, <3>a, <3>3
  <2> QED
    BY <1>5, <2>1, <2>2, <2>3
<1>8. \A j \in 1..Len(wire') : \E k \in 1..Len(accepted') : accepted'[k] = wire'[j][1]
  <2> SUFFICES ASSUME NEW j \in 1..Len(wire')
               PROVE  \E k \in 1..Len(accepted) : accepted[k] = wire'[j][1]
    BY <1>2
  <2>1. CASE j \in 1..Len(wire)
    BY <1>5, <2>1 DEF WireKept
  <2>2. CASE j \notin 1..Len(wire)
    <3>1. j - Len(wire) \in 1..n /\ j = Len(wire) + (j - Len(wire))
      BY <1>1, <1>5, <2>2
    <3>2. wire'[j] = <<m, o + (j - Len(wire))>>
      BY <1>5, <3>1
    <3> QED
      BY <1>6, <3>2
  <2> QED
    BY <2>1, <2>2
<1>9. tlsio_state' # "INIT"
  BY <1>1, <1>2 DEF NotOpenIsEmpty
<1>10. \A x \in Msgs : x # m => unsent'[x] = unsent[x]
  BY <1>1, <1>2
<1>11. \A i \in 2..Len(pending) :
          pending[i] \in Msgs /\ pending[i] # m /\ unsent'[pending[i]] = size[pending[i]]
  <2> SUFFICES ASSUME NEW i \in 2..Len(pending)
               PROVE  pending[i] \in Msgs /\ pending[i] # m /\ unsent'[pending[i]] = size[pending[i]]
    OBVIOUS
  <2>1. i \in 1..Len(pending) /\ i # 1 /\ pending[i] \in Msgs
    BY <1>1
  <2>2. pending[i] # m
    BY <1>1, <2>1, QueuedOnce
  <2> QED
    BY <1>10, <2>1, <2>2 DEF WireKept
<1>12. wire' # <<>> /\ wire'[Len(wire')] = <<m, size[m] - unsent'[m]>>
  BY <1>4, <1>5
<1>13. CASE Entirely(unsent'[m])
  <2>1. pending' = Tail(pending) /\ completed' = Append(completed, m)
    BY <1>13 DEF DoworkSendWrites, process_and_destroy_head_message, m
  <2>2. /\ Len(Tail(pending)) = Len(pending) - 1 /\ Tail(pending) \in Seq(Msgs)
        /\ \A i \in 1..Len(Tail(pending)) : Tail(pending)[i] = pending[i + 1]
    BY <1>1, HeadTailProperties
  <2>3. \A i \in 1..Len(pending') : unsent'[pending'[i]] = size[pending'[i]]
    <3> SUFFICES ASSUME NEW i \in 1..Len(Tail(pending))
                 PROVE  unsent'[Tail(pending)[i]] = size[Tail(pending)[i]]
      BY <2>1
    <3>1. i + 1 \in 2..Len(pending) /\ Tail(pending)[i] = pending[i + 1]
      BY <1>1, <2>2
    <3> QED
      BY <1>11, <3>1
  <2>4. completed' # <<>> /\ completed'[Len(completed')] = m
    <3>1. m \in Msgs /\ completed \in Seq(Msgs)
      BY <1>1
    <3> QED
      BY <2>1, <3>1
  <2>5. Finished'
    <3>1. wire'[Len(wire')] = <<m, size[m]>>
      <4>1. unsent'[m] = 0 /\ size[m] \in Nat
        BY <1>1, <1>13 DEF Entirely
      <4> QED
        BY <1>12, <4>1
    <3> QED
      BY <1>2, <2>4, <3>1 DEF Finished
  <2>6. Linked'
    <3>1. pending' # <<>> => 1 \in 1..Len(pending') /\ Head(pending') = pending'[1]
      BY <2>1, <2>2
    <3>2. pending' # <<>> => unsent'[Head(pending')] = size[Head(pending')]
      BY <2>3, <3>1
    <3> QED
      BY <1>2, <2>5, <3>2 DEF Linked
  <2> QED
    BY <1>2, <1>7, <1>8, <1>9, <2>3, <2>6 DEF WireKept
<1>14. CASE ~Entirely(unsent'[m])
  <2>1. UNCHANGED <<pending, completed>>
    BY <1>14 DEF DoworkSendWrites, m
  <2>2. unsent'[m] # size[m]
    BY <1>1, <1>4
  <2>3. Linked'
    BY <1>1, <1>2, <1>12, <2>1, <2>2 DEF Linked, m
  <2> QED
    BY <1>2, <1>7, <1>8, <1>9, <1>11, <2>1, <2>3 DEF WireKept
<1> QED
  BY <1>13, <1>14

\* A step that writes nothing keeps it, unless the wire becomes writable by it.
LEMMA WireUntouched ==
    ASSUME WireKept, UNCHANGED <<wire, size, unsent, accepted, completed, pending>>,
           tlsio_state' = "INIT" => tlsio_state = "INIT",
           Writable' => Writable
    PROVE  WireKept'
<1>1. WireIsInOrder'
  BY DEF WireKept, WireIsInOrder
<1>2. Linked => Linked'
  BY DEF Linked, Finished
<1> QED
  BY <1>1, <1>2 DEF WireKept

\* A message that is accepted has no byte on the wire yet.
LEMMA AcceptWire ==
    ASSUME TypeOK, Messages, WireKept, Linked,
           NEW m \in Msgs, NEW s \in 1..MaxSize, SendAsync(m, s)
    PROVE  WireKept'
<1>1. /\ pending \in Seq(Msgs) /\ completed \in Seq(Msgs) /\ accepted \in Seq(Msgs)
      /\ wire \in Seq(Msgs \X Nat)
      /\ size \in [Msgs -> 0..MaxSize] /\ unsent \in [Msgs -> 0..MaxSize]
      /\ \A i \in 1..Len(accepted) : accepted[i] # m
  BY DEF TypeOK, SendAsync
<1>a. /\ \A i \in 1..Len(accepted) : accepted[i] \in Msgs /\ accepted[i] # m
      /\ Len(wire) \in Nat
  BY <1>1
<1>2. /\ size' = [size EXCEPT ![m] = s] /\ unsent' = [unsent EXCEPT ![m] = s]
      /\ pending' = Append(pending, m) /\ accepted' = Append(accepted, m)
      /\ UNCHANGED <<wire, completed, tlsio_state>> /\ tlsio_state = "OPEN"
  BY DEF SendAsync, Unsent, Enqueue, conn
<1>3. /\ size'[m] = s /\ unsent'[m] = s
      /\ \A x \in Msgs : x # m => size'[x] = size[x] /\ unsent'[x] = unsent[x]
  BY <1>1, <1>2
<1>4. /\ Len(accepted') = Len(accepted) + 1 /\ Len(accepted) \in Nat
      /\ \A k \in 1..Len(accepted) : accepted'[k] = accepted[k]
  BY <1>1, <1>2
<1>5. /\ Len(pending') = Len(pending) + 1 /\ Len(pending) \in Nat
      /\ pending'[Len(pending) + 1] = m
      /\ \A i \in 1..Len(pending) : pending'[i] = pending[i]
  BY <1>1, <1>2
<1>6. \A i \in 1..Len(pending) :
         /\ pending[i] \in Msgs /\ pending[i] # m
         /\ size'[pending[i]] = size[pending[i]] /\ unsent'[pending[i]] = unsent[pending[i]]
  <2> SUFFICES ASSUME NEW i \in 1..Len(pending)
               PROVE  pending[i] \in Msgs /\ pending[i] # m
    BY <1>3
  <2>1. Len(completed) + i \in 1..Len(accepted) /\ accepted[Len(completed) + i] = pending[i]
    BY Places DEF Messages
  <2> QED
    BY <1>a, <2>1
<1>7. \A i \in 1..Len(completed) :
         completed[i] \in Msgs /\ completed[i] # m /\ size'[completed[i]] = size[completed[i]]
  <2> SUFFICES ASSUME NEW i \in 1..Len(completed)
               PROVE  completed[i] \in Msgs /\ completed[i] # m
    BY <1>3
  <2>1. i \in 1..Len(accepted) /\ accepted[i] = completed[i]
    BY Places DEF Messages
  <2> QED
    BY <1>a, <2>1
<1>8. \A j \in 1..Len(wire) :
         wire[j][1] \in Msgs /\ wire[j][1] # m /\ size'[wire[j][1]] = size[wire[j][1]]
  <2> SUFFICES ASSUME NEW j \in 1..Len(wire)
               PROVE  wire[j][1] \in Msgs /\ wire[j][1] # m
    BY <1>3
  <2>1. wire[j] \in Msgs \X Nat
    BY <1>1
  <2>2. PICK k \in 1..Len(accepted) : accepted[k] = wire[j][1]
    BY DEF WireKept
  <2> QED
    BY <1>1, <2>1, <2>2
<1>9. WireIsInOrder'
  <2> SUFFICES ASSUME NEW j \in 1..Len(wire)
               PROVE  LET c == wire[j][1]
                          i == wire[j][2]
                      IN  \/ i > 1 /\ j > 1 /\ wire[j - 1] = <<c, i - 1>>
                          \/ i = 1 /\ j = 1
                          \/ /\ i = 1 /\ j > 1
                             /\ wire[j - 1][2] = size'[wire[j - 1][1]]
                             /\ \E k \in 1..(Len(accepted') - 1) :
                                   accepted'[k] = wire[j - 1][1] /\ accepted'[k + 1] = c
    BY <1>2 DEF WireIsInOrder
  <2>1. CASE j > 1 /\ wire[j - 1][2] = size[wire[j - 1][1]]
              /\ \E k \in 1..(Len(accepted) - 1) :
                    accepted[k] = wire[j - 1][1] /\ accepted[k + 1] = wire[j][1]
    <3>1. j - 1 \in 1..Len(wire)
      <4>1. j > 1
        BY <2>1
      <4> QED
        BY <1>a, <4>1
    <3>2. size'[wire[j - 1][1]] = size[wire[j - 1][1]]
      BY <1>8, <3>1
    <3>3. PICK k \in 1..(Len(accepted) - 1) :
             accepted[k] = wire[j - 1][1] /\ accepted[k + 1] = wire[j][1]
      BY <2>1
    <3>4. /\ k \in 1..(Len(accepted') - 1) /\ k \in 1..Len(accepted) /\ k + 1 \in 1..Len(accepted)
      BY <1>4, <3>3
    <3>5. accepted'[k] = wire[j - 1][1] /\ accepted'[k + 1] = wire[j][1]
      BY <1>4, <3>3, <3>4
    <3> QED
      BY <2>1, <3>2, <3>4, <3>5 DEF WireKept, WireIsInOrder
  <2> QED
    BY <2>1 DEF WireKept, WireIsInOrder
<1>10. \A j \in 1..Len(wire') : \E k \in 1..Len(accepted') : accepted'[k] = wire'[j][1]
  <2> SUFFICES ASSUME NEW j \in 1..Len(wire)
               PROVE  \E k \in 1..Len(accepted') : accepted'[k] = wire[j][1]
    BY <1>2
  <2>1. PICK k \in 1..Len(accepted) : accepted[k] = wire[j][1]
    BY DEF WireKept
  <2>2. k \in 1..Len(accepted') /\ accepted'[k] = wire[j][1]
    BY <1>4, <2>1
  <2> QED
    BY <2>2
<1>11. \A i \in 2..Len(pending') : unsent'[pending'[i]] = size'[pending'[i]]
  <2> SUFFICES ASSUME NEW i \in 2..Len(pending')
               PROVE  unsent'[pending'[i]] = size'[pending'[i]]
    OBVIOUS
  <2>1. CASE i = Len(pending) + 1
    BY <1>3, <1>5, <2>1
  <2>2. CASE i # Len(pending) + 1
    <3>1. i \in 1..Len(pending) /\ i \in 2..Len(pending) /\ pending'[i] = pending[i]
      BY <1>5, <2>2
    <3> QED
      BY <1>6, <3>1 DEF WireKept
  <2> QED
    BY <2>1, <2>2
<1>12. Finished => Finished'
  <2> SUFFICES ASSUME wire # <<>>, completed # <<>>
               PROVE  size'[completed[Len(completed)]] = size[completed[Len(completed)]]
    BY <1>2 DEF Finished
  <2>1. Len(completed) \in 1..Len(completed)
    BY <1>1
  <2> QED
    BY <1>7, <2>1
<1>13. Linked'
  <2>1. CASE pending = <<>>
    <3>1. pending' # <<>> /\ Head(pending') = m
      BY <1>1, <1>2, <2>1
    <3> QED
      BY <1>3, <1>12, <2>1, <3>1 DEF Linked
  <2>2. CASE pending # <<>>
    <3>1. 1 \in 1..Len(pending) /\ Head(pending) = pending[1]
      BY <1>1, <2>2
    <3>2. pending' # <<>> /\ Head(pending') = pending'[1]
      <4>1. pending' \in Seq(Msgs)
        BY <1>1, <1>2
      <4>2. pending' # <<>>
        BY <1>5, <4>1
      <4> QED
        BY <4>1, <4>2
    <3>3. Head(pending') = Head(pending)
      BY <1>5, <3>1, <3>2
    <3>4. /\ size'[Head(pending)] = size[Head(pending)]
          /\ unsent'[Head(pending)] = unsent[Head(pending)]
      BY <1>6, <3>1
    <3> QED
      BY <1>2, <1>12, <2>2, <3>2, <3>3, <3>4 DEF Linked
  <2> QED
    BY <2>1, <2>2
<1> QED
  BY <1>2, <1>9, <1>10, <1>11, <1>13 DEF WireKept

\* Every step keeps it.
LEMMA WireStep ==
    ASSUME NoSendWhenCancelled, TypeOK, Messages, NotOpenIsEmpty, Control, ClosingAlone,
           ReadingOpen, WireKept, [Next]_vars
    PROVE  WireKept'
<1> USE DEF conn, config, queue
<1>1. CASE UpperLayer
  <2>1. CASE Create \/ (\E o \in Options : SetOption(o))
    BY <2>1, WireUntouched DEF Create, SetOption, CanCall, Writable, Entered
  <2>2. CASE Destroy
    <3>1. CASE NeedsClose
      <4>1. ~Writable'
        BY <2>2, <3>1, CallSteps DEF Destroy, Writable, Points, Inside, Closing
      <4> QED
        BY <2>2, <4>1, WireUntouched DEF Destroy
    <3>2. CASE ~NeedsClose
      BY <2>2, <3>2, WireUntouched DEF Destroy, Writable, Entered
    <3> QED
      BY <3>1, <3>2
  <2>3. CASE OpenAsync
    <3>1. tlsio_state' = "INIT" /\ wire' = <<>> /\ UNCHANGED <<pending, size, unsent>>
      BY <2>3 DEF OpenAsync
    <3> QED
      BY <3>1 DEF WireKept, WireIsInOrder, Writable
  <2>4. CASE CloseAsync
    <3>1. /\ UNCHANGED <<queue, tlsio_state>>
          /\ tlsio_state = "INIT" \/ Call("close_async")
      BY <2>4 DEF CloseAsync, is_an_opening_state
    <3>2. ~Writable'
      BY <3>1, CallSteps DEF Writable, Points, Inside, Closing
    <3> QED
      BY <3>1, <3>2, WireUntouched
  <2>5. ASSUME NEW m \in Msgs, NEW s \in 1..MaxSize, SendAsync(m, s)
        PROVE  WireKept'
    <3>1. /\ fault = "none" /\ tlsio_state = "OPEN"
          /\ (stack # <<>> => Head(stack) \in Callbacks)
          /\ \A c \in Entered \intersect Callbacks : "send" \in Reentry[c]
      BY <2>5, Allowed DEF SendAsync, Calls
    <3>2. stack # <<>> => Head(stack) \in Entered
      BY ElementsAre DEF TypeOK, Entered
    <3>3. stack # <<>> => Head(stack) \notin Closing \union {"on_send_cancelled"}
      BY <3>1, <3>2 DEF NoSendWhenCancelled, Callbacks, Closing
    <3>4. Entered \intersect Closing = {}
      <4>1. CASE stack = <<>>
        BY <4>1 DEF Entered, Elements
      <4>2. CASE stack # <<>>
        BY <3>1, <3>3, <4>2, NotClosing
      <4> QED
        BY <4>1, <4>2
    <3>5. Linked
      BY <3>1, <3>4 DEF WireKept, Writable
    <3> QED
      BY <2>5, <3>5, AcceptWire
  <2> QED
    BY <1>1, <2>1, <2>2, <2>3, <2>4, <2>5 DEF UpperLayer
<1>2. CASE Dowork
  <2>1. CASE DoworkInit
    <3>1. wire = <<>> /\ pending = <<>> /\ UNCHANGED queue
      BY <2>1 DEF DoworkInit, WireKept, NotOpenIsEmpty
    <3> QED
      BY <3>1 DEF WireKept, WireIsInOrder, Linked, Finished
  <2>2. CASE DoworkOpen
    <3>1. Writable' => Writable
      BY <2>2, CallSteps DEF DoworkOpen, Idle, Writable, Points, Inside
    <3> QED
      BY <2>2, <3>1, WireUntouched DEF DoworkOpen
  <2> QED
    BY <1>2, <2>1, <2>2 DEF Dowork
<1>3. CASE Running
  <2>1. stack # <<>> /\ fault = "none"
    BY <1>3 DEF Running, Drain, DoworkSendNothing, DoworkSendFails, DoworkSendWrites, Sending,
          DoworkRead, OnBytesReceivedReturns, OnOpenCancelledReturns, CallbackReturns, At
  <2>2. Entered = {Head(stack)} \union Under(stack)
    BY <2>1, ElementsAre DEF TypeOK, Entered
  <2>3. CASE Drain
    <3>1. Head(stack) \in Closing /\ UNCHANGED <<wire, size, unsent, accepted>>
      BY <2>3 DEF Drain, At, Closing
    <3>2. CASE process_and_destroy_head_message("CANCELLED") /\ Call("on_send_cancelled")
                 /\ UNCHANGED tlsio_state
      <4>1. ~Writable'
        BY <2>2, <3>1, <3>2, CallSteps DEF Writable, Points, Callbacks
      <4>2. pending' = Tail(pending) /\ pending # <<>> /\ pending \in Seq(Msgs)
        BY <3>2 DEF process_and_destroy_head_message, TypeOK
      <4>3. /\ Len(Tail(pending)) = Len(pending) - 1 /\ Len(pending) \in Nat
            /\ \A i \in 1..Len(Tail(pending)) : Tail(pending)[i] = pending[i + 1]
        BY <4>2, HeadTailProperties
      <4>4. \A i \in 2..Len(pending') : unsent[pending'[i]] = size[pending'[i]]
        <5> SUFFICES ASSUME NEW i \in 2..Len(Tail(pending))
                     PROVE  unsent[Tail(pending)[i]] = size[Tail(pending)[i]]
          BY <4>2
        <5>1. i + 1 \in 2..Len(pending) /\ Tail(pending)[i] = pending[i + 1]
          BY <4>3
        <5> QED
          BY <5>1 DEF WireKept
      <4> QED
        BY <3>1, <3>2, <4>1, <4>4 DEF WireKept, WireIsInOrder
    <3>3. CASE EnterClosed /\ UNCHANGED <<pending, completed>>
      BY <3>1, <3>3, WireUntouched DEF EnterClosed, Writable
    <3> QED
      BY <2>3, <3>2, <3>3 DEF Drain
  <2>4. CASE OnOpenCancelledReturns
    <3>1. ~Writable'
      BY <2>1, <2>4, GotoSteps DEF OnOpenCancelledReturns, Writable, Points, Inside, Closing
    <3> QED
      BY <2>4, <3>1, WireUntouched DEF OnOpenCancelledReturns
  \* A step that leaves a point where nothing is closed.
  <2>5. ASSUME Head(stack) \notin Closing, UNCHANGED queue,
               \/ Return
               \/ \E p \in Points : Goto(p),
               \/ UNCHANGED tlsio_state
               \/ tlsio_state' = "ERROR" /\ (fault' = "none" => tlsio_state \in {"OPEN", "ERROR"})
        PROVE  WireKept'
    <3>1. Under(stack) \subseteq Entered'
      BY <2>1, <2>5, GotoSteps, ReturnSteps
    <3>2. Writable' => Writable
      BY <2>1, <2>2, <2>5, <3>1 DEF Writable
    <3> QED
      BY <2>5, <3>2, WireUntouched
  <2>6. CASE DoworkSendNothing \/ CallbackReturns
    BY <2>5, <2>6 DEF DoworkSendNothing, CallbackReturns, Sending, At, Closing
  <2>7. CASE DoworkSendFails
    <3>1. tlsio_state \in {"OPEN", "ERROR"}
      BY <2>7 DEF DoworkSendFails, NotOpenIsEmpty, TypeOK, States
    <3> QED
      BY <2>5, <2>7, <3>1 DEF DoworkSendFails, Sending, At, Closing
  <2>8. CASE \E n \in 1..MaxSize : DoworkSendWrites(n)
    BY <2>8, WriteWire
  <2>9. CASE DoworkRead
    <3>1. /\ Head(stack) = "dowork_read" /\ "dowork_read" \in Entered
          /\ fault' = "none" => handle = "allocated"
      BY <2>2, <2>9 DEF DoworkRead, At, Uses_handle
    <3>2. fault' = "none" => tlsio_state \in {"OPEN", "ERROR"}
      BY <3>1 DEF ReadingOpen
    <3>3. {"on_bytes_received", "dowork_send"} \subseteq Points
      BY DEF Points, Callbacks, Inside
    <3> QED
      BY <2>5, <2>9, <3>1, <3>2, <3>3 DEF DoworkRead, Closing
  <2>10. CASE OnBytesReceivedReturns
    <3>1. {"dowork_read", "dowork_send"} \subseteq Points
      BY DEF Points, Inside
    <3> QED
      BY <2>5, <2>10, <3>1 DEF OnBytesReceivedReturns, At, Closing
  <2> QED
    BY <1>3, <2>3, <2>4, <2>6, <2>7, <2>8, <2>9, <2>10 DEF Running
<1>4. CASE Over \/ UNCHANGED vars
  BY <1>4, WireUntouched DEF Over, vars, Writable, Entered
<1> QED
  BY <1>1, <1>2, <1>3, <1>4 DEF Next


-----------------------------------------------------------------------------
(* The theorems.                                                           *)

\* Below the point of control there are only callbacks and loops of internal_close:
\* whatever the upper layer does in its callbacks, no other function of the adapter
\* is left in the middle, and such a loop only runs once the connection was deleted.
THEOREM ControlIsInvariant == Spec => []Control
<1>1. Init => Control
  BY DEF Init, Control, Under, Entered, Elements
<1>2. TypeOK /\ Control /\ [Next]_vars => Control'
  BY ControlStep
<1> QED
  BY <1>1, <1>2, TypeCorrect, PTL DEF Spec

\* The loop of internal_close is not entered a second time, nor left for anything but
\* on_send_cancelled, if the upper layer does not send from inside on_send_cancelled.
THEOREM ClosesAlone == NoSendWhenCancelled => (Spec => []ClosingAlone)
<1> SUFFICES ASSUME NoSendWhenCancelled
             PROVE  Spec => []ClosingAlone
  OBVIOUS
<1>1. Init => ClosingAlone
  BY DEF Init, ClosingAlone, Under
<1>2. TypeOK /\ QueueInvariant /\ Control /\ ClosingAlone /\ [Next]_vars => ClosingAlone'
  BY ClosingStep DEF QueueInvariant
<1> QED
  BY <1>1, <1>2, TypeCorrect, QueueIsInvariant, ControlIsInvariant, PTL DEF Spec

\* The bytes reach the connection in the order of the messages, none missing, repeated
\* or mixed with those of another message, for every way in which the writes are split
\* and whatever happens in between, if the upper layer does not send from inside
\* on_send_cancelled (lines 432-437, 549).
THEOREM WireInOrder == NoSendWhenCancelled => (Spec => []WireIsInOrder)
<1> SUFFICES ASSUME NoSendWhenCancelled
             PROVE  Spec => []WireIsInOrder
  OBVIOUS
<1>1. Init => ReadingOpen /\ WireKept
  BY DEF Init, ReadingOpen, WireKept, WireIsInOrder, Linked, Finished, Writable, Entered, Elements
<1>2. TypeOK /\ QueueInvariant /\ Control /\ ReadingOpen /\ [Next]_vars => ReadingOpen'
  BY ReadingStep DEF QueueInvariant
<1>3. TypeOK /\ QueueInvariant /\ Control /\ ClosingAlone /\ ReadingOpen /\ WireKept
        /\ [Next]_vars => WireKept'
  BY WireStep DEF QueueInvariant
<1>4. WireKept => WireIsInOrder
  BY DEF WireKept
<1> QED
  BY <1>1, <1>2, <1>3, <1>4, TypeCorrect, QueueIsInvariant, ControlIsInvariant, ClosesAlone, PTL
     DEF Spec

\* Each open is answered once, and what is open was answered and has its connection,
\* if the upper layer does not close from inside on_open_cancelled (lines 375, 486).
THEOREM OneAnswerPerOpen == NoCloseWhenCancelled => (Spec => []OneOpenResult)
<1> SUFFICES ASSUME NoCloseWhenCancelled
             PROVE  Spec => []OneOpenResult
  OBVIOUS
<1>1. Init => Answered
  BY DEF Init, Answered
<1>2. TypeOK /\ QueueInvariant /\ Control /\ Answered /\ [Next]_vars => Answered'
  BY AnsweredStep DEF QueueInvariant
<1>3. Answered => OneOpenResult
  BY DEF Answered, OneOpenResult
<1> QED
  BY <1>1, <1>2, <1>3, TypeCorrect, QueueIsInvariant, ControlIsInvariant, PTL DEF Spec

\* No deleted connection is used and no NULL pointer is followed, under the conditions
\* of Careful, each of which is needed (lines 184-190, 375, 417, 549).
THEOREM NothingUndefined == Careful => (Spec => []NoFault)
<1> SUFFICES ASSUME Careful
             PROVE  Spec => []NoFault
  OBVIOUS
<1>1. Init => HandleKept
  BY DEF Init, HandleKept, Entered, Elements, Under
<1>2. TypeOK /\ QueueInvariant /\ Control /\ ClosingAlone /\ HandleKept /\ [Next]_vars
        => HandleKept'
  BY HandleStep DEF QueueInvariant
<1>3. HandleKept => NoFault
  BY DEF HandleKept, NoFault
<1>4. NoSendWhenCancelled
  BY DEF Careful
<1>5. Spec => []ClosingAlone
  BY <1>4, ClosesAlone
<1> QED
  BY <1>1, <1>2, <1>3, <1>5, TypeCorrect, QueueIsInvariant, ControlIsInvariant, PTL DEF Spec
=============================================================================
