------------------------------- MODULE TlsIo --------------------------------
(***************************************************************************)
(* The TLS adapter port/src/tlsio_esp_tls.c: one instance, from create to  *)
(* destroy.                                                                *)
(*                                                                         *)
(* The adapter has no thread of its own.  Its upper layer calls it, and    *)
(* the adapter calls the upper layer back in the middle of its functions;  *)
(* such a callback may call the adapter again.  The variable stack is that *)
(* chain of calls: Head(stack) is the point control is at, either inside a *)
(* function of the adapter (Inside) or inside a callback (Callbacks).      *)
(* What happens between two such points is one action.                     *)
(*                                                                         *)
(* External: esp_tls (connect, read, write and delete take any outcome the *)
(* code distinguishes), singlylinkedlist (a FIFO queue), tlsio_options.    *)
(***************************************************************************)
EXTENDS Naturals, Sequences

CONSTANTS Msgs,           \* the messages the upper layer may send, each once
          MaxSize,        \* the largest message, in bytes
          MAX_RCV_COUNT,
          Options,        \* the options the upper layer may set
          AllocFailures,  \* the allocations of create that may fail
          Reentry,        \* for each callback, the calls it may lead to
          Reuse,          \* the calls made on an instance closed before
          MaxDepth        \* bound on the depth of nested calls

Callbacks == {"on_open_complete", "on_open_cancelled", "on_bytes_received",
              "on_send_complete", "on_send_cancelled", "on_io_close_complete"}
Inside == {"dowork_read", "dowork_send", "send_async", "close_async", "destroy"}
Calls == {"setoption", "open", "close", "send"}

ASSUME SizeAssumption == MaxSize \in Nat \ {0}
ASSUME CountAssumption == MAX_RCV_COUNT \in Nat
ASSUME OptionAssumption == Options \subseteq {"trusted_certs", "x509_cert", "x509_key"}
ASSUME AllocAssumption == AllocFailures \subseteq {"handle", "hostname", "list"}
ASSUME ReentryAssumption == Reentry \in [Callbacks -> SUBSET Calls]
ASSUME ReuseAssumption == Reuse \subseteq {"open", "close"}

VARIABLES
    instance,     \* "none" before create; "live"; "destroyed" (create failed too)
    tlsio_state,
    callbacks,    \* whether the callback pointers stored by open are non-NULL
    handle,       \* the memory esp_tls_handle points to
    options,      \* the options set so far
    esp_tls_cfg,  \* the options the connection is configured with
    pending,      \* pending_transmission_list
    size, unsent, \* of each message: its length, and what is not yet written
    rcv_count,    \* the local variable of the dowork_read in progress
    stack,        \* the chain of calls in progress, innermost first
    \* History, only there to state properties:
    wire,         \* bytes written since open: <<m, i>> is byte i of message m
    accepted,     \* messages for which send_async returned (or will return) 0
    completed,    \* messages whose on_send_complete was called, in order
    result,       \* and the IO_SEND result it was called with
    open_results, \* calls of on_open_complete since the last open
    fault         \* the first undefined behaviour, "none" so far

conn == <<instance, tlsio_state, callbacks, handle, open_results>>
config == <<options, esp_tls_cfg>>
queue == <<pending, size, unsent, wire, accepted, completed, result>>
vars == <<conn, config, queue, rcv_count, stack, fault>>

Init ==
    /\ instance = "none"
    /\ tlsio_state = "CLOSED"
    /\ callbacks = FALSE
    /\ handle = "none"
    /\ options = {}
    /\ esp_tls_cfg = {}
    /\ pending = <<>>
    /\ size = [m \in Msgs |-> 0]
    /\ unsent = [m \in Msgs |-> 0]
    /\ rcv_count = 0
    /\ stack = <<>>
    /\ wire = <<>>
    /\ accepted = <<>>
    /\ completed = <<>>
    /\ result = [m \in Msgs |-> "none"]
    /\ open_results = 0
    /\ fault = "none"
-----------------------------------------------------------------------------
(* Control.                                                                *)

At(point) == stack # <<>> /\ Head(stack) = point /\ fault = "none"
Call(point) == stack' = <<point>> \o stack
Goto(point) == stack' = <<point>> \o Tail(stack)
Return == stack' = Tail(stack)

Idle == instance = "live" /\ stack = <<>> /\ fault = "none"

\* The upper layer is in control, and every callback it is in allows the call.
CanCall(call) ==
    /\ instance = "live"
    /\ fault = "none"
    /\ Len(stack) < MaxDepth
    /\ stack # <<>> => Head(stack) \in Callbacks
    /\ \A i \in 1..Len(stack) :
          stack[i] \in Callbacks => call \in Reentry[stack[i]]

\* esp_tls is given the handle: memory it deleted before must not be used.
Uses_handle ==
    fault' = IF handle = "allocated" THEN fault ELSE "deleted_handle"
-----------------------------------------------------------------------------
(* create and destroy.                                                     *)

\* Every allocation succeeds, or one fails; without the missing else after the
\* first failure, the next statement writes through the NULL result.
Create ==
    /\ instance = "none"
    /\ fault = "none"
    /\ \/ /\ instance' = "live"
          /\ handle' = "allocated"
          /\ UNCHANGED fault
       \/ /\ "handle" \in AllocFailures
          /\ instance' = "destroyed"
          /\ \/ fault' = "null_pointer"
             \/ "hostname" \in AllocFailures /\ UNCHANGED fault
          /\ UNCHANGED handle
       \/ /\ AllocFailures \intersect {"hostname", "list"} # {}
          /\ instance' = "destroyed"   \* by tlsio_esp_tls_destroy, in CLOSED
          /\ handle' = "allocated"
          /\ UNCHANGED fault
    /\ UNCHANGED <<tlsio_state, callbacks, open_results, config, queue, rcv_count, stack>>

\* esp_tls_conn_delete, the first step of internal_close.
Delete_connection ==
    /\ Uses_handle
    /\ handle' = "deleted"

\* Mutant: an adapter in ERROR is taken for closed.
NeedsCloseUnlessError == tlsio_state \notin {"CLOSED", "ERROR"}

NeedsClose == tlsio_state # "CLOSED"

Destroy ==
    /\ Idle
    /\ IF NeedsClose
       THEN Delete_connection /\ Call("destroy") /\ UNCHANGED instance
       ELSE instance' = "destroyed" /\ UNCHANGED <<handle, stack, fault>>
    /\ UNCHANGED <<tlsio_state, callbacks, open_results, config, queue, rcv_count>>
-----------------------------------------------------------------------------
(* setoption, open, close.                                                 *)

SetOption(o) ==
    /\ CanCall("setoption")
    /\ options' = options \union {o}
    /\ UNCHANGED <<conn, esp_tls_cfg, queue, rcv_count, stack, fault>>

\* A client certificate is configured only together with its key.
Configured ==
    LET pair == {"x509_cert", "x509_key"}
    IN  (IF pair \subseteq options THEN pair ELSE {})
          \union ({"trusted_certs"} \intersect options)

MayOpen == tlsio_state = "CLOSED"

OpenAsync ==
    /\ CanCall("open")
    /\ handle = "deleted" => "open" \in Reuse
    /\ MayOpen
    /\ callbacks' = TRUE
    /\ esp_tls_cfg' = esp_tls_cfg \union Configured
    /\ tlsio_state' = "INIT"
    /\ open_results' = 0
    /\ wire' = <<>>
    /\ UNCHANGED <<instance, handle, options, pending, size, unsent, accepted,
                   completed, result, rcv_count, stack, fault>>

\* Mutant: an open adapter counts as opening.
OpeningOrOpen == tlsio_state \in {"INIT", "OPEN"}

is_an_opening_state == tlsio_state = "INIT"

CloseAsync ==
    /\ CanCall("close")
    /\ handle = "deleted" => "close" \in Reuse
    /\ IF is_an_opening_state
       THEN /\ Call("on_open_cancelled")
            /\ open_results' = open_results + 1
            /\ UNCHANGED <<handle, fault>>
       ELSE /\ Delete_connection
            /\ Call("close_async")
            /\ UNCHANGED open_results
    /\ UNCHANGED <<instance, tlsio_state, callbacks, config, queue, rcv_count>>

\* Mutant: the message is still in the queue when its callback runs.
CompleteAndKeep(send_result) ==
    /\ pending # <<>>
    /\ UNCHANGED pending
    /\ completed' = Append(completed, Head(pending))
    /\ result' = [result EXCEPT ![Head(pending)] = send_result]

\* The message leaves the queue before its callback runs.
process_and_destroy_head_message(send_result) ==
    /\ pending # <<>>
    /\ pending' = Tail(pending)
    /\ completed' = Append(completed, Head(pending))
    /\ result' = [result EXCEPT ![Head(pending)] = send_result]

\* Mutant: the state is not reset.
ForgetCallbacks == callbacks' = FALSE /\ UNCHANGED tlsio_state

\* The end of internal_close.
EnterClosed == callbacks' = FALSE /\ tlsio_state' = "CLOSED"

\* One turn of the loop of internal_close, or what follows the loop.
Drain ==
    /\ At("close_async") \/ At("destroy")
    /\ \/ /\ process_and_destroy_head_message("CANCELLED")
          /\ Call("on_send_cancelled")
          /\ UNCHANGED <<instance, tlsio_state, callbacks>>
       \/ /\ pending = <<>>
          /\ EnterClosed
          /\ \/ At("close_async") /\ Goto("on_io_close_complete") /\ UNCHANGED instance
             \/ At("destroy") /\ Return /\ instance' = "destroyed"
          /\ UNCHANGED <<pending, completed, result>>
    /\ UNCHANGED <<handle, open_results, config, size, unsent, wire, accepted,
                   rcv_count, fault>>
-----------------------------------------------------------------------------
(* send_async: the message is queued, then dowork_send is tried at once.   *)

\* Mutant: the size includes a terminating zero that is not there.
UnsentPlusOne(s) == s + 1

Unsent(s) == s

\* Mutant: the newest message is put first.
EnqueueFirst(m) == pending' = <<m>> \o pending

Enqueue(m) == pending' = Append(pending, m)

SendAsync(m, s) ==
    /\ CanCall("send")
    /\ \A i \in 1..Len(accepted) : accepted[i] # m
    /\ tlsio_state = "OPEN"
    /\ size' = [size EXCEPT ![m] = s]
    /\ unsent' = [unsent EXCEPT ![m] = Unsent(s)]
    /\ Enqueue(m)
    /\ accepted' = Append(accepted, m)
    /\ Call("send_async")
    /\ UNCHANGED <<conn, config, wire, completed, result, rcv_count, fault>>

Sending == At("dowork_send") \/ At("send_async")

\* Nothing to send, or the connection takes nothing now (0, or EAGAIN).
DoworkSendNothing ==
    /\ Sending
    /\ IF pending = <<>> THEN UNCHANGED fault ELSE Uses_handle
    /\ Return
    /\ UNCHANGED <<conn, config, queue, rcv_count>>

\* The connection fails.  Only dowork looks at the result, send_async does not.
DoworkSendFails ==
    /\ Sending
    /\ pending # <<>>
    /\ Uses_handle
    /\ tlsio_state' = IF At("dowork_send") THEN "ERROR" ELSE tlsio_state
    /\ Return
    /\ UNCHANGED <<instance, callbacks, handle, open_results, config, queue, rcv_count>>

\* Mutant: every write starts at the beginning of the message.
NoOffset(m) == 0

\* Where the next write starts in the buffer of the message.
Offset(m) == size[m] - unsent[m]

\* Mutant: a partial write completes the message.
AnyWrite(left) == TRUE

Entirely(left) == left = 0

\* The connection takes the next n bytes of the oldest message.
DoworkSendWrites(n) ==
    /\ Sending
    /\ pending # <<>>
    /\ LET m == Head(pending) IN
          /\ n <= unsent[m]
          /\ unsent' = [unsent EXCEPT ![m] = @ - n]
          /\ wire' = wire \o [i \in 1..n |-> <<m, Offset(m) + i>>]
          /\ IF Entirely(unsent'[m])
             THEN process_and_destroy_head_message("OK") /\ Goto("on_send_complete")
             ELSE Return /\ UNCHANGED <<pending, completed, result>>
    /\ Uses_handle
    /\ UNCHANGED <<conn, config, size, accepted, rcv_count>>
-----------------------------------------------------------------------------
(* dowork.                                                                 *)

\* INIT: esp_tls_conn_new_async answers 1, -1, or neither of them (in progress).
DoworkInit ==
    /\ Idle
    /\ tlsio_state = "INIT"
    /\ Uses_handle
    /\ \/ /\ tlsio_state' = "OPEN"
          /\ Call("on_open_complete")
          /\ open_results' = open_results + 1
       \/ tlsio_state' = "ERROR" /\ UNCHANGED <<stack, open_results>>
       \/ UNCHANGED <<tlsio_state, stack, open_results>>
    /\ UNCHANGED <<instance, callbacks, handle, config, queue, rcv_count>>

DoworkOpen ==
    /\ Idle
    /\ tlsio_state = "OPEN"
    /\ rcv_count' = 0
    /\ Call("dowork_read")
    /\ UNCHANGED <<conn, config, queue, fault>>

\* Mutant: dowork returns when there is nothing to read.
ReadOrReturn ==
    /\ At("dowork_read")
    /\ Uses_handle
    /\ \/ Goto("on_bytes_received") /\ UNCHANGED tlsio_state
       \/ Return /\ UNCHANGED tlsio_state
       \/ Goto("dowork_send") /\ tlsio_state' = "ERROR"
    /\ UNCHANGED <<instance, callbacks, handle, open_results, config, queue, rcv_count>>

\* One esp_tls_conn_read: data, nothing (0, or EAGAIN), or a failure.
DoworkRead ==
    /\ At("dowork_read")
    /\ Uses_handle
    /\ \/ Goto("on_bytes_received") /\ UNCHANGED tlsio_state
       \/ Goto("dowork_send") /\ UNCHANGED tlsio_state
       \/ Goto("dowork_send") /\ tlsio_state' = "ERROR"
    /\ UNCHANGED <<instance, callbacks, handle, open_results, config, queue, rcv_count>>
-----------------------------------------------------------------------------
(* Callbacks return.                                                       *)

\* Mutant: the reads are not counted.
Uncounted(count) == count

Counted(count) == count + 1

OnBytesReceivedReturns ==
    /\ At("on_bytes_received")
    /\ rcv_count' = Counted(rcv_count)
    /\ IF rcv_count' > MAX_RCV_COUNT THEN Goto("dowork_send") ELSE Goto("dowork_read")
    /\ UNCHANGED <<conn, config, queue, fault>>

OnOpenCancelledReturns ==
    /\ At("on_open_cancelled")
    /\ Delete_connection
    /\ Goto("close_async")
    /\ UNCHANGED <<instance, tlsio_state, callbacks, open_results, config, queue, rcv_count>>

\* The other callbacks are the last thing their caller does, or (on_send_cancelled)
\* bring control back to the loop of internal_close.
CallbackReturns ==
    /\ \/ At("on_open_complete") \/ At("on_send_complete")
       \/ At("on_send_cancelled") \/ At("on_io_close_complete")
    /\ Return
    /\ UNCHANGED <<conn, config, queue, rcv_count, fault>>
-----------------------------------------------------------------------------
UpperLayer ==
    \/ Create
    \/ Destroy
    \/ \E o \in Options : SetOption(o)
    \/ OpenAsync
    \/ CloseAsync
    \/ \E m \in Msgs, s \in 1..MaxSize : SendAsync(m, s)

Dowork == DoworkInit \/ DoworkOpen

Running ==
    \/ Drain
    \/ DoworkSendNothing
    \/ DoworkSendFails
    \/ \E n \in 1..MaxSize : DoworkSendWrites(n)
    \/ DoworkRead
    \/ OnBytesReceivedReturns
    \/ OnOpenCancelledReturns
    \/ CallbackReturns

\* The instance is gone, or what follows is undefined behaviour.
Over ==
    /\ instance = "destroyed" \/ fault # "none"
    /\ UNCHANGED vars

Next == UpperLayer \/ Dowork \/ Running \/ Over

Spec == Init /\ [][Next]_vars

\* The upper layer keeps calling dowork, a call that was made runs on, callbacks
\* return, and a connection offered bytes again and again takes some.
Fairness ==
    /\ WF_vars(Dowork)
    /\ WF_vars(Running)
    /\ SF_vars(\E n \in 1..MaxSize : DoworkSendWrites(n))

FairSpec == Spec /\ Fairness
-----------------------------------------------------------------------------
(* Properties.                                                             *)

States == {"CLOSED", "INIT", "OPEN", "ERROR"}

\* The type invariant: what each variable of the adapter may hold.
TypeOK ==
    /\ instance \in {"none", "live", "destroyed"}
    /\ tlsio_state \in States
    /\ callbacks \in BOOLEAN
    /\ handle \in {"none", "allocated", "deleted"}
    /\ options \subseteq Options
    /\ esp_tls_cfg \subseteq Options
    /\ pending \in Seq(Msgs)
    /\ size \in [Msgs -> 0..MaxSize]
    /\ unsent \in [Msgs -> 0..MaxSize]
    /\ \A m \in Msgs : unsent[m] <= size[m]
    /\ rcv_count \in Nat
    /\ stack \in Seq(Callbacks \union Inside)
    /\ wire \in Seq(Msgs \X (1..MaxSize))
    /\ accepted \in Seq(Msgs)
    /\ completed \in Seq(Msgs)
    /\ result \in [Msgs -> {"none", "OK", "CANCELLED"}]
    /\ open_results \in Nat
    /\ fault \in {"none", "null_pointer", "deleted_handle"}

\* Every message that send_async accepted is either still in the queue or was
\* completed once, and messages complete in the order in which they were
\* accepted, whatever callbacks send or close meanwhile (lines 83-119, 583).
CompletedOnceInOrder == accepted = completed \o pending

\* A message is reported IO_SEND_OK exactly when its last byte was written: no
\* message is reported sent early, and none is cancelled after it was sent
\* entirely (lines 435-443, 128).
OKMeansSent ==
    \A i \in 1..Len(accepted) :
       result[accepted[i]] = "OK" <=> unsent[accepted[i]] = 0

\* Why the above hold, as one inductive invariant: a message is queued at most once,
\* unanswered and not yet sent entirely as long as it is in the queue, and has its
\* answer once it left it; what is not open has an empty queue.
AcceptedOnce ==
    \A i, j \in 1..Len(accepted) : accepted[i] = accepted[j] => i = j
QueuedIsUnsent ==
    \A i \in 1..Len(pending) : result[pending[i]] = "none" /\ unsent[pending[i]] > 0
CompletedIsAnswered ==
    \A i \in 1..Len(completed) :
       /\ result[completed[i]] # "none"
       /\ result[completed[i]] = "OK" <=> unsent[completed[i]] = 0
AnsweredIsCompleted ==
    \A m \in Msgs : result[m] # "none" => \E i \in 1..Len(completed) : completed[i] = m
Messages ==
    /\ CompletedOnceInOrder
    /\ AcceptedOnce
    /\ QueuedIsUnsent
    /\ CompletedIsAnswered
    /\ AnsweredIsCompleted
NotOpenIsEmpty ==
    /\ instance = "none" => tlsio_state = "CLOSED" /\ stack = <<>>
    /\ tlsio_state \in {"CLOSED", "INIT"} \/ instance = "destroyed" => pending = <<>>
QueueInvariant == Messages /\ NotOpenIsEmpty

\* The peer gets the bytes of the messages in the order in which they were
\* accepted, none missing, repeated or mixed with those of another message, for
\* every way in which the connection splits the writes (lines 432-437).
WireIsInOrder ==
    \A j \in 1..Len(wire) :
       LET m == wire[j][1]
           i == wire[j][2]
       IN  \/ i > 1 /\ j > 1 /\ wire[j - 1] = <<m, i - 1>>
           \/ i = 1 /\ j = 1
           \/ /\ i = 1 /\ j > 1
              /\ wire[j - 1][2] = size[wire[j - 1][1]]
              /\ \E k \in 1..(Len(accepted) - 1) :
                    accepted[k] = wire[j - 1][1] /\ accepted[k + 1] = m

\* No message is stranded: once the adapter is closed or destroyed, every message
\* it ever accepted has been completed (lines 128, 152-155).
ClosedIsEmpty ==
    tlsio_state \in {"CLOSED", "INIT"} \/ instance = "destroyed" => pending = <<>>

\* The upper layer gets at most one answer to each open, and it has had one, and
\* nothing was deleted under it, whenever sends are accepted outside a callback
\* (lines 375, 486, 549).
OneOpenResult ==
    /\ open_results <= 1
    /\ tlsio_state = "OPEN" => open_results = 1
    /\ tlsio_state = "OPEN" /\ stack = <<>> => handle = "allocated"

\* No NULL pointer is followed and no deleted esp_tls handle is used.
NoFault == fault = "none"

\* An error is never forgotten: ERROR is left only by closing the adapter, and
\* then nothing is left to send (lines 502-505, 364-381).
ErrorUntilClosed ==
    [][tlsio_state = "ERROR" /\ tlsio_state' # "ERROR"
         => tlsio_state' = "CLOSED" /\ pending' = <<>>]_vars

\* The adapter is a send queue: exactly once, in order, for every interleaving.
Queue == INSTANCE SendQueue
IsSendQueue == Queue!Spec

\* Every call of the adapter returns: a peer that never stops sending data cannot
\* hold dowork in its read loop (MAX_RCV_COUNT, lines 411-416).
CallsReturn == []<>(stack = <<>>)

\* A message accepted by send_async is eventually completed, unless the
\* connection fails.
Pending(m) == \E i \in 1..Len(pending) : pending[i] = m
EveryMessageCompletes ==
    \A m \in Msgs : Pending(m) ~> (~Pending(m) \/ tlsio_state = "ERROR")
-----------------------------------------------------------------------------
(* What a comment of the source says and the code does not do.              *)

\* Lines 73 and 102: entering the error state means calling on_io_error.
ErrorIsReported ==
    [][tlsio_state # "ERROR" /\ tlsio_state' = "ERROR"
         => stack' # <<>> /\ Head(stack') = "on_io_error"]_vars
=============================================================================
