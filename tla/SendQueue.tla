------------------------------ MODULE SendQueue ------------------------------
(***************************************************************************)
(* What a TLS transport promises about the messages handed to it, seen     *)
(* only through its interface: tlsio_send_async returned 0 (the message is *)
(* accepted) and on_send_complete was called (the message is completed).   *)
(* Messages complete one at a time, each once, in the order in which they  *)
(* were accepted, and with one of the IO_SEND results.                     *)
(***************************************************************************)
EXTENDS Naturals, Sequences

CONSTANTS Msgs          \* the messages the upper layer may ever send

VARIABLES accepted,     \* messages for which send_async returned 0, in order
          completed,    \* messages whose on_send_complete was called, in order
          result        \* the IO_SEND result each message was completed with

vars == <<accepted, completed, result>>

Results == {"OK", "CANCELLED"}

Init ==
    /\ accepted = <<>>
    /\ completed = <<>>
    /\ result = [m \in Msgs |-> "none"]

\* The next message to complete: the oldest one not completed yet.
Oldest == accepted[Len(completed) + 1]

Accept(m) ==
    /\ \A i \in 1..Len(accepted) : accepted[i] # m
    /\ accepted' = Append(accepted, m)
    /\ UNCHANGED <<completed, result>>

Complete(r) ==
    /\ Len(completed) < Len(accepted)
    /\ completed' = Append(completed, Oldest)
    /\ result' = [result EXCEPT ![Oldest] = r]
    /\ UNCHANGED accepted

Next ==
    \/ \E m \in Msgs : Accept(m)
    \/ \E r \in Results : Complete(r)

Spec == Init /\ [][Next]_vars
=============================================================================
