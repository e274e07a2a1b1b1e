------------------------------ MODULE MCTlsIo -------------------------------
(***************************************************************************)
(* Instances of TlsIo for TLC: which calls the upper layer makes from      *)
(* inside which callback.                                                  *)
(***************************************************************************)
EXTENDS TlsIo

NoReentry == [c \in Callbacks |-> {}]

\* What an upper layer may do from inside its callbacks: make any call, but for a
\* send from on_send_cancelled and a close from on_open_cancelled or
\* on_bytes_received (the hypotheses Careful of TlsIo_proofs).
CarefulReentry ==
    [c \in Callbacks |->
       CASE c = "on_send_cancelled" -> {"open", "close"}
         [] c \in {"on_open_cancelled", "on_bytes_received"} -> {"open", "send"}
         [] OTHER -> {"open", "close", "send"}]
=============================================================================
