------------------------------ MODULE MCDisplay -----------------------------
(***************************************************************************)
(* Display for TLC: rows of two places, and texts that end inside a row,   *)
(* at its end, and beyond it from the last row to the first.               *)
(***************************************************************************)
EXTENDS Display

TheTasks == {"azure_task", "sensor_task"}
TheChars == {65, 114}
TheCalls ==
    [t \in TheTasks |->
        IF t = "azure_task" THEN <<[text |-> <<65>>, col |-> 0, row |-> 1]>>
        ELSE <<[text |-> <<114>>, col |-> 0, row |-> 2],
               [text |-> <<65, 114>>, col |-> 1, row |-> 3]>>]
TheEndless == {"sensor_task"}

\* A garbled display is followed until sensor_task's second text, and through
\* every restart.
FirstGarbledText == clean \/ ~Ready \/ at["sensor_task"] = 2
=============================================================================
