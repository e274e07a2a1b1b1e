------------------------------ MODULE Display -------------------------------
(***************************************************************************)
(* The display of the project example, examples/azure_project/main/        *)
(* LCDIIC.c over writeI2CData of i2c_driver.c, as main.c starts it and as  *)
(* azure_task and sensor_task, which share it without a lock, use it.      *)
(*                                                                         *)
(* A byte for the display is four writes to an I2C port: its high nibble   *)
(* with the enable line up, then down, and its low nibble so.  The result  *)
(* of a write is ignored.                                                  *)
(*                                                                         *)
(* External: the port and the display behind it, an HD44780, which takes   *)
(* a nibble when the enable line falls.  It keeps its state when the       *)
(* program restarts, halfway through a byte as it may be.  Left out: the   *)
(* shift of the picture and the cursor's looks.                            *)
(***************************************************************************)
EXTENDS Integers, Sequences

CONSTANTS
    Task,           \* azure_task and sensor_task
    SCREEN_WIDTH,
    SCREEN_HIGH,
    Char,           \* the bytes of the texts
    Calls,          \* the calls of LCDIIC_vShowStringAt of each task, in order
    Endless,        \* the tasks that make them over and over
    MAX_FAILURES,   \* bound: I2C writes that fail
    MAX_RESTARTS    \* bound: restarts of the program

Blank == 32

Call == [text : Seq(Char), col : 0..SCREEN_WIDTH - 1, row : 0..SCREEN_HIGH - 1]

ASSUME SizeAssumption == SCREEN_WIDTH \in 1..20 /\ SCREEN_HIGH \in 1..4
ASSUME CharAssumption == Char \subseteq 33..126
ASSUME TaskAssumption == "app_main" \notin Task
ASSUME CallsAssumption ==
    /\ Calls \in [Task -> Seq(Call)]
    /\ \A t \in Task : \A i \in 1..Len(Calls[t]) : Calls[t][i].text # <<>>
ASSUME BoundAssumption == MAX_FAILURES \in Nat /\ MAX_RESTARTS \in Nat

None == -1
Nibble == 0..15

\* u8DisplayStartRawAddress: the even rows are one line of the display's
\* memory and the odd rows the other.
Start(row) == (row % 2) * 64 + (row \div 2) * SCREEN_WIDTH

Address == 0..2 * SCREEN_WIDTH - 1 \union 64..64 + 2 * SCREEN_WIDTH - 1

VARIABLES
    port,       \* the lines of the I2C port
    lcd,        \* the display
    opened,     \* LCDIIC_vInitIO is done
    sent,       \* the commands LCDIIC_vInit has written
    at,         \* the next of Calls, for each task
    rest,       \* *ps8CurrentCharacter on, for each task
    col, row,   \* u8CurrentCoulmn and u8CurrentRow
    moving,     \* in LCDIIC_vSetCursorPosition
    step,       \* writes done of the byte in hand, app_main's under "app_main"
    clean,      \* since the start no write failed and no two texts overlapped
    failures, restarts

hardware == <<port, lcd>>
main == <<opened, sent>>
place == <<col, row, moving>>
show == <<at, rest, place>>
bounds == <<failures, restarts>>
vars == <<hardware, main, show, step, clean, bounds>>

Thread == Task \union {"app_main"}
-----------------------------------------------------------------------------
(* The display. *)

\* The address counter after a character, from line to line and round.
Following(ac) ==
    CASE ac = 2 * SCREEN_WIDTH - 1 -> 64
      [] ac = 64 + 2 * SCREEN_WIDTH - 1 -> 0
      [] OTHER -> (ac + 1) % 128

Preceding(ac) ==
    CASE ac = 64 -> 2 * SCREEN_WIDTH - 1
      [] ac = 0 -> 64 + 2 * SCREEN_WIDTH - 1
      [] OTHER -> ac - 1

Put(c, b) ==
    [c EXCEPT !.memory = IF c.glyphs \/ c.ac \notin Address THEN @
                         ELSE [@ EXCEPT ![c.ac] = b],
              !.ac = IF c.up THEN Following(@) ELSE Preceding(@)]

Bit(b, weight) == (b \div weight) % 2 = 1

\* The highest bit set tells the instruction.
Obey(c, b) ==
    CASE b >= 128 -> [c EXCEPT !.ac = b - 128, !.glyphs = FALSE]
      [] b \in 64..127 -> [c EXCEPT !.ac = b - 64, !.glyphs = TRUE]
      [] b \in 32..63 -> [c EXCEPT !.wide = Bit(b, 16), !.lines = Bit(b, 8)]
      [] b \in 16..31 /\ Bit(b, 8) -> c
      [] b \in 16..31 /\ ~Bit(b, 8) ->
            [c EXCEPT !.ac = IF Bit(b, 4) THEN Following(@) ELSE Preceding(@)]
      [] b \in 8..15 -> [c EXCEPT !.on = Bit(b, 4)]
      [] b \in 4..7 -> [c EXCEPT !.up = Bit(b, 2)]
      [] b \in 2..3 -> [c EXCEPT !.ac = 0, !.glyphs = FALSE]
      [] b = 1 -> [c EXCEPT !.ac = 0, !.glyphs = FALSE, !.up = TRUE,
                            !.memory = [a \in Address |-> Blank]]
      [] OTHER -> c

Execute(c, data, b) == IF data THEN Put(c, b) ELSE Obey(c, b)

\* The display after it takes a nibble: a whole byte for one that listens to
\* eight lines, of which the lower four are not connected.
Taken(c, data, n) ==
    IF c.wide THEN {Execute(c, data, 16 * n + low) : low \in Nibble}
    ELSE IF c.half = None THEN {[c EXCEPT !.half = n]}
    ELSE {Execute([c EXCEPT !.half = None], data, 16 * c.half + n)}

\* The lines change together: what falls with the enable line may still be
\* taken.
Drive(new) ==
    /\ port' = new
    /\ IF port.enable /\ ~new.enable
       THEN \E data \in {port.data, new.data}, n \in {port.nibble, new.nibble} :
               lcd' \in Taken(lcd, data, n)
       ELSE lcd' = lcd

\* writeI2CData, of which the caller never learns that it failed.
writeI2CData(new) ==
    \/ Drive(new) /\ UNCHANGED <<clean, failures>>
    \/ /\ failures < MAX_FAILURES
       /\ failures' = failures + 1
       /\ clean' = FALSE
       /\ UNCHANGED hardware
-----------------------------------------------------------------------------
Lines == [data : BOOLEAN, nibble : Nibble, enable : BOOLEAN]

Lcd == [wide : BOOLEAN, half : {None} \union Nibble, ac : 0..127, glyphs : BOOLEAN,
        up : BOOLEAN, lines : BOOLEAN, on : BOOLEAN, memory : [Address -> 0..255]]

\* Mutant: without the return to the home position.
NoHome == <<3, 44, 12, 6, 1>>

\* The commands of LCDIIC_vInit.
Commands == <<3, 2, 44, 12, 6, 1>>

Init ==
    /\ port = [data |-> TRUE, nibble |-> 15, enable |-> TRUE]
    /\ lcd = [wide |-> TRUE, half |-> None, ac |-> 0, glyphs |-> FALSE, up |-> TRUE,
              lines |-> FALSE, on |-> FALSE, memory |-> [a \in Address |-> Blank]]
    /\ opened = FALSE
    /\ sent = 0
    /\ at = [t \in Task |-> 1]
    /\ rest = [t \in Task |-> <<>>]
    /\ col = [t \in Task |-> 0]
    /\ row = [t \in Task |-> 0]
    /\ moving = [t \in Task |-> FALSE]
    /\ step = [t \in Thread |-> 0]
    /\ clean = TRUE
    /\ failures = 0
    /\ restarts = 0

\* app_main has come back from LCDIIC_vInit and started the tasks.
Ready == opened /\ sent = Len(Commands)

\* In LCDIIC_vShowStringAt.
Busy(t) == moving[t] \/ rest[t] # <<>>

Writing(t) ==
    IF t = "app_main" THEN opened /\ sent < Len(Commands) ELSE Busy(t)

\* The byte in hand, and whether it is data or a command.
IsData(t) == t # "app_main" /\ ~moving[t]
InHand(t) ==
    IF t = "app_main" THEN Commands[sent + 1]
    ELSE IF moving[t] THEN 128 + Start(row[t]) + col[t]
    ELSE Head(rest[t])

\* LCDIIC_vInitIO: all of the lines down.
vInitIO ==
    /\ ~opened
    /\ opened' = TRUE
    /\ writeI2CData([data |-> FALSE, nibble |-> 0, enable |-> FALSE])
    /\ UNCHANGED <<sent, show, step, restarts>>

\* Mutant: the enable line stays up between the nibbles.
NoFall(t) ==
    [data |-> IsData(t),
     nibble |-> IF step[t] < 2 THEN InHand(t) \div 16 ELSE InHand(t) % 16,
     enable |-> step[t] # 3]

\* What the next write of LCDIIC_vWriteCommand or LCDIIC_vWriteData puts on
\* the lines.
Pulse(t) ==
    [data |-> IsData(t),
     nibble |-> IF step[t] < 2 THEN InHand(t) \div 16 ELSE InHand(t) % 16,
     enable |-> step[t] % 2 = 0]

\* Mutant: the end of a row is not noticed.
NoWrap(t) ==
    /\ col' = [col EXCEPT ![t] = (@ + 1) % SCREEN_WIDTH]
    /\ UNCHANGED <<row, moving>>

\* The loop of LCDIIC_vShowStringAt moves on; the cursor is set again for a
\* new row, if there is nothing more to show too.
Forward(t) ==
    IF col[t] + 1 = SCREEN_WIDTH
    THEN /\ col' = [col EXCEPT ![t] = 0]
         /\ row' = [row EXCEPT ![t] = IF @ + 1 = SCREEN_HIGH THEN 0 ELSE @ + 1]
         /\ moving' = [moving EXCEPT ![t] = TRUE]
    ELSE col' = [col EXCEPT ![t] = @ + 1] /\ UNCHANGED <<row, moving>>

\* The byte in hand is written: the caller goes on.
Return(t) ==
    \/ /\ t = "app_main"
       /\ sent' = sent + 1
       /\ UNCHANGED <<rest, place>>
    \/ /\ t # "app_main" /\ moving[t]
       /\ moving' = [moving EXCEPT ![t] = FALSE]
       /\ UNCHANGED <<sent, rest, col, row>>
    \/ /\ t # "app_main" /\ ~moving[t]
       /\ rest' = [rest EXCEPT ![t] = Tail(@)]
       /\ Forward(t)
       /\ UNCHANGED sent

\* One write of LCDIIC_vWriteCommand or LCDIIC_vWriteData.
Write(t) ==
    /\ Writing(t)
    /\ writeI2CData(Pulse(t))
    /\ step' = [step EXCEPT ![t] = (@ + 1) % 4]
    /\ IF step[t] = 3 THEN Return(t) ELSE UNCHANGED <<sent, rest, place>>
    /\ UNCHANGED <<opened, at, restarts>>

\* Task t calls LCDIIC_vShowStringAt, whatever the other is doing.
vShowStringAt(t) ==
    /\ Ready
    /\ ~Busy(t)
    /\ at[t] <= Len(Calls[t])
    /\ rest' = [rest EXCEPT ![t] = Calls[t][at[t]].text]
    /\ col' = [col EXCEPT ![t] = Calls[t][at[t]].col]
    /\ row' = [row EXCEPT ![t] = Calls[t][at[t]].row]
    /\ moving' = [moving EXCEPT ![t] = TRUE]
    /\ at' = [at EXCEPT ![t] = IF @ = Len(Calls[t]) /\ t \in Endless THEN 1 ELSE @ + 1]
    /\ clean' = (clean /\ \A u \in Task : ~Busy(u))
    /\ UNCHANGED <<hardware, main, step, bounds>>

\* The program restarts, by an ESP_ERROR_CHECK or a watchdog.
Restart ==
    /\ restarts < MAX_RESTARTS
    /\ restarts' = restarts + 1
    /\ opened' = FALSE
    /\ sent' = 0
    /\ at' = [t \in Task |-> 1]
    /\ rest' = [t \in Task |-> <<>>]
    /\ col' = [t \in Task |-> 0]
    /\ row' = [t \in Task |-> 0]
    /\ moving' = [t \in Task |-> FALSE]
    /\ step' = [t \in Thread |-> 0]
    /\ clean' = TRUE
    /\ UNCHANGED <<hardware, failures>>

Next ==
    \/ vInitIO
    \/ \E t \in Thread : Write(t)
    \/ \E t \in Task : vShowStringAt(t)
    \/ Restart

Spec == Init /\ [][Next]_vars
-----------------------------------------------------------------------------
TypeOK ==
    /\ port \in Lines
    /\ lcd \in Lcd
    /\ opened \in BOOLEAN
    /\ sent \in 0..Len(Commands)
    /\ at \in [Task -> Nat \ {0}]
    /\ rest \in [Task -> Seq(Char)]
    /\ col \in [Task -> 0..SCREEN_WIDTH - 1]
    /\ row \in [Task -> 0..SCREEN_HIGH - 1]
    /\ moving \in [Task -> BOOLEAN]
    /\ step \in [Thread -> 0..3]
    /\ clean \in BOOLEAN
    /\ failures \in 0..MAX_FAILURES
    /\ restarts \in 0..MAX_RESTARTS

\* LCDIIC_vInit leaves the display listening to four lines, showing two lines,
\* switched on and counting up, whatever byte or half of a byte a restart found
\* it in: a program that restarts gets its display back.
InitSettles ==
    Ready /\ clean => ~lcd.wide /\ lcd.lines /\ lcd.on /\ lcd.up

\* The display and the program agree on which half of a byte comes next.
InStep ==
    Ready /\ clean =>
        (lcd.half # None <=> \E t \in Task : Busy(t) /\ step[t] \in {2, 3})

\* The promise of LCDIIC.h, until a write fails or two texts overlap.
Shown == INSTANCE Screen WITH
    Width <- SCREEN_WIDTH,
    High <- SCREEN_HIGH,
    ready <- Ready,
    cells <- [p \in (0..SCREEN_HIGH - 1) \X (0..SCREEN_WIDTH - 1) |->
                lcd.memory[Start(p[1]) + p[2]]],
    typing <- [t \in Task |-> [text |-> rest[t], row |-> row[t], col |-> col[t]]],
    garbled <- ~clean

IsScreen == Shown!Spec

\* "It is responsible to set the cursor position to specific column and row"
\* (LCDIIC.c:214): after the last write of LCDIIC_vSetCursorPosition, if no write
\* failed, the display writes next where the caller asked for.
CursorIsSet ==
    [][\A t \in Task :
          moving[t] /\ ~moving'[t] /\ failures' = 0 /\ restarts' = restarts =>
              lcd'.ac = Start(row[t]) + col[t]]_vars
=============================================================================
