--------------------------- MODULE Display_proofs ---------------------------
(***************************************************************************)
(* Proofs about Display, for every size of the display and every text.     *)
(*                                                                         *)
(* The argument is about the pairing of nibbles.  While nothing went wrong *)
(* (clean), one thread at most is writing, the port holds its last write,  *)
(* and the display has the first half of its byte exactly when it is       *)
(* between the halves.  The commands of LCDIIC_vInit bring that about from *)
(* any state of the display: BootInv lists what the display can be after   *)
(* each of their nibbles.                                                  *)
(***************************************************************************)
EXTENDS Display, TLAPS

\* What thread t put on the lines with the enable line up.
Held(t) ==
    [data |-> IsData(t),
     nibble |-> IF step[t] < 2 THEN InHand(t) \div 16 ELSE InHand(t) % 16,
     enable |-> TRUE]

\* Only a thread in a call is between its writes, the tasks call nothing before
\* app_main has come back, and a display that listens to eight lines waits for
\* no half.
CallInv ==
    /\ \A t \in Thread : ~Writing(t) => step[t] = 0
    /\ ~opened => sent = 0
    /\ ~Ready => \A t \in Task : ~Busy(t)
    /\ lcd.wide => lcd.half = None

AloneInv == clean => \A t, u \in Thread : Writing(t) /\ Writing(u) => t = u

PortInv ==
    clean /\ opened =>
        /\ \A t \in Thread : Writing(t) /\ step[t] \in {1, 3} => port = Held(t)
        /\ (\A t \in Thread : Writing(t) => step[t] \in {0, 2}) => ~port.enable

\* The display c after the nibbles of LCDIIC_vInit up to the i-th command, and
\* one more of them if second.
Booting(c, i, second) ==
    CASE i = 0 /\ ~second -> TRUE
      [] i = 0 /\ second -> c.wide \/ c.half \in {None, 0}
      [] i = 1 /\ ~second -> c.wide \/ c.half \in {None, 3}
      [] i = 1 /\ second -> c.wide \/ c.half = 0
      [] i \in 2..5 ->
            /\ ~c.wide
            /\ c.half = IF second THEN Commands[i + 1] \div 16 ELSE None
            /\ i > 2 => c.lines
            /\ i > 3 => c.on
            /\ i > 4 => c.up
      [] OTHER -> TRUE

BootInv ==
    clean /\ opened /\ ~Ready => Booting(lcd, sent, step["app_main"] \in {2, 3})

\* The display once it is ready.
ReadyInv ==
    clean /\ Ready =>
        /\ ~lcd.wide /\ lcd.lines /\ lcd.on /\ lcd.up /\ ~lcd.glyphs
        /\ \A t \in Task : Busy(t) /\ step[t] \in {2, 3} => lcd.half = InHand(t) \div 16
        /\ (\A t \in Task : Busy(t) => step[t] \in {0, 1}) => lcd.half = None
        /\ \A t \in Task : Busy(t) /\ ~moving[t] => lcd.ac = Start(row[t]) + col[t]

IInv == TypeOK /\ CallInv /\ AloneInv /\ PortInv /\ BootInv /\ ReadyInv
-----------------------------------------------------------------------------
(* Lemmas about the display and the addresses. *)

LEMMA StartIs ==
    ASSUME NEW r \in 0..SCREEN_HIGH - 1
    PROVE  /\ r \in 0..3
           /\ Start(r) = IF r = 0 THEN 0 ELSE IF r = 1 THEN 64
                         ELSE IF r = 2 THEN SCREEN_WIDTH ELSE 64 + SCREEN_WIDTH
<1>1. r \in 0..3
  BY SizeAssumption
<1>2. /\ r = 0 => r % 2 = 0 /\ r \div 2 = 0
      /\ r = 1 => r % 2 = 1 /\ r \div 2 = 0
      /\ r = 2 => r % 2 = 0 /\ r \div 2 = 1
      /\ r = 3 => r % 2 = 1 /\ r \div 2 = 1
  OBVIOUS
<1>3. 0 * SCREEN_WIDTH = 0 /\ 1 * SCREEN_WIDTH = SCREEN_WIDTH
  BY SizeAssumption
<1> QED
  BY <1>1, <1>2, <1>3, SizeAssumption DEF Start

\* Every place of the display has an address of its own.
LEMMA PlaceAddress ==
    ASSUME NEW r \in 0..SCREEN_HIGH - 1, NEW c \in 0..SCREEN_WIDTH - 1
    PROVE  /\ Start(r) + c \in Address
           /\ Start(r) + c \in 0..103
           /\ c + 1 < SCREEN_WIDTH =>
                /\ Following(Start(r) + c) = Start(r) + c + 1
                /\ Start(r) + (c + 1) = Start(r) + c + 1
<1>1. Start(r) + c \in 0..103 /\ Start(r) + c \in Address
  BY StartIs, SizeAssumption DEF Address
<1>2. ASSUME c + 1 < SCREEN_WIDTH
      PROVE  /\ Start(r) + c # 2 * SCREEN_WIDTH - 1
             /\ Start(r) + c # 64 + 2 * SCREEN_WIDTH - 1
             /\ Start(r) + (c + 1) = Start(r) + c + 1
  BY <1>2, StartIs, SizeAssumption
<1>3. (Start(r) + c + 1) % 128 = Start(r) + c + 1
  BY <1>1
<1> QED
  BY <1>1, <1>2, <1>3 DEF Following

LEMMA PlacesDiffer ==
    ASSUME NEW r \in 0..SCREEN_HIGH - 1, NEW c \in 0..SCREEN_WIDTH - 1,
           NEW q \in 0..SCREEN_HIGH - 1, NEW d \in 0..SCREEN_WIDTH - 1,
           Start(r) + c = Start(q) + d
    PROVE  r = q /\ c = d
BY StartIs, SizeAssumption

LEMMA Halves ==
    ASSUME NEW b \in 0..255
    PROVE  /\ b \div 16 \in Nibble
           /\ b % 16 \in Nibble
           /\ 16 * (b \div 16) + (b % 16) = b
BY DEF Nibble

LEMMA Whole ==
    ASSUME NEW m \in Nibble, NEW n \in Nibble
    PROVE  16 * m + n \in 0..255
BY DEF Nibble

LEMMA CounterType ==
    ASSUME NEW ac \in 0..127
    PROVE  Following(ac) \in 0..127 /\ Preceding(ac) \in 0..127
BY SizeAssumption DEF Following, Preceding

LEMMA Update ==
    ASSUME NEW c \in Lcd
    PROVE  /\ \A a \in 0..127 : [c EXCEPT !.ac = a] \in Lcd
           /\ \A g \in BOOLEAN : [c EXCEPT !.on = g] \in Lcd
           /\ \A g \in BOOLEAN : [c EXCEPT !.up = g] \in Lcd
           /\ \A a \in 0..127, g \in BOOLEAN : [c EXCEPT !.ac = a, !.glyphs = g] \in Lcd
           /\ \A g, u \in BOOLEAN : [c EXCEPT !.wide = g, !.lines = u] \in Lcd
           /\ \A a \in 0..127, m \in [Address -> 0..255] :
                [c EXCEPT !.memory = m, !.ac = a] \in Lcd
BY DEF Lcd

LEMMA PutType ==
    ASSUME NEW c \in Lcd, NEW b \in 0..255
    PROVE  Put(c, b) \in Lcd
<1> DEFINE m == IF c.glyphs \/ c.ac \notin Address THEN c.memory
                ELSE [c.memory EXCEPT ![c.ac] = b]
           a == IF c.up THEN Following(c.ac) ELSE Preceding(c.ac)
<1>1. m \in [Address -> 0..255]
  BY DEF Lcd
<1>2. a \in 0..127
  BY CounterType DEF Lcd
<1>3. Put(c, b) = [c EXCEPT !.memory = m, !.ac = a]
  BY DEF Put
<1> HIDE DEF m, a
<1>4. [c EXCEPT !.memory = m, !.ac = a] \in Lcd
  BY <1>1, <1>2, Update
<1> QED
  BY <1>3, <1>4

LEMMA ObeyType ==
    ASSUME NEW c \in Lcd, NEW b \in 0..255
    PROVE  Obey(c, b) \in Lcd
<1>1. CASE b >= 128
  <2>1. b - 128 \in 0..127
    BY <1>1
  <2>2. [c EXCEPT !.ac = b - 128, !.glyphs = FALSE] \in Lcd
    BY <2>1, Update
  <2> QED
    BY <1>1, <2>2 DEF Obey
<1>2. CASE b \in 64..127
  <2>1. b - 64 \in 0..127
    BY <1>2
  <2>2. [c EXCEPT !.ac = b - 64, !.glyphs = TRUE] \in Lcd
    BY <2>1, Update
  <2> QED
    BY <1>2, <2>2 DEF Obey
<1>3. CASE b \in 32..63
  <2>1. Bit(b, 16) \in BOOLEAN /\ Bit(b, 8) \in BOOLEAN
    BY DEF Bit
  <2>2. [c EXCEPT !.wide = Bit(b, 16), !.lines = Bit(b, 8)] \in Lcd
    BY <2>1, Update
  <2> QED
    BY <1>3, <2>2 DEF Obey
<1>4. CASE b \in 16..31
  <2> DEFINE a == IF Bit(b, 4) THEN Following(c.ac) ELSE Preceding(c.ac)
  <2>1. a \in 0..127
    BY CounterType DEF Lcd
  <2>2. Obey(c, b) = c \/ Obey(c, b) = [c EXCEPT !.ac = a]
    <3>1. ~(b >= 128) /\ ~(b \in 64..127) /\ ~(b \in 32..63)
      BY <1>4
    <3>2. CASE Bit(b, 8)
      BY <1>4, <3>1, <3>2 DEF Obey
    <3>3. CASE ~Bit(b, 8)
      BY <1>4, <3>1, <3>3 DEF Obey
    <3> QED
      BY <3>2, <3>3
  <2> HIDE DEF a
  <2>3. [c EXCEPT !.ac = a] \in Lcd
    BY <2>1, Update
  <2> QED
    BY <2>2, <2>3
<1>5. CASE b \in 8..15
  <2>1. [c EXCEPT !.on = Bit(b, 4)] \in Lcd
    BY Update DEF Bit
  <2> QED
    BY <1>5, <2>1 DEF Obey
<1>6. CASE b \in 4..7
  <2>1. [c EXCEPT !.up = Bit(b, 2)] \in Lcd
    BY Update DEF Bit
  <2> QED
    BY <1>6, <2>1 DEF Obey
<1>0. \A a \in 0..127 : [c EXCEPT !.ac = a, !.glyphs = FALSE] \in Lcd
  BY Update
<1>10. 0 \in 0..127
  OBVIOUS
<1>7. CASE b \in 2..3
  <2>1. [c EXCEPT !.ac = 0, !.glyphs = FALSE] \in Lcd
    BY <1>0, <1>10
  <2> QED
    BY <1>7, <2>1 DEF Obey
<1>8. CASE b = 1
  <2> DEFINE m == [a \in Address |-> Blank]
  <2>1. m \in [Address -> 0..255]
    BY DEF Blank
  <2>2. Obey(c, b) = [c EXCEPT !.ac = 0, !.glyphs = FALSE, !.up = TRUE, !.memory = m]
    BY <1>8 DEF Obey
  <2> HIDE DEF m
  <2> DEFINE e == [c EXCEPT !.ac = 0, !.glyphs = FALSE]
             f == [e EXCEPT !.up = TRUE]
  <2>3. e \in Lcd
    BY <1>0, <1>10
  <2>4. f \in Lcd
    BY <2>3, Update
  <2>5. [f EXCEPT !.memory = m, !.ac = 0] \in Lcd
    BY <1>10, <2>1, <2>4, Update
  <2>6. Obey(c, b) = [f EXCEPT !.memory = m, !.ac = 0]
    BY <2>2 DEF Lcd
  <2> QED
    BY <2>5, <2>6
<1>9. CASE b = 0
  BY <1>9 DEF Obey
<1> QED
  BY <1>1, <1>2, <1>3, <1>4, <1>5, <1>6, <1>7, <1>8, <1>9

\* A display that listens to eight lines waits for no half.
HalfOK(c) == c.wide => c.half = None

LEMMA HalfKept ==
    ASSUME NEW c \in Lcd, c.half = None, NEW data \in BOOLEAN, NEW b \in 0..255
    PROVE  Execute(c, data, b).half = None
<1>1. Put(c, b).half = None
  BY DEF Put, Lcd
<1>2. Obey(c, b).half = None
  BY DEF Obey, Lcd
<1> QED
  BY <1>1, <1>2 DEF Execute

LEMMA TakenType ==
    ASSUME NEW c \in Lcd, HalfOK(c), NEW data \in BOOLEAN, NEW n \in Nibble,
           NEW d \in Taken(c, data, n)
    PROVE  d \in Lcd /\ HalfOK(d)
<1>1. CASE c.wide
  <2>1. PICK low \in Nibble : d = Execute(c, data, 16 * n + low)
    BY <1>1 DEF Taken
  <2>2. 16 * n + low \in 0..255
    BY Whole
  <2>3. d \in Lcd
    BY <2>1, <2>2, PutType, ObeyType DEF Execute
  <2>4. d.half = None
    BY <1>1, <2>1, <2>2, HalfKept DEF HalfOK
  <2> QED
    BY <2>3, <2>4 DEF HalfOK
<1>2. CASE ~c.wide /\ c.half = None
  <2>1. d = [c EXCEPT !.half = n]
    BY <1>2 DEF Taken
  <2>2. [c EXCEPT !.half = n] \in Lcd
    BY DEF Lcd
  <2>3. d.wide = c.wide
    BY <2>1 DEF Lcd
  <2> QED
    BY <1>2, <2>1, <2>2, <2>3 DEF HalfOK
<1>3. CASE ~c.wide /\ c.half # None
  <2> DEFINE e == [c EXCEPT !.half = None]
  <2>1. c.half \in Nibble
    BY <1>3 DEF Lcd
  <2>2. 16 * c.half + n \in 0..255
    BY <2>1, Whole
  <2>3. d = Execute(e, data, 16 * c.half + n)
    BY <1>3 DEF Taken
  <2>4. e \in Lcd
    BY DEF Lcd
  <2>5. e.half = None
    BY DEF Lcd
  <2> HIDE DEF e
  <2>6. d \in Lcd
    BY <2>2, <2>3, <2>4, PutType, ObeyType DEF Execute
  <2>7. d.half = None
    BY <2>2, <2>3, <2>4, <2>5, HalfKept
  <2> QED
    BY <2>6, <2>7 DEF HalfOK
<1> QED
  BY <1>1, <1>2, <1>3
-----------------------------------------------------------------------------
(* What a write can do. *)

LEMMA CommandFacts ==
    /\ Len(Commands) = 6
    /\ Commands[1] = 3 /\ Commands[2] = 2 /\ Commands[3] = 44
    /\ Commands[4] = 12 /\ Commands[5] = 6 /\ Commands[6] = 1
BY DEF Commands

LEMMA InHandType ==
    ASSUME TypeOK, NEW t \in Thread, Writing(t)
    PROVE  /\ InHand(t) \in 0..255
           /\ IsData(t) \in BOOLEAN
           /\ Pulse(t) \in Lines /\ Held(t) \in Lines
<1>1. InHand(t) \in 0..255
  <2>1. CASE t = "app_main"
    <3>1. sent + 1 \in 1..6
      BY <2>1, CommandFacts DEF TypeOK, Writing
    <3>2. \A i \in 1..6 : Commands[i] \in 0..255
      BY CommandFacts
    <3> QED
      BY <2>1, <3>1, <3>2 DEF InHand
  <2>2. CASE t # "app_main" /\ moving[t]
    <3>1. PICK x \in 0..103 : x = Start(row[t]) + col[t]
      BY <2>2, PlaceAddress DEF TypeOK, Thread
    <3>2. Start(row[t]) \in Int /\ col[t] \in Int
      BY <2>2, StartIs, SizeAssumption DEF TypeOK, Thread
    <3>3. InHand(t) = 128 + x
      BY <2>2, <3>1, <3>2 DEF InHand
    <3> QED
      BY <3>3
  <2>3. CASE t # "app_main" /\ ~moving[t]
    <3>1. rest[t] \in Seq(Char) /\ rest[t] # <<>>
      BY <2>3 DEF Writing, Busy, TypeOK, Thread
    <3>2. Head(rest[t]) \in Char
      BY <3>1
    <3>3. \A c \in Char : c \in 0..255
      BY CharAssumption
    <3>4. Head(rest[t]) \in 0..255
      BY <3>2, <3>3
    <3>5. InHand(t) = Head(rest[t])
      BY <2>3 DEF InHand
    <3> QED
      BY <3>4, <3>5
  <2> QED
    BY <2>1, <2>2, <2>3
<1>2. IsData(t) \in BOOLEAN
  BY DEF IsData
<1>3. InHand(t) \div 16 \in Nibble /\ InHand(t) % 16 \in Nibble
  BY <1>1, Halves
<1>4. (step[t] % 2 = 0) \in BOOLEAN
  OBVIOUS
<1> QED
  BY <1>1, <1>2, <1>3, <1>4 DEF Pulse, Held, Lines

LEMMA WriteType ==
    ASSUME TypeOK, HalfOK(lcd), NEW new \in Lines, writeI2CData(new)
    PROVE  /\ port' \in Lines
           /\ lcd' \in Lcd /\ HalfOK(lcd')
           /\ clean' \in BOOLEAN
           /\ failures' \in 0..MAX_FAILURES
<1>1. CASE Drive(new) /\ UNCHANGED <<clean, failures>>
  <2>1. port' \in Lines
    BY <1>1 DEF Drive
  <2>2. CASE port.enable /\ ~new.enable
    <3>1. PICK data \in {port.data, new.data}, n \in {port.nibble, new.nibble} :
             lcd' \in Taken(lcd, data, n)
      BY <1>1, <2>2 DEF Drive
    <3>2. data \in BOOLEAN /\ n \in Nibble
      BY DEF TypeOK, Lines
    <3>3. lcd \in Lcd
      BY DEF TypeOK
    <3> QED
      BY <1>1, <2>1, <3>1, <3>2, <3>3, TakenType DEF TypeOK
  <2>3. CASE ~(port.enable /\ ~new.enable)
    BY <1>1, <2>1, <2>3 DEF Drive, TypeOK
  <2> QED
    BY <2>2, <2>3
<1>2. CASE /\ failures < MAX_FAILURES
           /\ failures' = failures + 1
           /\ clean' = FALSE
           /\ UNCHANGED hardware
  <2>1. port' = port /\ lcd' = lcd
    BY <1>2 DEF hardware
  <2>2. port \in Lines /\ lcd \in Lcd
    BY DEF TypeOK
  <2>3. failures' \in 0..MAX_FAILURES
    BY <1>2, BoundAssumption DEF TypeOK
  <2> QED
    BY <1>2, <2>1, <2>2, <2>3 DEF HalfOK
<1> QED
  BY <1>1, <1>2 DEF writeI2CData

LEMMA ForwardType ==
    ASSUME TypeOK, NEW t \in Task, Forward(t)
    PROVE  /\ col' \in [Task -> 0..SCREEN_WIDTH - 1]
           /\ row' \in [Task -> 0..SCREEN_HIGH - 1]
           /\ moving' \in [Task -> BOOLEAN]
<1>1. col[t] \in 0..SCREEN_WIDTH - 1 /\ row[t] \in 0..SCREEN_HIGH - 1
  BY DEF TypeOK
<1>2. CASE col[t] + 1 = SCREEN_WIDTH
  <2> DEFINE r == IF row[t] + 1 = SCREEN_HIGH THEN 0 ELSE row[t] + 1
  <2>1. r \in 0..SCREEN_HIGH - 1 /\ 0 \in 0..SCREEN_WIDTH - 1
    BY <1>1, SizeAssumption
  <2>2. row' = [row EXCEPT ![t] = r] /\ col' = [col EXCEPT ![t] = 0]
    BY <1>2 DEF Forward
  <2> HIDE DEF r
  <2> QED
    BY <1>2, <2>1, <2>2 DEF Forward, TypeOK
<1>3. CASE col[t] + 1 # SCREEN_WIDTH
  <2>1. col[t] + 1 \in 0..SCREEN_WIDTH - 1
    BY <1>1, <1>3, SizeAssumption
  <2> QED
    BY <1>3, <2>1 DEF Forward, TypeOK
<1> QED
  BY <1>2, <1>3

\* A write of t leaves the other threads where they are, and t too unless it is
\* the last of its byte.
LEMMA OthersStay ==
    ASSUME TypeOK, NEW t \in Thread, Write(t), NEW u \in Thread,
           u # t \/ step[t] # 3
    PROVE  /\ Writing(u)' = Writing(u)
           /\ IsData(u)' = IsData(u)
           /\ InHand(u)' = InHand(u)
           /\ u # "app_main" => /\ rest'[u] = rest[u] /\ col'[u] = col[u]
                                /\ row'[u] = row[u] /\ moving'[u] = moving[u]
                                /\ Busy(u)' = Busy(u)
           /\ u = "app_main" => sent' = sent
<1>0. opened' = opened
  BY DEF Write
<1>1. CASE step[t] # 3
  <2>1. UNCHANGED <<sent, rest, place>>
    BY <1>1 DEF Write
  <2> QED
    BY <1>0, <2>1 DEF place, Writing, Busy, IsData, InHand
<1>2. CASE step[t] = 3 /\ u # t
  <2>1. Return(t)
    BY <1>2 DEF Write
  <2>2. ASSUME t = "app_main"
        PROVE  rest' = rest /\ col' = col /\ row' = row /\ moving' = moving
    BY <2>1, <2>2 DEF Return, place
  <2>3. ASSUME t # "app_main"
        PROVE  sent' = sent
    BY <2>1, <2>3 DEF Return
  <2>4. ASSUME t # "app_main", u # "app_main"
        PROVE  rest'[u] = rest[u] /\ col'[u] = col[u] /\ row'[u] = row[u]
               /\ moving'[u] = moving[u]
    <3>1. u \in Task /\ t \in Task
      BY <2>4 DEF Thread
    <3> QED
      BY <1>2, <2>1, <2>4, <3>1 DEF Return, Forward, TypeOK
  <2>5. u # "app_main" => rest'[u] = rest[u] /\ col'[u] = col[u] /\ row'[u] = row[u]
                          /\ moving'[u] = moving[u]
    BY <2>2, <2>4
  <2>6. u = "app_main" => sent' = sent
    BY <1>2, <2>3
  <2> QED
    BY <1>0, <2>5, <2>6 DEF Writing, Busy, IsData, InHand
<1> QED
  BY <1>1, <1>2
-----------------------------------------------------------------------------
(* Type correctness, and who may write. *)

LEMMA BaseInit == Init => TypeOK /\ CallInv
<1> SUFFICES ASSUME Init PROVE TypeOK /\ CallInv
  OBVIOUS
<1> USE DEF Init
<1>1. port \in Lines
  BY DEF Lines, Nibble
<1>2. lcd \in Lcd
  <2>1. [a \in Address |-> Blank] \in [Address -> 0..255]
    BY DEF Blank
  <2> QED
    BY <2>1 DEF Lcd
<1>3. rest \in [Task -> Seq(Char)]
  <2>1. <<>> \in Seq(Char)
    OBVIOUS
  <2> QED
    BY <2>1
<1>4. /\ at \in [Task -> Nat \ {0}]
      /\ col \in [Task -> 0..SCREEN_WIDTH - 1]
      /\ row \in [Task -> 0..SCREEN_HIGH - 1]
      /\ moving \in [Task -> BOOLEAN]
      /\ step \in [Thread -> 0..3]
  BY SizeAssumption
<1>5. sent \in 0..Len(Commands) /\ failures \in 0..MAX_FAILURES
      /\ restarts \in 0..MAX_RESTARTS
  BY CommandFacts, BoundAssumption
<1>6. CallInv
  BY DEF CallInv, Ready, Busy
<1> QED
  BY <1>1, <1>2, <1>3, <1>4, <1>5, <1>6 DEF TypeOK

LEMMA BaseOpen == TypeOK /\ CallInv /\ vInitIO => TypeOK' /\ CallInv'
<1> SUFFICES ASSUME TypeOK, CallInv, vInitIO PROVE TypeOK' /\ CallInv'
  OBVIOUS
<1> DEFINE new == [data |-> FALSE, nibble |-> 0, enable |-> FALSE]
<1>1. new \in Lines
  BY DEF Lines, Nibble
<1>2. writeI2CData(new)
  BY DEF vInitIO
<1>3. HalfOK(lcd)
  BY DEF CallInv, HalfOK
<1> HIDE DEF new
<1>4. /\ port' \in Lines
      /\ lcd' \in Lcd /\ HalfOK(lcd')
      /\ clean' \in BOOLEAN
      /\ failures' \in 0..MAX_FAILURES
  BY <1>1, <1>2, <1>3, WriteType
<1>5. opened' = TRUE /\ UNCHANGED <<sent, at, rest, col, row, moving, step, restarts>>
  BY DEF vInitIO, show, place
<1>6. TypeOK'
  BY <1>4, <1>5 DEF TypeOK
<1>7. ~opened /\ sent = 0
  BY DEF vInitIO, CallInv
<1>8. \A t \in Task : ~Busy(t) /\ ~Busy(t)'
  BY <1>5, <1>7 DEF CallInv, Ready, Busy
<1>9. \A t \in Thread : step'[t] = 0
  BY <1>5, <1>7, <1>8 DEF CallInv, Writing, Thread
<1>10. lcd'.wide => lcd'.half = None
  BY <1>4 DEF HalfOK
<1> QED
  BY <1>5, <1>6, <1>8, <1>9, <1>10 DEF CallInv

LEMMA BaseWrite ==
    ASSUME TypeOK, CallInv, NEW t \in Thread, Write(t)
    PROVE  TypeOK' /\ CallInv'
<1>1. Writing(t) /\ writeI2CData(Pulse(t)) /\ opened' = opened /\ at' = at
      /\ restarts' = restarts /\ step' = [step EXCEPT ![t] = (@ + 1) % 4]
  BY DEF Write
<1>2. Pulse(t) \in Lines
  BY <1>1, InHandType
<1>3. HalfOK(lcd)
  BY DEF CallInv, HalfOK
<1>4. /\ port' \in Lines
      /\ lcd' \in Lcd /\ HalfOK(lcd')
      /\ clean' \in BOOLEAN
      /\ failures' \in 0..MAX_FAILURES
  BY <1>1, <1>2, <1>3, WriteType
<1>5. step' \in [Thread -> 0..3]
  <2>1. step[t] \in 0..3
    BY DEF TypeOK
  <2>2. (step[t] + 1) % 4 \in 0..3
    BY <2>1
  <2> QED
    BY <1>1, <2>2 DEF TypeOK
<1>6. /\ sent' \in 0..Len(Commands)
      /\ rest' \in [Task -> Seq(Char)]
      /\ col' \in [Task -> 0..SCREEN_WIDTH - 1]
      /\ row' \in [Task -> 0..SCREEN_HIGH - 1]
      /\ moving' \in [Task -> BOOLEAN]
  <2>1. CASE step[t] # 3
    BY <2>1 DEF Write, place, TypeOK
  <2>2. CASE step[t] = 3 /\ t = "app_main"
    <3>1. sent' = sent + 1 /\ UNCHANGED <<rest, col, row, moving>>
      BY <2>2 DEF Write, Return, place
    <3>2. sent < Len(Commands)
      BY <1>1, <2>2 DEF Writing
    <3>3. sent + 1 \in 0..Len(Commands)
      BY <3>2, CommandFacts DEF TypeOK
    <3> QED
      BY <3>1, <3>3 DEF TypeOK
  <2>3. CASE step[t] = 3 /\ t # "app_main" /\ moving[t]
    BY <2>3 DEF Write, Return, TypeOK
  <2>4. CASE step[t] = 3 /\ t # "app_main" /\ ~moving[t]
    <3>1. t \in Task
      BY <2>4 DEF Thread
    <3>2. /\ rest' = [rest EXCEPT ![t] = Tail(@)]
          /\ Forward(t)
          /\ sent' = sent
      BY <2>4 DEF Write, Return
    <3>3. rest[t] \in Seq(Char) /\ rest[t] # <<>>
      BY <1>1, <2>4, <3>1 DEF Writing, Busy, TypeOK
    <3>4. Tail(rest[t]) \in Seq(Char)
      BY <3>3
    <3>5. rest' \in [Task -> Seq(Char)]
      BY <3>2, <3>4 DEF TypeOK
    <3> QED
      BY <3>1, <3>2, <3>5, ForwardType DEF TypeOK
  <2> QED
    BY <2>1, <2>2, <2>3, <2>4
<1>7. TypeOK'
  BY <1>1, <1>4, <1>5, <1>6 DEF TypeOK
<1>8. ASSUME NEW u \in Thread, ~Writing(u)'
      PROVE  step'[u] = 0
  <2>1. CASE u # t
    <3>1. ~Writing(u)
      BY <1>8, <2>1, OthersStay
    <3> QED
      BY <1>1, <2>1, <3>1 DEF CallInv, TypeOK
  <2>2. CASE u = t
    <3>1. step[t] = 3
      BY <1>1, <1>8, <2>2, OthersStay
    <3> QED
      BY <1>1, <2>2, <3>1 DEF TypeOK
  <2> QED
    BY <2>1, <2>2
<1>9. ~opened' => sent' = 0
  <2>1. ASSUME ~opened
        PROVE  sent' = 0
    <3>1. sent = 0 /\ t # "app_main"
      BY <1>1, <2>1 DEF CallInv, Writing
    <3> QED
      BY <3>1, OthersStay DEF Thread
  <2> QED
    BY <1>1, <2>1
<1>10. ASSUME ~Ready', NEW u \in Task
       PROVE  ~Busy(u)'
  <2>1. ~Ready
    <3>1. CASE t = "app_main"
      BY <1>1, <3>1 DEF Writing, Ready, TypeOK
    <3>2. CASE t # "app_main"
      <4>1. sent' = sent
        BY <3>2, OthersStay DEF Thread
      <4> QED
        BY <1>1, <1>10, <4>1 DEF Ready
    <3> QED
      BY <3>1, <3>2
  <2>2. ~Busy(u) /\ u # "app_main" /\ u \in Thread
    BY <2>1, TaskAssumption DEF CallInv, Thread
  <2>3. ~Writing(u)
    BY <2>2 DEF Writing
  <2> QED
    BY <1>1, <2>2, <2>3, OthersStay
<1>11. lcd'.wide => lcd'.half = None
  BY <1>4 DEF HalfOK
<1> QED
  BY <1>7, <1>8, <1>9, <1>10, <1>11 DEF CallInv

LEMMA BaseShow ==
    ASSUME TypeOK, CallInv, NEW t \in Task, vShowStringAt(t)
    PROVE  TypeOK' /\ CallInv'
<1> DEFINE call == Calls[t][at[t]]
<1>1. call \in Call /\ call.text # <<>>
  <2>1. Calls[t] \in Seq(Call)
    BY CallsAssumption
  <2>2. Len(Calls[t]) \in Nat
    BY <2>1
  <2>3. at[t] \in 1..Len(Calls[t])
    BY <2>2 DEF vShowStringAt, TypeOK
  <2> QED
    BY <2>1, <2>3, CallsAssumption
<1>2. /\ call.text \in Seq(Char)
      /\ call.col \in 0..SCREEN_WIDTH - 1
      /\ call.row \in 0..SCREEN_HIGH - 1
  BY <1>1 DEF Call
<1>3. /\ rest' = [rest EXCEPT ![t] = call.text]
      /\ col' = [col EXCEPT ![t] = call.col]
      /\ row' = [row EXCEPT ![t] = call.row]
      /\ moving' = [moving EXCEPT ![t] = TRUE]
      /\ Ready /\ ~Busy(t)
  BY DEF vShowStringAt
<1>4. UNCHANGED <<port, lcd, opened, sent, step, failures, restarts>>
  BY DEF vShowStringAt, hardware, main, bounds
<1>5. at' \in [Task -> Nat \ {0}]
  BY DEF vShowStringAt, TypeOK
<1>6. clean' \in BOOLEAN
  BY DEF vShowStringAt, TypeOK
<1> HIDE DEF call
<1>7. TypeOK'
  BY <1>2, <1>3, <1>4, <1>5, <1>6 DEF TypeOK
<1>8. Ready' /\ opened'
  BY <1>3, <1>4 DEF Ready
<1>9. ASSUME NEW u \in Thread, ~Writing(u)'
      PROVE  step'[u] = 0
  <2>1. CASE u = "app_main"
    BY <1>4, <1>9, <2>1 DEF CallInv, Writing
  <2>2. CASE u # "app_main" /\ u = t
    BY <1>3, <1>9, <2>2 DEF Writing, Busy, TypeOK
  <2>3. CASE u # "app_main" /\ u # t
    BY <1>3, <1>4, <1>9, <2>3 DEF CallInv, Writing, Busy, TypeOK, Thread
  <2> QED
    BY <2>1, <2>2, <2>3
<1> QED
  BY <1>4, <1>7, <1>8, <1>9 DEF CallInv

LEMMA BaseRestart == TypeOK /\ CallInv /\ Restart => TypeOK' /\ CallInv'
<1> SUFFICES ASSUME TypeOK, CallInv, Restart PROVE TypeOK' /\ CallInv'
  OBVIOUS
<1> USE DEF Restart
<1>1. <<>> \in Seq(Char)
  OBVIOUS
<1>2. rest' \in [Task -> Seq(Char)]
  BY <1>1
<1>3. /\ at' \in [Task -> Nat \ {0}]
      /\ col' \in [Task -> 0..SCREEN_WIDTH - 1]
      /\ row' \in [Task -> 0..SCREEN_HIGH - 1]
      /\ moving' \in [Task -> BOOLEAN]
      /\ step' \in [Thread -> 0..3]
  BY SizeAssumption
<1>4. sent' \in 0..Len(Commands) /\ restarts' \in 0..MAX_RESTARTS
  BY CommandFacts, BoundAssumption DEF TypeOK
<1>5. port' = port /\ lcd' = lcd /\ failures' = failures
  BY DEF hardware
<1>6. TypeOK'
  BY <1>2, <1>3, <1>4, <1>5 DEF TypeOK
<1>7. CallInv'
  BY <1>5 DEF CallInv, Ready, Busy
<1> QED
  BY <1>6, <1>7

LEMMA BaseStep == TypeOK /\ CallInv /\ [Next]_vars => TypeOK' /\ CallInv'
<1> SUFFICES ASSUME TypeOK, CallInv, [Next]_vars PROVE TypeOK' /\ CallInv'
  OBVIOUS
<1>1. CASE vInitIO
  BY <1>1, BaseOpen
<1>2. CASE \E t \in Thread : Write(t)
  BY <1>2, BaseWrite
<1>3. CASE \E t \in Task : vShowStringAt(t)
  BY <1>3, BaseShow
<1>4. CASE Restart
  BY <1>4, BaseRestart
<1>5. CASE UNCHANGED vars
  BY <1>5 DEF vars, hardware, main, show, place, bounds, TypeOK, CallInv, Ready, Busy,
     Writing
<1> QED
  BY <1>1, <1>2, <1>3, <1>4, <1>5 DEF Next

\* Every variable keeps its type: the bytes of the display's memory, the places
\* the loop of LCDIIC_vShowStringAt goes through, the writes of a byte.
THEOREM TypeCorrect == Spec => []TypeOK
<1>1. TypeOK /\ CallInv /\ [Next]_vars => (TypeOK /\ CallInv)'
  BY BaseStep
<1> QED
  BY <1>1, BaseInit, PTL DEF Spec
-----------------------------------------------------------------------------
(* What the display takes while nothing goes wrong. *)

LEMMA WideTaken ==
    ASSUME NEW c \in Lcd, c.wide, NEW data \in BOOLEAN, NEW n \in Nibble,
           NEW d \in Taken(c, data, n)
    PROVE  \E low \in Nibble : d = Execute(c, data, 16 * n + low)
BY DEF Taken

LEMMA HalfTaken ==
    ASSUME NEW c \in Lcd, ~c.wide, c.half = None, NEW data \in BOOLEAN,
           NEW n \in Nibble, NEW d \in Taken(c, data, n)
    PROVE  d = [c EXCEPT !.half = n]
BY DEF Taken

LEMMA ByteTaken ==
    ASSUME NEW c \in Lcd, ~c.wide, c.half \in Nibble, NEW data \in BOOLEAN,
           NEW n \in Nibble, NEW d \in Taken(c, data, n)
    PROVE  d = Execute([c EXCEPT !.half = None], data, 16 * c.half + n)
<1>1. c.half # None
  BY DEF Nibble, None
<1> QED
  BY <1>1 DEF Taken

LEMMA WholeTaken ==
    ASSUME NEW c \in Lcd, ~c.wide, NEW b \in 0..255, c.half = b \div 16,
           NEW data \in BOOLEAN, NEW d \in Taken(c, data, b % 16)
    PROVE  d = Execute([c EXCEPT !.half = None], data, b)
<1>1. b \div 16 \in Nibble /\ b % 16 \in Nibble /\ 16 * (b \div 16) + (b % 16) = b
  BY Halves
<1> QED
  BY <1>1, ByteTaken

LEMMA Obeyed ==
    ASSUME NEW c \in Lcd
    PROVE  /\ ~Obey(c, 44).wide /\ Obey(c, 44).lines
           /\ Obey(c, 12).on
           /\ Obey(c, 12).wide = c.wide /\ Obey(c, 12).lines = c.lines
           /\ Obey(c, 6).up
           /\ Obey(c, 6).wide = c.wide /\ Obey(c, 6).lines = c.lines
           /\ Obey(c, 6).on = c.on
           /\ Obey(c, 1).up /\ ~Obey(c, 1).glyphs
           /\ Obey(c, 1).memory = [a \in Address |-> Blank]
           /\ Obey(c, 1).wide = c.wide /\ Obey(c, 1).lines = c.lines
           /\ Obey(c, 1).on = c.on
           /\ Obey(c, 2).wide = c.wide
           /\ Obey(c, 48).wide
<1>1. ~Bit(44, 16) /\ Bit(44, 8) /\ Bit(12, 4) /\ Bit(6, 2) /\ Bit(48, 16)
  BY DEF Bit
<1>2. ~Obey(c, 44).wide /\ Obey(c, 44).lines
  <2>1. Obey(c, 44) = [c EXCEPT !.wide = Bit(44, 16), !.lines = Bit(44, 8)]
    BY DEF Obey
  <2> QED
    BY <1>1, <2>1 DEF Lcd
<1>3. Obey(c, 12).on /\ Obey(c, 12).wide = c.wide /\ Obey(c, 12).lines = c.lines
  <2>1. Obey(c, 12) = [c EXCEPT !.on = Bit(12, 4)]
    BY DEF Obey
  <2> QED
    BY <1>1, <2>1 DEF Lcd
<1>4. /\ Obey(c, 6).up /\ Obey(c, 6).wide = c.wide
      /\ Obey(c, 6).lines = c.lines /\ Obey(c, 6).on = c.on
  <2>1. Obey(c, 6) = [c EXCEPT !.up = Bit(6, 2)]
    BY DEF Obey
  <2> QED
    BY <1>1, <2>1 DEF Lcd
<1>5. /\ Obey(c, 1).up /\ ~Obey(c, 1).glyphs
      /\ Obey(c, 1).memory = [a \in Address |-> Blank]
      /\ Obey(c, 1).wide = c.wide /\ Obey(c, 1).lines = c.lines
      /\ Obey(c, 1).on = c.on
  <2>1. Obey(c, 1) = [c EXCEPT !.ac = 0, !.glyphs = FALSE, !.up = TRUE,
                               !.memory = [a \in Address |-> Blank]]
    BY DEF Obey
  <2> QED
    BY <2>1 DEF Lcd
<1>6. Obey(c, 2).wide = c.wide
  <2>1. Obey(c, 2) = [c EXCEPT !.ac = 0, !.glyphs = FALSE]
    BY DEF Obey
  <2> QED
    BY <2>1 DEF Lcd
<1>7. Obey(c, 48).wide
  <2>1. Obey(c, 48) = [c EXCEPT !.wide = Bit(48, 16), !.lines = Bit(48, 8)]
    BY DEF Obey
  <2> QED
    BY <1>1, <2>1 DEF Lcd
<1> QED
  BY <1>2, <1>3, <1>4, <1>5, <1>6, <1>7

\* What a display that listens to eight lines makes of a nibble.
LEMMA WideObeyed ==
    ASSUME NEW c \in Lcd, NEW low \in Nibble
    PROVE  /\ Obey(c, 16 * 0 + low).wide = c.wide
           /\ Obey(c, 16 * 3 + low).wide
           /\ ~Obey(c, 16 * 2 + low).wide
<1>1. PICK b \in 0..15 : b = 16 * 0 + low
  BY DEF Nibble
<1>2. Obey(c, b).wide = c.wide
  <2>1. ~(b >= 128) /\ b \notin 64..127 /\ b \notin 32..63 /\ b \notin 16..31
    BY <1>1
  <2> QED
    BY <2>1 DEF Obey, Lcd
<1>3. PICK h \in 48..63 : h = 16 * 3 + low
  BY DEF Nibble
<1>4. Obey(c, h).wide
  <2>1. Bit(h, 16)
    BY DEF Bit
  <2>2. Obey(c, h) = [c EXCEPT !.wide = Bit(h, 16), !.lines = Bit(h, 8)]
    BY DEF Obey
  <2> QED
    BY <2>1, <2>2 DEF Lcd
<1>5. PICK g \in 32..47 : g = 16 * 2 + low
  BY DEF Nibble
<1>6. ~Obey(c, g).wide
  <2>1. ~Bit(g, 16)
    BY DEF Bit
  <2>2. Obey(c, g) = [c EXCEPT !.wide = Bit(g, 16), !.lines = Bit(g, 8)]
    BY DEF Obey
  <2> QED
    BY <2>1, <2>2 DEF Lcd
<1> QED
  BY <1>1, <1>2, <1>3, <1>4, <1>5, <1>6

\* A write that goes well, of the only thread that writes.
LEMMA CleanWrite ==
    ASSUME IInv, NEW t \in Thread, Write(t), clean'
    PROVE  /\ clean /\ opened /\ Writing(t)
           /\ port' = Pulse(t)
           /\ step[t] \in {0, 2} => lcd' = lcd
           /\ step[t] = 1 => lcd' \in Taken(lcd, IsData(t), InHand(t) \div 16)
           /\ step[t] = 3 => lcd' \in Taken(lcd, IsData(t), InHand(t) % 16)
<1> DEFINE new == Pulse(t)
<1>1. Writing(t) /\ writeI2CData(new)
  BY DEF Write
<1>2. Drive(new) /\ clean' = clean
  BY <1>1 DEF writeI2CData
<1>3. opened
  <2>1. ASSUME ~opened PROVE FALSE
    <3>1. ~Ready /\ t # "app_main"
      BY <1>1, <2>1 DEF Ready, Writing
    <3> QED
      BY <1>1, <3>1 DEF IInv, CallInv, Writing, Thread
  <2> QED
    BY <2>1
<1>4. port' = new
  BY <1>2 DEF Drive
<1>5. ASSUME step[t] \in {0, 2}
      PROVE  lcd' = lcd
  <2>1. step[t] % 2 = 0
    BY <1>5
  <2>2. new.enable = (step[t] % 2 = 0)
    BY DEF Pulse
  <2> QED
    BY <1>2, <2>1, <2>2 DEF Drive
<1>6. ASSUME step[t] \in {1, 3}
      PROVE  lcd' \in Taken(lcd, IsData(t), IF step[t] < 2 THEN InHand(t) \div 16
                                           ELSE InHand(t) % 16)
  <2> DEFINE nib == IF step[t] < 2 THEN InHand(t) \div 16 ELSE InHand(t) % 16
  <2>1. port = Held(t)
    BY <1>1, <1>2, <1>3, <1>6 DEF IInv, PortInv
  <2>2. port.data = IsData(t) /\ port.nibble = nib /\ port.enable
    BY <2>1 DEF Held
  <2>3. new.data = IsData(t) /\ new.nibble = nib /\ ~new.enable
    <3>1. ~(step[t] % 2 = 0)
      BY <1>6
    <3> QED
      BY <3>1 DEF Pulse
  <2> HIDE DEF nib, new
  <2>4. \E data \in {port.data, new.data}, n \in {port.nibble, new.nibble} :
           lcd' \in Taken(lcd, data, n)
    BY <1>2, <2>2, <2>3 DEF Drive
  <2>5. lcd' \in Taken(lcd, IsData(t), nib)
    BY <2>2, <2>3, <2>4
  <2> QED
    BY <2>5 DEF nib
<1> QED
  BY <1>1, <1>2, <1>3, <1>4, <1>5, <1>6
-----------------------------------------------------------------------------
(* The display while it is initialised. *)

\* The first two commands, from whatever the display was.
LEMMA BootHeals ==
    ASSUME IInv, Write("app_main"), clean', sent \in 0..1, step["app_main"] \in {1, 3},
           ~Ready
    PROVE  /\ step["app_main"] = 1 => Booting(lcd', sent, TRUE)
           /\ step["app_main"] = 3 => Booting(lcd', sent + 1, FALSE)
<1> DEFINE n == IF step["app_main"] = 1 THEN Commands[sent + 1] \div 16
                ELSE Commands[sent + 1] % 16
           data == IsData("app_main")
<1>1. "app_main" \in Thread /\ data \in BOOLEAN /\ ~data
      /\ InHand("app_main") = Commands[sent + 1]
  BY DEF Thread, IsData, InHand
<1>2. lcd \in Lcd /\ HalfOK(lcd)
  BY DEF IInv, TypeOK, CallInv, HalfOK
<1>3. lcd' \in Taken(lcd, data, n) /\ clean /\ opened
  BY <1>1, CleanWrite
<1>4. Booting(lcd, sent, step["app_main"] = 3)
  BY <1>3 DEF IInv, BootInv
<1>5. /\ step["app_main"] = 1 => n = 0
      /\ step["app_main"] = 3 /\ sent = 0 => n = 3
      /\ step["app_main"] = 3 /\ sent = 1 => n = 2
  BY CommandFacts
<1>6. n \in Nibble
  BY <1>5 DEF Nibble
<1> HIDE DEF n, data
<1>7. lcd' \in Lcd /\ HalfOK(lcd')
  BY <1>1, <1>2, <1>3, <1>6, TakenType
<1>8. CASE lcd.wide
  <2>1. PICK low \in Nibble : lcd' = Obey(lcd, 16 * n + low)
    BY <1>2, <1>3, <1>6, <1>8, <1>1, WideTaken DEF Execute
  <2>2. lcd.half = None
    BY <1>2, <1>8 DEF HalfOK
  <2>3. 16 * n + low \in 0..255
    BY <1>6, Whole
  <2>4. lcd'.half = None
    <3>1. lcd' = Execute(lcd, data, 16 * n + low)
      BY <1>1, <2>1 DEF Execute
    <3> QED
      BY <1>1, <1>2, <2>2, <2>3, <3>1, HalfKept
  <2>5. n = 0 \/ n = 3 => lcd'.wide
    BY <1>2, <1>8, <2>1, WideObeyed
  <2>6. n = 2 => ~lcd'.wide
    BY <1>2, <2>1, WideObeyed
  <2> QED
    BY <1>5, <2>4, <2>5, <2>6 DEF Booting
<1>9. CASE ~lcd.wide /\ lcd.half = None
  <2>1. lcd' = [lcd EXCEPT !.half = n]
    BY <1>2, <1>3, <1>6, <1>9, <1>1, HalfTaken
  <2>2. lcd'.half = n
    BY <1>2, <2>1 DEF Lcd
  <2>3. ~(sent = 1 /\ step["app_main"] = 3)
    BY <1>4, <1>9 DEF Booting, None
  <2> QED
    BY <1>5, <2>2, <2>3 DEF Booting
<1>10. CASE ~lcd.wide /\ lcd.half # None
  <2> DEFINE c == [lcd EXCEPT !.half = None]
             b == 16 * lcd.half + n
  <2>1. lcd.half \in Nibble
    BY <1>2, <1>10 DEF Lcd
  <2>2. b \in 0..255
    BY <1>6, <2>1, Whole
  <2>3. lcd' = Execute(c, data, b)
    BY <1>2, <1>3, <1>6, <1>10, <2>1, <1>1, ByteTaken
  <2>4. c \in Lcd /\ c.half = None /\ ~c.wide
    BY <1>2, <1>10 DEF Lcd
  <2>5. sent = 1 /\ step["app_main"] = 1 => b = 48
    BY <1>4, <1>5, <1>10 DEF Booting, None
  <2>6. sent = 1 /\ step["app_main"] = 3 => b = 2
    BY <1>4, <1>5, <1>10 DEF Booting
  <2> HIDE DEF b, c
  <2>7. lcd'.half = None
    BY <1>1, <2>2, <2>3, <2>4, HalfKept
  <2>8. sent = 1 /\ step["app_main"] = 1 => lcd'.wide
    BY <2>3, <2>4, <2>5, <1>1, Obeyed DEF Execute
  <2>9. sent = 1 /\ step["app_main"] = 3 => ~lcd'.wide
    BY <2>3, <2>4, <2>6, <1>1, Obeyed DEF Execute
  <2> QED
    BY <2>7, <2>8, <2>9 DEF Booting
<1> QED
  BY <1>8, <1>9, <1>10

\* The other four, which find the display listening to four lines.
LEMMA BootSets ==
    ASSUME IInv, Write("app_main"), clean', sent \in 2..5, step["app_main"] \in {1, 3},
           ~Ready
    PROVE  /\ step["app_main"] = 1 => Booting(lcd', sent, TRUE)
           /\ step["app_main"] = 3 /\ sent < 5 => Booting(lcd', sent + 1, FALSE)
           /\ step["app_main"] = 3 /\ sent = 5 =>
                /\ ~lcd'.wide /\ lcd'.lines /\ lcd'.on /\ lcd'.up /\ ~lcd'.glyphs
                /\ lcd'.half = None
                /\ lcd'.memory = [a \in Address |-> Blank]
<1> DEFINE b == Commands[sent + 1]
           data == IsData("app_main")
<1>1. "app_main" \in Thread /\ data \in BOOLEAN /\ ~data /\ InHand("app_main") = b
  BY DEF Thread, IsData, InHand
<1>2. lcd \in Lcd
  BY DEF IInv, TypeOK
<1>3. clean /\ opened
      /\ (step["app_main"] = 1 => lcd' \in Taken(lcd, data, b \div 16))
      /\ (step["app_main"] = 3 => lcd' \in Taken(lcd, data, b % 16))
  BY <1>1, CleanWrite
<1>4. Booting(lcd, sent, step["app_main"] = 3)
  BY <1>3 DEF IInv, BootInv
<1>5. /\ ~lcd.wide
      /\ lcd.half = IF step["app_main"] = 3 THEN b \div 16 ELSE None
      /\ sent > 2 => lcd.lines
      /\ sent > 3 => lcd.on
      /\ sent > 4 => lcd.up
  BY <1>4 DEF Booting
<1>6. /\ sent = 2 => b = 44
      /\ sent = 3 => b = 12
      /\ sent = 4 => b = 6
      /\ sent = 5 => b = 1
  BY CommandFacts
<1>7. b \in 0..255
  BY <1>6
<1> HIDE DEF b, data
<1>8. CASE step["app_main"] = 1
  <2>1. b \div 16 \in Nibble
    BY <1>7, Halves
  <2>2. lcd' = [lcd EXCEPT !.half = b \div 16]
    BY <1>2, <1>3, <1>5, <1>8, <2>1, <1>1, HalfTaken
  <2>3. /\ lcd'.wide = lcd.wide /\ lcd'.half = b \div 16 /\ lcd'.lines = lcd.lines
        /\ lcd'.on = lcd.on /\ lcd'.up = lcd.up
    BY <1>2, <2>2 DEF Lcd
  <2> QED
    BY <1>5, <1>8, <2>3 DEF Booting, b
<1>9. CASE step["app_main"] = 3
  <2> DEFINE c == [lcd EXCEPT !.half = None]
  <2>1. lcd' = Execute(c, data, b)
    BY <1>2, <1>3, <1>5, <1>7, <1>9, <1>1, WholeTaken
  <2>2. /\ c \in Lcd /\ c.half = None /\ ~c.wide
        /\ c.lines = lcd.lines /\ c.on = lcd.on /\ c.up = lcd.up
    BY <1>2, <1>5 DEF Lcd
  <2> HIDE DEF c
  <2>3. lcd'.half = None
    BY <1>1, <1>7, <2>1, <2>2, HalfKept
  <2>4. lcd' = Obey(c, b)
    BY <1>1, <2>1 DEF Execute
  <2>5. CASE sent = 2
    BY <1>6, <1>9, <2>2, <2>3, <2>4, <2>5, Obeyed DEF Booting
  <2>6. CASE sent = 3
    BY <1>5, <1>6, <1>9, <2>2, <2>3, <2>4, <2>6, Obeyed DEF Booting
  <2>7. CASE sent = 4
    BY <1>5, <1>6, <1>9, <2>2, <2>3, <2>4, <2>7, Obeyed DEF Booting
  <2>8. CASE sent = 5
    BY <1>5, <1>6, <1>9, <2>2, <2>3, <2>4, <2>8, Obeyed DEF Booting
  <2>9. sent = 2 \/ sent = 3 \/ sent = 4 \/ sent = 5
    OBVIOUS
  <2> QED
    BY <2>5, <2>6, <2>7, <2>8, <2>9, Zenon
<1> QED
  BY <1>8, <1>9
-----------------------------------------------------------------------------
(* The invariant. *)

LEMMA IInvInit == Init => IInv
<1> SUFFICES ASSUME Init PROVE IInv
  OBVIOUS
<1>1. TypeOK /\ CallInv
  BY BaseInit
<1>2. \A t \in Thread : ~Writing(t)
  BY DEF Init, Writing, Busy, Thread
<1>3. ~opened
  BY DEF Init
<1> QED
  BY <1>1, <1>2, <1>3 DEF IInv, AloneInv, PortInv, BootInv, ReadyInv, Ready

LEMMA OpenKeeps == IInv /\ vInitIO => IInv'
<1> SUFFICES ASSUME IInv, vInitIO PROVE IInv'
  OBVIOUS
<1> USE DEF IInv
<1>1. TypeOK' /\ CallInv'
  BY BaseOpen
<1>2. ~opened /\ sent = 0 /\ opened' /\ sent' = 0
      /\ UNCHANGED <<rest, moving, step>>
  BY DEF vInitIO, CallInv, show, place
<1>3. ~Ready /\ ~Ready'
  BY <1>2, CommandFacts DEF Ready
<1>4. \A t \in Task : ~Busy(t)'
  BY <1>1, <1>3 DEF CallInv
<1>5. \A t \in Thread : Writing(t)' => t = "app_main"
  BY <1>4 DEF Thread, Writing
<1>6. AloneInv'
  BY <1>5 DEF AloneInv
<1>7. step'["app_main"] = 0
  BY <1>2 DEF CallInv, Writing, Thread
<1>8. PortInv'
  <2>1. SUFFICES ASSUME clean' PROVE ~port'.enable
    BY <1>5, <1>7 DEF PortInv
  <2>2. port' = [data |-> FALSE, nibble |-> 0, enable |-> FALSE]
    BY <2>1 DEF vInitIO, writeI2CData, Drive
  <2> QED
    BY <2>2
<1>9. BootInv'
  BY <1>2, <1>7 DEF BootInv, Booting
<1>10. ReadyInv'
  BY <1>3 DEF ReadyInv
<1> QED
  BY <1>1, <1>6, <1>8, <1>9, <1>10

LEMMA WriteAlone ==
    ASSUME IInv, NEW t \in Thread, Write(t), clean'
    PROVE  \A u \in Thread \ {t} : ~Writing(u) /\ ~Writing(u)'
<1>1. Writing(t) /\ clean
  BY CleanWrite
<1>2. ASSUME NEW u \in Thread \ {t}
      PROVE  ~Writing(u) /\ ~Writing(u)'
  BY <1>1, <1>2, OthersStay DEF IInv, AloneInv
<1> QED
  BY <1>2

LEMMA WriteKeepsPort ==
    ASSUME IInv, NEW t \in Thread, Write(t)
    PROVE  AloneInv' /\ PortInv'
<1>0. SUFFICES ASSUME clean' PROVE AloneInv' /\ PortInv'
  BY DEF AloneInv, PortInv
<1>1. \A u \in Thread : Writing(u)' => u = t
  BY <1>0, WriteAlone
<1>2. AloneInv'
  BY <1>1 DEF AloneInv
<1>3. port' = Pulse(t)
  BY <1>0, CleanWrite
<1>4. step[t] \in 0..3 /\ step'[t] = (step[t] + 1) % 4
  BY DEF Write, IInv, TypeOK
<1>5. CASE step[t] \in {0, 2}
  <2>1. /\ Writing(t)'
        /\ IsData(t)' = IsData(t)
        /\ InHand(t)' = InHand(t)
    <3>1. step[t] # 3
      BY <1>5
    <3> QED
      BY <1>0, <3>1, OthersStay, CleanWrite DEF IInv
  <2>2. step'[t] = step[t] + 1
    BY <1>4, <1>5
  <2>3. Pulse(t) = Held(t)'
    <3>1. (step[t] % 2 = 0) = TRUE
      BY <1>5
    <3>2. Pulse(t) = [data |-> IsData(t),
                      nibble |-> IF step[t] < 2 THEN InHand(t) \div 16 ELSE InHand(t) % 16,
                      enable |-> TRUE]
      BY <3>1 DEF Pulse
    <3>3. step[t] < 2 <=> step'[t] < 2
      BY <1>5, <2>2
    <3> QED
      BY <2>1, <3>2, <3>3 DEF Held
  <2>4. step'[t] \notin {0, 2}
    BY <1>5, <2>2
  <2> QED
    BY <1>1, <1>2, <1>3, <2>1, <2>3, <2>4 DEF PortInv
<1>6. CASE step[t] \in {1, 3}
  <2>1. step'[t] \in {0, 2}
    BY <1>4, <1>6
  <2>2. ~(step[t] % 2 = 0)
    BY <1>6
  <2>3. ~port'.enable
    BY <1>3, <2>2 DEF Pulse
  <2> QED
    BY <1>1, <1>2, <2>1, <2>3 DEF PortInv
<1> QED
  BY <1>4, <1>5, <1>6

LEMMA BootKeeps == IInv /\ Write("app_main") => BootInv' /\ ReadyInv'
<1>0. SUFFICES ASSUME IInv, Write("app_main"), clean' PROVE BootInv' /\ ReadyInv'
  BY DEF BootInv, ReadyInv
<1>1. "app_main" \in Thread
  BY DEF Thread
<1>2. clean /\ opened /\ Writing("app_main") /\ opened'
      /\ (step["app_main"] \in {0, 2} => lcd' = lcd)
  BY <1>0, <1>1, CleanWrite DEF Write
<1>3. sent \in 0..5 /\ ~Ready
  BY <1>0, <1>2, CommandFacts DEF Writing, Ready, IInv, TypeOK
<1>4. step["app_main"] \in 0..3 /\ step'["app_main"] = (step["app_main"] + 1) % 4
  BY <1>0, <1>1 DEF Write, IInv, TypeOK
<1>5. sent' = IF step["app_main"] = 3 THEN sent + 1 ELSE sent
  BY <1>0 DEF Write, Return
<1>6. \A t \in Task : ~Busy(t)'
  <2>1. \A t \in Task : t # "app_main" /\ t \in Thread
    BY TaskAssumption DEF Thread
  <2> QED
    BY <1>0, <1>1, <2>1, WriteAlone DEF Writing
<1>7. CASE step["app_main"] \in {0, 2}
  <2>1. Booting(lcd, sent, step["app_main"] \in {2, 3})
    BY <1>0, <1>2, <1>3 DEF IInv, BootInv
  <2>2. sent' = sent /\ lcd' = lcd
    BY <1>2, <1>5, <1>7
  <2>3. step'["app_main"] \in {2, 3} <=> step["app_main"] \in {2, 3}
    BY <1>4, <1>7
  <2>4. Booting(lcd', sent', step'["app_main"] \in {2, 3})
    BY <2>1, <2>2, <2>3 DEF Booting
  <2>5. ~Ready'
    BY <1>3, <2>2, CommandFacts DEF Ready
  <2> QED
    BY <2>4, <2>5 DEF BootInv, ReadyInv
<1>8. CASE step["app_main"] = 1
  <2>1. sent' = sent
    BY <1>5, <1>8
  <2>2. Booting(lcd', sent', TRUE)
    <3>1. CASE sent \in 0..1
      <4>1. Booting(lcd', sent, TRUE)
        BY <1>0, <1>3, <1>8, <3>1, BootHeals
      <4> QED
        BY <2>1, <4>1
    <3>2. CASE sent \in 2..5
      <4>1. Booting(lcd', sent, TRUE)
        BY <1>0, <1>3, <1>8, <3>2, BootSets
      <4> QED
        BY <2>1, <4>1
    <3>3. sent \in 0..1 \/ sent \in 2..5
      BY <1>3
    <3> QED
      BY <3>1, <3>2, <3>3, Zenon
  <2>3. step'["app_main"] \in {2, 3}
    BY <1>4, <1>8
  <2>4. ~Ready'
    BY <1>3, <2>1, CommandFacts DEF Ready
  <2>5. Booting(lcd', sent', step'["app_main"] \in {2, 3})
    BY <2>2, <2>3 DEF Booting
  <2> QED
    BY <2>4, <2>5 DEF BootInv, ReadyInv
<1>9. CASE step["app_main"] = 3
  <2>1. sent' = sent + 1
    BY <1>5, <1>9
  <2>2. ~(step'["app_main"] \in {2, 3})
    BY <1>4, <1>9
  <2>3. CASE sent < 5
    <3>1. Booting(lcd', sent', FALSE)
      <4>1. CASE sent \in 0..1
        <5>1. Booting(lcd', sent + 1, FALSE)
          BY <1>0, <1>3, <1>9, <4>1, BootHeals
        <5> QED
          BY <2>1, <5>1
      <4>2. CASE sent \in 2..5
        <5>1. Booting(lcd', sent + 1, FALSE)
          BY <1>0, <1>3, <1>9, <2>3, <4>2, BootSets
        <5> QED
          BY <2>1, <5>1
      <4>3. sent \in 0..1 \/ sent \in 2..5
        BY <1>3
      <4> QED
        BY <4>1, <4>2, <4>3, Zenon
    <3>2. ~Ready'
      BY <1>3, <2>1, <2>3, CommandFacts DEF Ready
    <3>3. Booting(lcd', sent', step'["app_main"] \in {2, 3})
      BY <2>2, <3>1 DEF Booting
    <3> QED
      BY <3>2, <3>3 DEF BootInv, ReadyInv
  <2>4. CASE sent = 5
    <3>1. Ready'
      BY <1>2, <2>1, <2>4, CommandFacts DEF Ready
    <3>2. /\ ~lcd'.wide /\ lcd'.lines /\ lcd'.on /\ lcd'.up /\ ~lcd'.glyphs
          /\ lcd'.half = None
      BY <1>0, <1>3, <1>9, <2>4, BootSets
    <3> QED
      BY <1>6, <3>1, <3>2 DEF BootInv, ReadyInv
  <2> QED
    BY <1>3, <2>3, <2>4
<1> QED
  BY <1>4, <1>7, <1>8, <1>9

\* A write of a task finds and leaves the display ready; the first of a half
\* changes nothing, the second keeps the half, and the last executes the byte.
LEMMA ShowTaken ==
    ASSUME IInv, NEW t \in Task, Write(t), clean'
    PROVE  /\ clean /\ Ready /\ Ready' /\ Busy(t) /\ t \in Thread /\ t # "app_main"
           /\ step[t] \in {0, 2} => lcd' = lcd
           /\ step[t] = 1 => lcd' = [lcd EXCEPT !.half = InHand(t) \div 16]
           /\ step[t] = 3 =>
                lcd' = Execute([lcd EXCEPT !.half = None], IsData(t), InHand(t))
<1>1. t \in Thread /\ t # "app_main"
  BY TaskAssumption DEF Thread
<1>2. clean /\ opened /\ Writing(t)
  BY <1>1, CleanWrite
<1>3. Busy(t)
  BY <1>1, <1>2 DEF Writing
<1>4. Ready
  BY <1>3 DEF IInv, CallInv
<1>5. sent' = sent /\ opened' = opened
  <2>1. sent' = sent
    BY <1>1 DEF Write, Return
  <2> QED
    BY <2>1 DEF Write
<1>6. Ready'
  BY <1>4, <1>5 DEF Ready
<1>7. lcd \in Lcd /\ ~lcd.wide
  BY <1>2, <1>4 DEF IInv, TypeOK, ReadyInv
<1>8. InHand(t) \in 0..255 /\ IsData(t) \in BOOLEAN
  BY <1>1, <1>2, InHandType DEF IInv
<1>9. ASSUME step[t] = 1
      PROVE  lcd' = [lcd EXCEPT !.half = InHand(t) \div 16]
  <2>1. \A u \in Task : Busy(u) => step[u] \in {0, 1}
    <3>1. \A u \in Task : u \in Thread /\ u # "app_main"
      BY TaskAssumption DEF Thread
    <3> QED
      BY <1>1, <1>9, <3>1, WriteAlone DEF Writing
  <2>2. lcd.half = None
    BY <1>2, <1>4, <2>1 DEF IInv, ReadyInv
  <2>3. InHand(t) \div 16 \in Nibble
    BY <1>8, Halves
  <2>4. lcd' \in Taken(lcd, IsData(t), InHand(t) \div 16)
    BY <1>1, <1>9, CleanWrite
  <2> QED
    BY <1>7, <1>8, <2>2, <2>3, <2>4, HalfTaken
<1>10. ASSUME step[t] = 3
       PROVE  lcd' = Execute([lcd EXCEPT !.half = None], IsData(t), InHand(t))
  <2>1. lcd.half = InHand(t) \div 16
    BY <1>2, <1>3, <1>4, <1>10 DEF IInv, ReadyInv
  <2>2. lcd' \in Taken(lcd, IsData(t), InHand(t) % 16)
    BY <1>1, <1>10, CleanWrite
  <2> QED
    BY <1>7, <1>8, <2>1, <2>2, WholeTaken
<1> QED
  BY <1>1, <1>2, <1>3, <1>4, <1>6, <1>9, <1>10, CleanWrite

\* The cursor is set.
LEMMA CursorSet ==
    ASSUME IInv, NEW t \in Task, Write(t), clean', step[t] = 3, moving[t]
    PROVE  /\ lcd' = [lcd EXCEPT !.half = None, !.ac = Start(row[t]) + col[t],
                                 !.glyphs = FALSE]
           /\ UNCHANGED <<rest, col, row>> /\ moving' = [moving EXCEPT ![t] = FALSE]
<1> DEFINE c == [lcd EXCEPT !.half = None]
<1>1. t # "app_main" /\ lcd' = Execute(c, IsData(t), InHand(t))
  BY ShowTaken
<1>2. Return(t)
  BY DEF Write
<1>3. UNCHANGED <<rest, col, row>> /\ moving' = [moving EXCEPT ![t] = FALSE]
  BY <1>1, <1>2 DEF Return
<1>4. ~IsData(t) /\ InHand(t) = 128 + Start(row[t]) + col[t]
  BY <1>1 DEF IsData, InHand
<1>5. row[t] \in 0..SCREEN_HIGH - 1 /\ col[t] \in 0..SCREEN_WIDTH - 1 /\ lcd \in Lcd
  BY DEF IInv, TypeOK
<1>6. PICK a \in 0..103 : a = Start(row[t]) + col[t]
  BY <1>5, PlaceAddress
<1>7. Start(row[t]) \in Int /\ col[t] \in Int
  BY <1>5, StartIs, SizeAssumption
<1>8. InHand(t) = 128 + a
  BY <1>4, <1>6, <1>7
<1>9. PICK b \in 128..255 : b = 128 + a
  OBVIOUS
<1>10. Obey(c, b) = [c EXCEPT !.ac = b - 128, !.glyphs = FALSE]
  BY DEF Obey
<1>11. lcd' = [c EXCEPT !.ac = a, !.glyphs = FALSE]
  <2>1. b - 128 = a
    BY <1>9
  <2>2. lcd' = Obey(c, b)
    BY <1>1, <1>4, <1>8, <1>9 DEF Execute
  <2> QED
    BY <1>10, <2>1, <2>2
<1> QED
  BY <1>3, <1>5, <1>6, <1>11 DEF Lcd

\* A character is shown where the loop is.
LEMMA CharShown ==
    ASSUME IInv, NEW t \in Task, Write(t), clean', step[t] = 3, ~moving[t]
    PROVE  /\ lcd' = [lcd EXCEPT !.half = None,
                        !.memory = [@ EXCEPT ![Start(row[t]) + col[t]] = Head(rest[t])],
                        !.ac = Following(Start(row[t]) + col[t])]
           /\ rest' = [rest EXCEPT ![t] = Tail(@)]
           /\ Forward(t)
           /\ rest[t] \in Seq(Char) /\ rest[t] # <<>>
<1> DEFINE c == [lcd EXCEPT !.half = None]
           a == Start(row[t]) + col[t]
<1>1. /\ t # "app_main" /\ lcd' = Execute(c, IsData(t), InHand(t))
      /\ clean /\ Ready /\ Busy(t)
  BY ShowTaken
<1>2. Return(t)
  BY DEF Write
<1>3. rest' = [rest EXCEPT ![t] = Tail(@)] /\ Forward(t)
  BY <1>1, <1>2 DEF Return
<1>4. IsData(t) /\ InHand(t) = Head(rest[t])
  BY <1>1 DEF IsData, InHand
<1>5. /\ lcd \in Lcd /\ lcd.ac = a /\ lcd.up /\ ~lcd.glyphs
      /\ row[t] \in 0..SCREEN_HIGH - 1 /\ col[t] \in 0..SCREEN_WIDTH - 1
  BY <1>1 DEF IInv, TypeOK, ReadyInv
<1>6. a \in Address
  BY <1>5, PlaceAddress
<1>7. rest[t] \in Seq(Char) /\ rest[t] # <<>>
  BY <1>1 DEF IInv, TypeOK, Busy
<1>8. lcd' = Put(c, Head(rest[t]))
  BY <1>1, <1>4 DEF Execute
<1> HIDE DEF a
<1>9. Put(c, Head(rest[t])) = [lcd EXCEPT !.half = None,
                                  !.memory = [@ EXCEPT ![a] = Head(rest[t])],
                                  !.ac = Following(a)]
  BY <1>5, <1>6 DEF Put, Lcd
<1> QED
  BY <1>3, <1>7, <1>8, <1>9 DEF a

LEMMA ShowKeeps == ASSUME IInv, NEW t \in Task, Write(t) PROVE BootInv' /\ ReadyInv'
<1>0. SUFFICES ASSUME clean' PROVE BootInv' /\ ReadyInv'
  BY DEF BootInv, ReadyInv
<1>1. clean /\ Ready /\ Ready' /\ Busy(t) /\ t \in Thread /\ t # "app_main"
  BY <1>0, ShowTaken
<1>2. /\ lcd \in Lcd
      /\ ~lcd.wide /\ lcd.lines /\ lcd.on /\ lcd.up /\ ~lcd.glyphs
      /\ ~moving[t] => lcd.ac = Start(row[t]) + col[t]
      /\ step[t] \in {2, 3} => lcd.half = InHand(t) \div 16
  BY <1>1 DEF IInv, TypeOK, ReadyInv
<1>3. \A u \in Task : Busy(u)' => u = t
  <2>1. \A u \in Task : u \in Thread /\ u # "app_main"
    BY TaskAssumption DEF Thread
  <2> QED
    BY <1>0, <1>1, <2>1, WriteAlone DEF Writing
<1>4. step[t] \in 0..3 /\ step'[t] = (step[t] + 1) % 4
  BY <1>1 DEF Write, IInv, TypeOK
<1>5. \A u \in Task : Busy(u) => u = t
  <2>1. \A u \in Task : u \in Thread /\ u # "app_main"
    BY TaskAssumption DEF Thread
  <2> QED
    BY <1>0, <1>1, <2>1, WriteAlone DEF Writing
<1>6. CASE step[t] # 3
  <2>1. /\ Busy(t)' /\ InHand(t)' = InHand(t)
        /\ col'[t] = col[t] /\ row'[t] = row[t] /\ moving'[t] = moving[t]
    BY <1>1, <1>6, OthersStay DEF IInv
  <2>2. CASE step[t] \in {0, 2}
    <3>1. lcd' = lcd
      BY <1>0, <2>2, ShowTaken
    <3>2. step'[t] \in {2, 3} <=> step[t] \in {2, 3}
      BY <1>4, <2>2
    <3>3. step[t] \in {0, 1} => lcd.half = None
      BY <1>1, <1>5 DEF IInv, ReadyInv
    <3> QED
      BY <1>1, <1>2, <1>3, <1>4, <2>1, <2>2, <3>1, <3>2, <3>3 DEF BootInv, ReadyInv
  <2>3. CASE step[t] = 1
    <3>1. lcd' = [lcd EXCEPT !.half = InHand(t) \div 16]
      BY <1>0, <2>3, ShowTaken
    <3>2. /\ lcd'.half = InHand(t) \div 16 /\ lcd'.wide = lcd.wide
          /\ lcd'.lines = lcd.lines /\ lcd'.on = lcd.on /\ lcd'.up = lcd.up
          /\ lcd'.glyphs = lcd.glyphs /\ lcd'.ac = lcd.ac
      BY <1>2, <3>1 DEF Lcd
    <3>3. step'[t] = 2
      BY <1>4, <2>3
    <3> QED
      BY <1>1, <1>2, <1>3, <2>1, <3>2, <3>3 DEF BootInv, ReadyInv
  <2> QED
    BY <1>4, <1>6, <2>2, <2>3
<1>7. CASE step[t] = 3 /\ moving[t]
  <2>1. /\ lcd' = [lcd EXCEPT !.half = None, !.ac = Start(row[t]) + col[t],
                              !.glyphs = FALSE]
        /\ col' = col /\ row' = row
    BY <1>0, <1>7, CursorSet
  <2>2. /\ lcd'.half = None /\ lcd'.wide = lcd.wide /\ lcd'.lines = lcd.lines
        /\ lcd'.on = lcd.on /\ lcd'.up = lcd.up /\ ~lcd'.glyphs
        /\ lcd'.ac = Start(row[t]) + col[t]
    BY <1>2, <2>1 DEF Lcd
  <2>3. step'[t] = 0
    BY <1>4, <1>7
  <2> QED
    BY <1>1, <1>2, <1>3, <2>1, <2>2, <2>3 DEF BootInv, ReadyInv
<1>8. CASE step[t] = 3 /\ ~moving[t]
  <2> DEFINE a == Start(row[t]) + col[t]
             m == [lcd.memory EXCEPT ![a] = Head(rest[t])]
  <2>1. /\ lcd' = [lcd EXCEPT !.half = None, !.memory = m, !.ac = Following(a)]
        /\ Forward(t)
    BY <1>0, <1>8, CharShown
  <2> HIDE DEF m
  <2>2. /\ lcd'.half = None /\ lcd'.wide = lcd.wide /\ lcd'.lines = lcd.lines
        /\ lcd'.on = lcd.on /\ lcd'.up = lcd.up /\ lcd'.glyphs = lcd.glyphs
        /\ lcd'.ac = Following(a)
    BY <1>2, <2>1 DEF Lcd
  <2>3. step'[t] = 0
    BY <1>4, <1>8
  <2>4. row[t] \in 0..SCREEN_HIGH - 1 /\ col[t] \in 0..SCREEN_WIDTH - 1
    BY DEF IInv, TypeOK
  <2>5. ~moving'[t] => lcd'.ac = Start(row'[t]) + col'[t]
    <3>1. CASE col[t] + 1 = SCREEN_WIDTH
      BY <2>1, <3>1 DEF Forward, IInv, TypeOK
    <3>2. CASE col[t] + 1 # SCREEN_WIDTH
      <4>1. row'[t] = row[t] /\ col'[t] = col[t] + 1 /\ col[t] + 1 < SCREEN_WIDTH
        <5>1. col' = [col EXCEPT ![t] = @ + 1] /\ row' = row
          BY <2>1, <3>2 DEF Forward
        <5>2. col \in [Task -> 0..SCREEN_WIDTH - 1]
          BY DEF IInv, TypeOK
        <5>3. col[t] + 1 < SCREEN_WIDTH
          BY <2>4, <3>2, SizeAssumption
        <5> QED
          BY <5>1, <5>2, <5>3
      <4>2. Following(a) = a + 1 /\ Start(row[t]) + (col[t] + 1) = a + 1
        BY <2>4, <4>1, PlaceAddress
      <4> QED
        BY <2>2, <4>1, <4>2
    <3> QED
      BY <3>1, <3>2
  <2> QED
    BY <1>1, <1>2, <1>3, <2>2, <2>3, <2>5 DEF BootInv, ReadyInv
<1> QED
  BY <1>6, <1>7, <1>8

LEMMA CallKeeps == ASSUME IInv, NEW t \in Task, vShowStringAt(t) PROVE IInv'
<1>1. TypeOK' /\ CallInv'
  BY BaseShow DEF IInv
<1>2. /\ Ready /\ Ready' /\ opened' = opened /\ sent' = sent
      /\ UNCHANGED <<port, lcd, step>>
      /\ clean' = (clean /\ \A u \in Task : ~Busy(u))
  BY DEF vShowStringAt, main, hardware, Ready
<1>3. t \in Thread /\ t # "app_main"
  BY TaskAssumption DEF Thread
<1>4. BootInv'
  BY <1>2 DEF BootInv
<1>5. SUFFICES ASSUME clean' PROVE AloneInv' /\ PortInv' /\ ReadyInv'
  BY <1>1, <1>4 DEF IInv, AloneInv, PortInv, ReadyInv
<1>6. clean /\ \A u \in Task : ~Busy(u)
  BY <1>2, <1>5
<1>7. \A u \in Thread : ~Writing(u) /\ step[u] = 0
  BY <1>2, <1>6 DEF Writing, Thread, Ready, IInv, CallInv
<1>8. \A u \in Task : u # t => ~Busy(u)'
  BY <1>6 DEF vShowStringAt, Busy, IInv, TypeOK
<1>9. \A u \in Thread : Writing(u)' => u = t
  BY <1>2, <1>8 DEF Writing, Thread, Ready
<1>10. AloneInv'
  BY <1>9 DEF AloneInv
<1>11. ~port.enable
  BY <1>2, <1>6, <1>7 DEF IInv, PortInv, Ready
<1>12. PortInv'
  BY <1>2, <1>3, <1>7, <1>9, <1>11 DEF PortInv
<1>13. moving'[t]
  BY DEF vShowStringAt, IInv, TypeOK
<1>14. ReadyInv'
  BY <1>2, <1>3, <1>6, <1>7, <1>8, <1>13 DEF IInv, ReadyInv
<1> QED
  BY <1>10, <1>12, <1>14

LEMMA RestartKeeps == IInv /\ Restart => IInv'
<1> SUFFICES ASSUME IInv, Restart PROVE IInv'
  OBVIOUS
<1>1. TypeOK' /\ CallInv'
  BY BaseRestart DEF IInv
<1>2. ~opened' /\ ~Ready'
  BY DEF Restart, Ready
<1>3. \A u \in Thread : ~Writing(u)'
  BY <1>1, <1>2 DEF CallInv, Writing, Thread
<1> QED
  BY <1>1, <1>2, <1>3 DEF IInv, AloneInv, PortInv, BootInv, ReadyInv

LEMMA IInvStep == IInv /\ [Next]_vars => IInv'
<1> SUFFICES ASSUME IInv, [Next]_vars PROVE IInv'
  OBVIOUS
<1>1. CASE vInitIO
  BY <1>1, OpenKeeps
<1>2. ASSUME NEW t \in Thread, Write(t)
      PROVE  IInv'
  <2>1. TypeOK' /\ CallInv'
    BY <1>2, BaseWrite DEF IInv
  <2>2. AloneInv' /\ PortInv'
    BY <1>2, WriteKeepsPort
  <2>3. BootInv' /\ ReadyInv'
    BY <1>2, BootKeeps, ShowKeeps DEF Thread
  <2> QED
    BY <2>1, <2>2, <2>3 DEF IInv
<1>3. CASE \E t \in Task : vShowStringAt(t)
  BY <1>3, CallKeeps
<1>4. CASE Restart
  BY <1>4, RestartKeeps
<1>5. CASE UNCHANGED vars
  BY <1>5 DEF vars, hardware, main, show, place, bounds, IInv, TypeOK, CallInv,
     AloneInv, PortInv, BootInv, ReadyInv, Ready, Busy, Writing, Held, IsData, InHand
<1> QED
  BY <1>1, <1>2, <1>3, <1>4, <1>5 DEF Next

LEMMA Invariance == Spec => []IInv
BY IInvInit, IInvStep, PTL DEF Spec

\* Whatever a restart found the display in, LCDIIC_vInit leaves it ready for
\* the texts, if its writes arrive.
THEOREM InitSettlesAlways == Spec => []InitSettles
<1>1. IInv => InitSettles
  BY DEF IInv, ReadyInv, InitSettles
<1> QED
  BY <1>1, Invariance, PTL

\* The program and the display never disagree on which half of a byte is next,
\* unless a write failed or two texts overlapped.
THEOREM InStepAlways == Spec => []InStep
<1>1. IInv => InStep
  <2> SUFFICES ASSUME IInv, Ready, clean PROVE InStep
    BY DEF InStep
  <2>1. ASSUME NEW t \in Task, Busy(t), step[t] \in {2, 3}
        PROVE  lcd.half # None
    <3>1. t \in Thread /\ Writing(t)
      BY <2>1, TaskAssumption DEF Thread, Writing
    <3>2. InHand(t) \div 16 \in Nibble
      BY <3>1, InHandType, Halves DEF IInv
    <3>3. lcd.half = InHand(t) \div 16
      BY <2>1 DEF IInv, ReadyInv
    <3> QED
      BY <3>2, <3>3 DEF Nibble, None
  <2>2. ASSUME \A t \in Task : ~(Busy(t) /\ step[t] \in {2, 3})
        PROVE  lcd.half = None
    <3>1. \A t \in Task : Busy(t) => step[t] \in {0, 1}
      BY <2>2 DEF IInv, TypeOK, Thread
    <3> QED
      BY <3>1 DEF IInv, ReadyInv
  <2> QED
    BY <2>1, <2>2 DEF InStep
<1> QED
  BY <1>1, Invariance, PTL
-----------------------------------------------------------------------------
(* The display is the screen that LCDIIC.h promises. *)

Places == (0..SCREEN_HIGH - 1) \X (0..SCREEN_WIDTH - 1)

Picture(m) == [p \in Places |-> m[Start(p[1]) + p[2]]]

Stored(m, r, c, b) == [m EXCEPT ![Start(r) + c] = b]
Drawn(picture, r, c, b) == [picture EXCEPT ![<<r, c>>] = b]

LEMMA PictureChanges ==
    ASSUME NEW m \in [Address -> 0..255], NEW r \in 0..SCREEN_HIGH - 1,
           NEW c \in 0..SCREEN_WIDTH - 1, NEW b
    PROVE  Picture(Stored(m, r, c, b)) = Drawn(Picture(m), r, c, b)
<1> DEFINE n == Stored(m, r, c, b)
           q == Drawn(Picture(m), r, c, b)
<1>1. q = [p \in Places |-> IF p = <<r, c>> THEN b ELSE m[Start(p[1]) + p[2]]]
  BY DEF Picture, Drawn
<1>2. ASSUME NEW p \in Places
      PROVE  n[Start(p[1]) + p[2]] = IF p = <<r, c>> THEN b ELSE m[Start(p[1]) + p[2]]
  <2>1. p[1] \in 0..SCREEN_HIGH - 1 /\ p[2] \in 0..SCREEN_WIDTH - 1 /\ p = <<p[1], p[2]>>
    BY DEF Places
  <2>2. Start(p[1]) + p[2] \in Address /\ Start(r) + c \in Address
    BY <2>1, PlaceAddress
  <2>3. Start(p[1]) + p[2] = Start(r) + c => p[1] = r /\ p[2] = c
    BY <2>1, PlacesDiffer
  <2>4. p = <<r, c>> <=> p[1] = r /\ p[2] = c
    BY <2>1
  <2> QED
    BY <2>2, <2>3, <2>4 DEF Stored
<1> HIDE DEF n, q
<1>3. Picture(n) = q
  BY <1>1, <1>2 DEF Picture
<1> QED
  BY <1>3 DEF n, q

LEMMA ScreenInit == Init => Shown!Init
BY DEF Init, Shown!Init, Shown!Idle, Ready

\* A step that spoils the display, or comes after one that did.
LEMMA Garbles == ~clean' => Shown!Next
BY DEF Shown!Next, Shown!Garble

LEMMA OpenShows == IInv /\ vInitIO => [Shown!Next]_Shown!svars
<1> SUFFICES ASSUME IInv, vInitIO, clean' PROVE Shown!Prepare
  BY Garbles DEF Shown!Next
<1>1. ~Ready /\ ~Ready'
  BY CommandFacts DEF vInitIO, IInv, CallInv, Ready
<1>2. UNCHANGED <<rest, row, col>>
  BY DEF vInitIO, show, place
<1>3. clean' = clean
  BY DEF vInitIO, writeI2CData
<1> QED
  BY <1>1, <1>2, <1>3 DEF Shown!Prepare

LEMMA BootShows == IInv /\ Write("app_main") => [Shown!Next]_Shown!svars
<1> SUFFICES ASSUME IInv, Write("app_main"), clean'
             PROVE  Shown!Prepare \/ Shown!Appear
  BY Garbles DEF Shown!Next
<1>1. "app_main" \in Thread
  BY DEF Thread
<1>2. clean /\ opened /\ opened' /\ ~Ready /\ sent \in 0..5
  <2>1. clean /\ opened /\ Writing("app_main") /\ opened'
    BY <1>1, CleanWrite DEF Write
  <2> QED
    BY <2>1, CommandFacts DEF Writing, Ready, IInv, TypeOK
<1>3. UNCHANGED <<rest, row, col>>
  BY DEF Write, Return, place
<1>4. CASE ~Ready'
  BY <1>2, <1>3, <1>4 DEF Shown!Prepare
<1>5. CASE Ready'
  <2>1. sent' = 6
    BY <1>5, CommandFacts DEF Ready
  <2>2. step["app_main"] = 3 /\ sent = 5
    BY <1>2, <2>1 DEF Write, Return
  <2>3. lcd'.memory = [a \in Address |-> Blank]
    BY <1>2, <2>2, BootSets
  <2>4. ASSUME NEW p \in Places
        PROVE  lcd'.memory[Start(p[1]) + p[2]] = Blank
    <3>1. Start(p[1]) + p[2] \in Address
      BY PlaceAddress DEF Places
    <3> QED
      BY <2>3, <3>1
  <2>5. [p \in Places |-> lcd'.memory[Start(p[1]) + p[2]]] = [p \in Places |-> Blank]
    BY <2>4
  <2> QED
    BY <1>2, <1>3, <1>5, <2>5 DEF Shown!Appear, Shown!Cell, Places
<1> QED
  BY <1>4, <1>5

LEMMA WriteShows ==
    ASSUME IInv, NEW t \in Task, Write(t)
    PROVE  [Shown!Next]_Shown!svars
<1>1. SUFFICES ASSUME clean' PROVE UNCHANGED Shown!svars \/ Shown!Type(t)
  BY Garbles DEF Shown!Next
<1>2. clean /\ Ready /\ Ready' /\ Busy(t) /\ t \in Thread /\ t # "app_main"
  BY <1>1, ShowTaken
<1>3. lcd \in Lcd /\ row[t] \in 0..SCREEN_HIGH - 1 /\ col[t] \in 0..SCREEN_WIDTH - 1
      /\ step[t] \in 0..3 /\ lcd.memory \in [Address -> 0..255]
  BY <1>2 DEF IInv, TypeOK, Lcd
<1>4. ASSUME lcd'.memory = lcd.memory, UNCHANGED <<rest, row, col>>
      PROVE  UNCHANGED Shown!svars
  BY <1>1, <1>2, <1>4 DEF Shown!svars
<1>5. CASE step[t] # 3
  <2>1. UNCHANGED <<rest, row, col>>
    BY <1>5 DEF Write, place
  <2>2. lcd' = lcd \/ lcd' = [lcd EXCEPT !.half = InHand(t) \div 16]
    BY <1>1, <1>3, <1>5, ShowTaken
  <2>3. lcd'.memory = lcd.memory
    BY <1>3, <2>2 DEF Lcd
  <2> QED
    BY <1>4, <2>1, <2>3
<1>6. CASE step[t] = 3 /\ moving[t]
  <2>1. /\ lcd' = [lcd EXCEPT !.half = None, !.ac = Start(row[t]) + col[t],
                              !.glyphs = FALSE]
        /\ UNCHANGED <<rest, row, col>>
    BY <1>1, <1>6, CursorSet
  <2>2. lcd'.memory = lcd.memory
    BY <1>3, <2>1 DEF Lcd
  <2> QED
    BY <1>4, <2>1, <2>2
<1>7. CASE step[t] = 3 /\ ~moving[t]
  <2> DEFINE a == Start(row[t]) + col[t]
             m == [lcd.memory EXCEPT ![a] = Head(rest[t])]
  <2>1. /\ lcd' = [lcd EXCEPT !.half = None, !.memory = m, !.ac = Following(a)]
        /\ rest' = [rest EXCEPT ![t] = Tail(@)]
        /\ Forward(t)
        /\ rest[t] \in Seq(Char) /\ rest[t] # <<>>
    BY <1>1, <1>7, CharShown
  <2>2. Picture(m) = Drawn(Picture(lcd.memory), row[t], col[t], Head(rest[t]))
    <3>1. m = Stored(lcd.memory, row[t], col[t], Head(rest[t]))
      BY DEF Stored
    <3> HIDE DEF m
    <3> QED
      BY <1>3, <3>1, PictureChanges
  <2> HIDE DEF m
  <2>3. lcd'.memory = m
    BY <1>3, <2>1 DEF Lcd
  <2>4. Picture(lcd'.memory)
          = [Picture(lcd.memory) EXCEPT ![<<row[t], col[t]>>] = Head(rest[t])]
    BY <2>2, <2>3 DEF Drawn
  <2>5. <<row'[t], col'[t]>> = Shown!After(row[t], col[t])
    <3>1. CASE col[t] + 1 = SCREEN_WIDTH
      <4>1. col'[t] = 0 /\ row'[t] = IF row[t] + 1 = SCREEN_HIGH THEN 0 ELSE row[t] + 1
        BY <2>1, <3>1 DEF Forward, IInv, TypeOK
      <4>2. (row[t] + 1) % SCREEN_HIGH
              = IF row[t] + 1 = SCREEN_HIGH THEN 0 ELSE row[t] + 1
        BY <1>3, SizeAssumption
      <4>3. ~(col[t] + 1 < SCREEN_WIDTH)
        BY <3>1, <1>3, SizeAssumption
      <4> QED
        BY <4>1, <4>2, <4>3 DEF Shown!After
    <3>2. CASE col[t] + 1 # SCREEN_WIDTH
      <4>1. col' = [col EXCEPT ![t] = @ + 1] /\ row' = row
        BY <2>1, <3>2 DEF Forward
      <4>2. col[t] + 1 < SCREEN_WIDTH
        BY <1>3, <3>2, SizeAssumption
      <4>3. col'[t] = col[t] + 1 /\ row'[t] = row[t]
        BY <4>1 DEF IInv, TypeOK
      <4> QED
        BY <4>2, <4>3 DEF Shown!After
    <3> QED
      BY <3>1, <3>2
  <2>6. \A u \in Task : u # t => rest'[u] = rest[u] /\ row'[u] = row[u] /\ col'[u] = col[u]
    <3>1. \A u \in Task : u \in Thread /\ u # "app_main"
      BY TaskAssumption DEF Thread
    <3> QED
      BY <1>2, <3>1, OthersStay DEF IInv
  <2>7. rest'[t] = Tail(rest[t])
    BY <2>1 DEF IInv, TypeOK
  <2> DEFINE Typing == [u \in Task |-> [text |-> rest[u], row |-> row[u], col |-> col[u]]]
  <2>8. Typing' = [Typing EXCEPT ![t] = [text |-> Tail(rest[t]),
                                         row |-> Shown!After(row[t], col[t])[1],
                                         col |-> Shown!After(row[t], col[t])[2]]]
    <3>1. /\ Shown!After(row[t], col[t])[1] = row'[t]
          /\ Shown!After(row[t], col[t])[2] = col'[t]
      BY <2>5
    <3> QED
      BY <2>6, <2>7, <3>1
  <2>9. /\ Typing[t].row = row[t] /\ Typing[t].col = col[t] /\ Typing[t].text = rest[t]
    OBVIOUS
  <2>10. Shown!Type(t)
    BY <1>1, <1>2, <2>1, <2>4, <2>8, <2>9 DEF Shown!Type, Shown!Idle, Picture, Places
  <2> QED
    BY <2>10
<1> QED
  BY <1>5, <1>6, <1>7

LEMMA CallShows ==
    ASSUME IInv, NEW t \in Task, vShowStringAt(t)
    PROVE  [Shown!Next]_Shown!svars
<1>1. SUFFICES ASSUME clean' PROVE Shown!Begin(t)
  BY Garbles DEF Shown!Next
<1>2. clean /\ \A u \in Task : rest[u] = <<>>
  BY <1>1 DEF vShowStringAt, Busy
<1>3. /\ Ready /\ Ready' /\ lcd' = lcd
      /\ \A u \in Task \ {t} : rest'[u] = rest[u] /\ row'[u] = row[u] /\ col'[u] = col[u]
  BY DEF vShowStringAt, main, hardware, Ready, IInv, TypeOK
<1>4. rest'[t] # <<>>
  <2>1. Calls[t] \in Seq(Call)
    BY CallsAssumption
  <2>2. Len(Calls[t]) \in Nat
    BY <2>1
  <2>3. at[t] \in 1..Len(Calls[t])
    BY <2>2 DEF vShowStringAt, IInv, TypeOK
  <2>4. rest'[t] = Calls[t][at[t]].text
    BY DEF vShowStringAt, IInv, TypeOK
  <2> QED
    BY <2>3, <2>4, CallsAssumption
<1> QED
  BY <1>1, <1>2, <1>3, <1>4 DEF Shown!Begin, Shown!Idle

LEMMA RestartShows == IInv /\ Restart => [Shown!Next]_Shown!svars
<1> SUFFICES ASSUME IInv, Restart PROVE Shown!Restart
  BY DEF Shown!Next
<1>1. ~Ready' /\ clean' /\ lcd' = lcd /\ \A t \in Task : rest'[t] = <<>>
  BY DEF Restart, Ready, hardware
<1> QED
  BY <1>1 DEF Shown!Restart

\* What the writes to the port do is what LCDIIC.h promises of the display: each
\* text appears character by character where it was asked for, over the end of
\* a row, and nothing else changes, until a write fails or two texts overlap.
THEOREM ImplementsScreen == Spec => IsScreen
<1>1. IInv /\ [Next]_vars => [Shown!Next]_Shown!svars
  <2> SUFFICES ASSUME IInv, [Next]_vars PROVE [Shown!Next]_Shown!svars
    OBVIOUS
  <2>1. CASE vInitIO
    BY <2>1, OpenShows
  <2>2. CASE \E t \in Thread : Write(t)
    BY <2>2, BootShows, WriteShows DEF Thread
  <2>3. CASE \E t \in Task : vShowStringAt(t)
    BY <2>3, CallShows
  <2>4. CASE Restart
    BY <2>4, RestartShows
  <2>5. CASE UNCHANGED vars
    BY <2>5 DEF vars, hardware, main, show, place, Shown!svars, Ready
  <2> QED
    BY <2>1, <2>2, <2>3, <2>4, <2>5 DEF Next
<1> QED
  BY <1>1, ScreenInit, Invariance, PTL DEF Spec, IsScreen, Shown!Spec
=============================================================================
