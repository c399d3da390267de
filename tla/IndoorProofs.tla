----------------------------- MODULE IndoorProofs -----------------------------
(***************************************************************************)
(* The age that the indoor station shows is right, for every width of its  *)
(* clock and any messages at any time, however often the clock has wrapped *)
(* and whenever the display is drawn.                                      *)
(***************************************************************************)
EXTENDS IndoorStation, TLAPS

-----------------------------------------------------------------------------
(* Arithmetic *)

LEMMA ClockModType ==
    ASSUME NEW n \in Int
    PROVE  n % ClockWrap \in 0..ClockWrap - 1
BY ClockAssumption

LEMMA ClockModQuotient ==
    ASSUME NEW n \in Int
    PROVE  \E q \in Int : n = ClockWrap * q + (n % ClockWrap)
<1>1. n \div ClockWrap \in Int /\ n = ClockWrap * (n \div ClockWrap) + (n % ClockWrap)
    BY ClockAssumption
<1> QED BY <1>1

LEMMA ClockModUnique ==
    ASSUME NEW q \in Int, NEW r \in 0..ClockWrap - 1
    PROVE  ((ClockWrap * q) + r) % ClockWrap = r
<1>1. ClockWrap \in Nat \ {0}
    BY ClockAssumption
<1> QED BY <1>1

LEMMA SignedType ==
    ASSUME NEW n \in 0..ClockWrap - 1
    PROVE  /\ AsLong(n) \in -(ClockWrap \div 2)..ClockWrap \div 2 - 1
           /\ \E q \in Int : AsLong(n) = n + ClockWrap * q
<1>1. AsLong(n) \in -(ClockWrap \div 2)..ClockWrap \div 2 - 1
    BY ClockAssumption DEF AsLong
<1>2. CASE n < ClockWrap \div 2
    <2>1. AsLong(n) = n + ClockWrap * 0
        BY <1>2, ClockAssumption DEF AsLong
    <2> QED BY <1>1, <2>1
<1>3. CASE ~(n < ClockWrap \div 2)
    <2>1. AsLong(n) = n + ClockWrap * (-1)
        BY <1>3, ClockAssumption DEF AsLong
    <2> QED BY <1>1, <2>1
<1> QED BY <1>2, <1>3

-----------------------------------------------------------------------------
(* The inductive invariant *)

\* The types that the age depends on, and the age of the time that is remembered: it is
\* right modulo the width of the clock.
Clock == /\ millis \in 0..ClockWrap - 1
         /\ lastSeen \in -(ClockWrap \div 2)..ClockWrap \div 2 - 1
         /\ age \in -1..ClockWrap
Aged == /\ age = -1 => lastSeen = 0
        /\ age \in 0..ClockWrap - 1 => \E q \in Int : millis - lastSeen = age + ClockWrap * q

LEMMA ClockInit == ASSUME IndoorInit PROVE Clock /\ Aged
BY ClockAssumption DEF IndoorInit, Clock, Aged

LEMMA ClockNext ==
    ASSUME Clock, Aged, [IndoorNext]_indoor
    PROVE  Clock' /\ Aged'
<1>1. ClockWrap \in Nat /\ ClockWrap > 1
    BY ClockAssumption
<1>2. ASSUME NEW m \in Incoming, onData(m) PROVE Clock' /\ Aged'
    <2>1. CASE m.topic = "rssi"
        <3>1. millis' = millis /\ lastSeen' = AsLong(millis) /\ age' = 0
            BY <1>2, <2>1 DEF onData
        <3>2. Clock'
            BY <1>1, <3>1, SignedType DEF Clock
        <3>3. PICK q \in Int : AsLong(millis) = millis + ClockWrap * q
            BY SignedType DEF Clock
        <3>4. millis' - lastSeen' = age' + ClockWrap * (-q) /\ -q \in Int
            BY <1>1, <3>1, <3>3 DEF Clock
        <3> QED BY <3>1, <3>2, <3>4 DEF Aged
    <2>2. CASE m.topic # "rssi"
        BY <1>2, <2>2 DEF onData, Clock, Aged
    <2> QED BY <2>1, <2>2
<1>3. CASE loop \/ UNCHANGED indoor
    BY <1>3 DEF loop, indoor, Clock, Aged
<1>4. CASE Tick
    <2>1. millis + 1 \in Int
        BY DEF Clock
    <2>2. Clock'
        BY <1>1, <1>4, <2>1, ClockModType DEF Tick, Clock
    <2>3. CASE age = -1
        <3>1. age' = -1 /\ lastSeen' = lastSeen
            BY <1>1, <1>4, <2>3 DEF Tick
        <3> QED BY <2>2, <2>3, <3>1 DEF Aged
    <2>4. ASSUME age' \in 0..ClockWrap - 1, age # -1
          PROVE  \E q \in Int : millis' - lastSeen' = age' + ClockWrap * q
        <3>1. age \in 0..ClockWrap - 1 /\ age' = age + 1 /\ lastSeen' = lastSeen
            BY <1>1, <1>4, <2>4 DEF Tick, Clock
        <3>2. PICK q \in Int : millis - lastSeen = age + ClockWrap * q
            BY <3>1 DEF Aged
        <3>3. PICK p \in Int : millis + 1 = ClockWrap * p + ((millis + 1) % ClockWrap)
            BY <2>1, ClockModQuotient
        <3>4. millis' \in Int /\ millis + 1 = ClockWrap * p + millis'
            BY <1>4, <2>2, <3>3 DEF Tick, Clock
        <3>5. PICK k \in Int : k = q - p
            OBVIOUS
        <3>6. ClockWrap * k = ClockWrap * q - ClockWrap * p
            BY <1>1, <3>5
        <3>7. ClockWrap * q \in Int /\ ClockWrap * p \in Int
            BY <1>1
        <3>8. millis' - lastSeen' = age' + ClockWrap * k
            BY <3>1, <3>2, <3>4, <3>6, <3>7 DEF Clock
        <3> QED BY <3>8
    <2>5. age' = -1 => age = -1
        BY <1>4 DEF Tick, Clock
    <2> QED BY <2>2, <2>3, <2>4, <2>5 DEF Aged
<1>5. CASE Reboot
    BY <1>1, <1>5 DEF Reboot, Clock, Aged
<1> QED BY <1>2, <1>3, <1>4, <1>5 DEF IndoorNext

\* A display that is drawn shows the age.
LEMMA DrawnRight ==
    ASSUME Clock, Aged, [IndoorNext]_indoor
    PROVE  [screen' # screen /\ screen'.text = "Seen" /\ age < ClockWrap => screen'.ago = age]_indoor
<1> SUFFICES ASSUME IndoorNext, screen' # screen, screen'.text = "Seen", age < ClockWrap
             PROVE  screen'.ago = age
    BY DEF indoor
<1>1. loop
    BY DEF IndoorNext, onData, loop, Tick, Reboot, Booting
<1>2. ~(lastSeen <= 0) /\ screen'.ago = (millis - lastSeen) % ClockWrap
    BY <1>1 DEF loop, Text
<1>3. age \in 0..ClockWrap - 1
    BY <1>2, ClockAssumption DEF Clock, Aged
<1>4. PICK q \in Int : millis - lastSeen = age + ClockWrap * q
    BY <1>3 DEF Aged
<1>5. ((ClockWrap * q) + age) % ClockWrap = age
    BY <1>3, ClockModUnique
<1>6. millis - lastSeen = (ClockWrap * q) + age
    BY <1>3, <1>4, ClockAssumption
<1> QED BY <1>2, <1>5, <1>6

\* The age on the display of the indoor station is the age of the rssi last received, as long
\* as it fits into the clock's width: after millis has passed its sign bit, and its end.
THEOREM AgeCorrect == IndoorSpec => SeenAgoIsRight
<1>1. IndoorInit => Clock /\ Aged
    BY ClockInit
<1>2. Clock /\ Aged /\ [IndoorNext]_indoor => (Clock /\ Aged)'
    BY ClockNext
<1>3. Clock /\ Aged /\ [IndoorNext]_indoor
        => [screen' # screen /\ screen'.text = "Seen" /\ age < ClockWrap => screen'.ago = age]_indoor
    BY DrawnRight
<1> QED BY <1>1, <1>2, <1>3, PTL DEF IndoorSpec, SeenAgoIsRight
-----------------------------------------------------------------------------
(* The types *)

LEMMA ClockType == ASSUME IndoorTypeOK PROVE Clock
BY DEF IndoorTypeOK, Clock

LEMMA TextType ==
    ASSUME IndoorTypeOK
    PROVE  /\ Text.text \in {"Not seen yet.", "Seen"}
           /\ Text.text = "Seen" => Text.ago \in 0..ClockWrap - 1 /\ Text.value \in [Shown -> Wakes]
<1>1. CASE lastSeen <= 0
    BY <1>1 DEF Text
<1>2. CASE ~(lastSeen <= 0)
    <2>1. millis - lastSeen \in Int
        BY ClockType, ClockAssumption DEF Clock
    <2>2. (millis - lastSeen) % ClockWrap \in 0..ClockWrap - 1
        BY <2>1, ClockModType
    <2> QED BY <1>2, <2>2 DEF Text, IndoorTypeOK
<1> QED BY <1>1, <1>2

\* The globals, the clock and what is drawn keep their types.
THEOREM IndoorTypeCorrect == IndoorSpec => []IndoorTypeOK
<1>1. ASSUME IndoorInit PROVE IndoorTypeOK
    BY <1>1, ClockAssumption DEF IndoorInit, IndoorTypeOK, Booting, Wakes
<1>2. ASSUME IndoorTypeOK, [IndoorNext]_indoor PROVE IndoorTypeOK'
    <2>1. ASSUME NEW m \in Incoming, onData(m) PROVE IndoorTypeOK'
        <3>1. m.wake \in Wakes
            BY DEF Wakes
        <3>2. value' \in [Shown -> Wakes]
            BY <1>2, <2>1, <3>1 DEF onData, IndoorTypeOK
        <3>3. lastSeen' \in -(ClockWrap \div 2)..ClockWrap \div 2 - 1
            BY <1>2, <2>1, SignedType DEF onData, IndoorTypeOK
        <3>4. age' \in -1..ClockWrap
            BY <1>2, <2>1, ClockType, ClockAssumption DEF onData, Clock
        <3> QED BY <1>2, <2>1, <3>2, <3>3, <3>4 DEF onData, IndoorTypeOK
    <2>2. CASE loop
        BY <1>2, <2>2, TextType DEF loop, IndoorTypeOK
    <2>3. CASE Tick
        <3>1. millis + 1 \in Int
            BY <1>2, ClockType DEF Clock
        <3>2. millis' \in 0..ClockWrap - 1
            BY <2>3, <3>1, ClockModType DEF Tick
        <3>3. age' \in -1..ClockWrap
            BY <1>2, <2>3, ClockType, ClockAssumption DEF Tick, Clock
        <3> QED BY <1>2, <2>3, <3>2, <3>3 DEF Tick, IndoorTypeOK
    <2>4. CASE Reboot
        BY <2>4, ClockAssumption DEF Reboot, IndoorTypeOK, Booting, Wakes
    <2>5. CASE UNCHANGED indoor
        BY <1>2, <2>5 DEF indoor, IndoorTypeOK
    <2> QED BY <1>2, <2>1, <2>2, <2>3, <2>4, <2>5 DEF IndoorNext
<1> QED BY <1>1, <1>2, PTL DEF IndoorSpec
=============================================================================
