---------------------------- MODULE IndoorStation ----------------------------
(***************************************************************************)
(* The indoor station's sketch: onData, which the broker calls for every   *)
(* message, and loop, which puts on the display what onData has left.      *)
(* loop does not yield between its reads, so each is one step.             *)
(***************************************************************************)
EXTENDS Integers

CONSTANTS
    ClockWrap,       \* the values of an unsigned long, 2^32
    Incoming         \* the messages: a topic, and the wake-up it was sent in

ASSUME ClockAssumption == ClockWrap \in Nat /\ ClockWrap % 2 = 0 /\ ClockWrap > 0
ASSUME MessageAssumption == \A m \in Incoming : m.wake \in Nat

VARIABLES
    millis,          \* millis()
    lastSeen,        \* outdoorLastSeenMillis
    value,           \* the other globals: of each topic that is shown the last value, by
                     \* the wake-up it was sent in, 0 if none was received
    screen,          \* what the display shows
    age              \* observed: the time since the last rssi, at most ClockWrap; -1 if none came

indoor == <<millis, lastSeen, value, screen, age>>

Shown == {"rssi", "percent", "voltage", "uptime", "temperature", "humidity", "hPa"}

\* An unsigned long as a long.
AsLong(n) == IF n < ClockWrap \div 2 THEN n ELSE n - ClockWrap

Booting == [text |-> "Booting..."]

\* Before the broker is there setup has taken some time.
IndoorInit == /\ millis = 1 /\ lastSeen = 0 /\ age = -1
              /\ value = [t \in Shown |-> 0]
              /\ screen = Booting

\* Mutant of onData: millis is kept unsigned.
OnDataUnsigned(m) ==
    /\ value' = [t \in Shown |-> IF t = m.topic THEN m.wake ELSE value[t]]
    /\ lastSeen' = IF m.topic = "rssi" THEN millis ELSE lastSeen
    /\ age' = IF m.topic = "rssi" THEN 0 ELSE age
    /\ UNCHANGED <<millis, screen>>

\* The topics that are not shown, the broker's own among them, change nothing.
onData(m) ==
    /\ value' = [t \in Shown |-> IF t = m.topic THEN m.wake ELSE value[t]]
    /\ lastSeen' = IF m.topic = "rssi" THEN AsLong(millis) ELSE lastSeen
    /\ age' = IF m.topic = "rssi" THEN 0 ELSE age
    /\ UNCHANGED <<millis, screen>>

\* Mutant of Text: the difference of two longs.
TextSigned == IF lastSeen <= 0
              THEN [text |-> "Not seen yet."]
              ELSE [text |-> "Seen", ago |-> AsLong(millis) - lastSeen, value |-> value]

\* The text of loop: lastSeenSeconds is an unsigned difference.
Text == IF lastSeen <= 0
        THEN [text |-> "Not seen yet."]
        ELSE [text |-> "Seen", ago |-> (millis - lastSeen) % ClockWrap, value |-> value]

loop == screen' = Text /\ UNCHANGED <<millis, lastSeen, value, age>>

Tick == /\ millis' = (millis + 1) % ClockWrap
        /\ age' = IF age \in 0..ClockWrap - 1 THEN age + 1 ELSE age
        /\ UNCHANGED <<lastSeen, value, screen>>

Reboot == /\ millis' = 1 /\ lastSeen' = 0 /\ age' = -1
          /\ value' = [t \in Shown |-> 0]
          /\ screen' = Booting

IndoorNext == (\E m \in Incoming : onData(m)) \/ loop \/ Tick \/ Reboot

IndoorSpec == IndoorInit /\ [][IndoorNext]_indoor

-----------------------------------------------------------------------------
Wakes == {0} \cup {m.wake : m \in Incoming}
IndoorTypeOK ==
    /\ millis \in 0..ClockWrap - 1
    /\ lastSeen \in -(ClockWrap \div 2)..ClockWrap \div 2 - 1
    /\ value \in [Shown -> Wakes]
    /\ screen.text \in {"Booting...", "Not seen yet.", "Seen"}
    /\ screen.text = "Seen" => screen.ago \in 0..ClockWrap - 1 /\ screen.value \in [Shown -> Wakes]
    /\ age \in -1..ClockWrap

\* The seconds on the display are right as long as they fit: also after millis has passed
\* its sign bit, and its end, since the station was seen.
SeenAgoIsRight ==
    [][screen' # screen /\ screen'.text = "Seen" /\ age < ClockWrap => screen'.ago = age]_indoor
=============================================================================
