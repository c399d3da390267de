--------------------------- MODULE OutdoorStation ---------------------------
(***************************************************************************)
(* The outdoor station's sketch.  Each wake-up is a boot: RAM begins anew, *)
(* only the RTC memory has been kept.  The sketch looks for WiFi and       *)
(* broker, each for a bounded number of times, publishes whether they are  *)
(* there or not, stores its uptime and sleeps.  It may be reset at any     *)
(* point, lose its power, and lose its connection between two messages.    *)
(***************************************************************************)
EXTENDS Integers, Sequences

CONSTANTS
    Wrap,            \* the values of an unsigned long, 2^32
    Base,            \* the initial deepSleepMillis, a multiple of 4
    Levels,          \* the charges of the battery that occur, in percent
    MaxAwake,        \* the bound on how long a wake-up lasts
    MaxElapsed       \* the bound on the time since the last power-on

ASSUME WrapAssumption == Wrap \in Nat /\ Wrap % 2 = 0 /\ Wrap > 0
ASSUME BaseAssumption == Base \in Nat /\ Base % 4 = 0 /\ Base > 0
ASSUME LevelsAssumption == Levels \subseteq 0..100
ASSUME BoundsAssumption == MaxAwake \in Nat /\ MaxElapsed \in Nat

VARIABLES
    ram,             \* what the sketch keeps in RAM, and the state of its connection
    rtc,             \* the RTC memory: the stored millis, and whether its checksum is right
    published,       \* observed: the uptime last published, unless it was lost with RAM
    elapsed,         \* observed: the time since the last power-on
    uncounted        \* observed: the part of it that the uptime misses, modulo Wrap

vars == <<ram, rtc, published, elapsed, uncounted>>
observed == <<elapsed, uncounted>>

\* Mutant of Topics: the sensors come first.
TopicsSensorsFirst == <<"temperature", "humidity", "hPa", "altitude", "seaLevel",
                        "rssi", "raw", "percent", "voltage", "uptime">>

\* The topics below weather-station/outdoor1, in the order of publication.
Topics == <<"rssi", "raw", "percent", "voltage", "uptime",
            "temperature", "humidity", "hPa", "altitude", "seaLevel">>

\* An unsigned long as itoa takes it.
Signed(n) == IF n < Wrap \div 2 THEN n ELSE n - Wrap

Stages == {"setup", "wifi", "mqtt", "publish", "close", "store", "stored", "asleep"}

\* The globals as they are loaded at a boot.
Booted == [at |-> "setup", millis |-> 0, deepSleep |-> Base, clock |-> 0, retry |-> 0,
           server |-> "name", connected |-> FALSE, next |-> 1]

Init == /\ ram = Booted
        /\ rtc = [valid |-> FALSE, millis |-> 0]
        /\ published = <<>>
        /\ elapsed = 0 /\ uncounted = 0

\* Time passes while the sketch waits or works.
Passes(d) == /\ ram.clock + d <= MaxAwake /\ elapsed + d <= MaxElapsed
             /\ elapsed' = elapsed + d

(***************************************************************************)
(* setup                                                                   *)
(***************************************************************************)
\* Mutant of setup: the checksum is not looked at.
SetupUnchecked ==
    /\ ram.at = "setup"
    /\ ram' = [ram EXCEPT !.millis = rtc.millis, !.at = "wifi"]
    /\ uncounted' = IF rtc.valid THEN uncounted ELSE elapsed % Wrap
    /\ UNCHANGED <<rtc, published, elapsed>>

setup ==
    /\ ram.at = "setup"
    /\ ram' = [ram EXCEPT !.millis = IF rtc.valid THEN rtc.millis ELSE 0, !.at = "wifi"]
    /\ uncounted' = IF rtc.valid THEN uncounted ELSE elapsed % Wrap
    /\ UNCHANGED <<rtc, published, elapsed>>

(***************************************************************************)
(* loop                                                                    *)
(***************************************************************************)
\* Each round ends in delay(500).
WifiRetry(d) ==
    /\ ram.at = "wifi" /\ ram.retry <= 10
    /\ ram' = [ram EXCEPT !.retry = @ + 1, !.clock = @ + d]
    /\ Passes(d)
    /\ UNCHANGED <<rtc, published, uncounted>>

WifiFails ==
    /\ ram.at = "wifi" /\ ram.retry > 10
    /\ ram' = [ram EXCEPT !.at = "publish"]
    /\ UNCHANGED <<rtc, published, observed>>

WifiConnected ==
    /\ ram.at = "wifi"
    /\ ram' = [ram EXCEPT !.at = "mqtt", !.retry = 0]
    /\ UNCHANGED <<rtc, published, observed>>

\* Mutant of MqttRetry: it is not counted.
MqttRetryForever(ok, d) ==
    /\ ram.at = "mqtt" /\ ~ram.connected /\ ram.retry <= 3
    /\ ram' = [ram EXCEPT !.connected = ok, !.clock = @ + d]
    /\ Passes(d)
    /\ UNCHANGED <<rtc, published, uncounted>>

\* client.connect, and what follows it whether or not it succeeded.
MqttRetry(ok, d) ==
    /\ ram.at = "mqtt" /\ ~ram.connected /\ ram.retry <= 3
    /\ ram' = [ram EXCEPT !.connected = ok /\ ram.retry # 2,
                          !.server = IF ram.retry = 2 THEN "ip" ELSE @,
                          !.retry = @ + 1, !.clock = @ + d]
    /\ Passes(d)
    /\ UNCHANGED <<rtc, published, uncounted>>

\* The last attempt: mqttConnected, which is set here, is only logged.
MqttLastTry(ok, d) ==
    /\ ram.at = "mqtt" /\ ~ram.connected /\ ram.retry > 3
    /\ ram' = [ram EXCEPT !.connected = ok, !.at = "publish", !.clock = @ + d]
    /\ Passes(d)
    /\ UNCHANGED <<rtc, published, uncounted>>

MqttConnected ==
    /\ ram.at = "mqtt" /\ ram.connected
    /\ ram' = [ram EXCEPT !.at = "publish"]
    /\ UNCHANGED <<rtc, published, observed>>

\* updateSystemStats scales the global between the messages "raw" and "percent".
DeepSleep(level) ==
    CASE level > 95 -> Base \div 4
      [] level \in 91..95 -> Base \div 2
      [] level \in 81..90 -> Base
      [] level \in 71..80 -> Base * 2
      [] level \in 61..70 -> Base * 3
      [] level \in 51..60 -> Base * 5
      [] OTHER -> Base * 10

\* What is published and stored as the uptime: it includes the sleep to come.
Uptime == (ram.millis + ram.deepSleep + ram.clock) % Wrap

\* updateSystemStats and updateSensor, message by message: it leaves if there is a
\* connection.
Sends == ram.at = "publish" /\ ram.connected

Publish(level, d) ==
    LET topic == Topics[ram.next]
    IN  /\ ram.at = "publish"
        /\ ram' = [ram EXCEPT !.deepSleep = IF topic = "raw" THEN DeepSleep(level) ELSE @,
                              !.next = IF @ < Len(Topics) THEN @ + 1 ELSE 1,
                              !.at = IF ram.next = Len(Topics) THEN "close" ELSE @,
                              !.clock = @ + d]
        /\ Passes(d)
        /\ published' = IF topic = "uptime" THEN <<Signed(Uptime)>> ELSE published
        /\ UNCHANGED <<rtc, uncounted>>

\* client.loop, delay(1000), disconnect; the wait for the end is bounded.
Close(d) ==
    /\ ram.at = "close"
    /\ ram' = [ram EXCEPT !.connected = FALSE, !.at = "store", !.clock = @ + d]
    /\ Passes(d)
    /\ UNCHANGED <<rtc, published, uncounted>>

\* Mutant of Store: the sleep to come is left out.
StoreTimeAwake ==
    /\ ram.at = "store"
    /\ ram' = [ram EXCEPT !.millis = (@ + ram.clock) % Wrap, !.at = "stored"]
    /\ rtc' = [valid |-> TRUE, millis |-> (ram.millis + ram.clock) % Wrap]
    /\ UNCHANGED <<published, observed>>

Store ==
    /\ ram.at = "store"
    /\ ram' = [ram EXCEPT !.millis = Uptime, !.at = "stored"]
    /\ rtc' = [valid |-> TRUE, millis |-> Uptime]
    /\ UNCHANGED <<published, observed>>

\* The time between the store and ESP.deepSleep is not counted.
FallAsleep(d) ==
    /\ ram.at = "stored"
    /\ ram' = [ram EXCEPT !.at = "asleep", !.clock = @ + d]
    /\ Passes(d)
    /\ uncounted' = (uncounted + d) % Wrap
    /\ UNCHANGED <<rtc, published>>

(***************************************************************************)
(* The timer of the RTC, resets and power.                                 *)
(***************************************************************************)
\* The timer ends the sleep, or the reset button does so earlier: that sleep is counted
\* in full all the same.
WakeUp(slept) ==
    /\ ram.at = "asleep"
    /\ elapsed + slept <= MaxElapsed
    /\ ram' = Booted
    /\ elapsed' = elapsed + slept
    /\ uncounted' = (uncounted + slept - ram.deepSleep) % Wrap
    /\ UNCHANGED <<rtc, published>>

\* A reset before the uptime is stored, or in the middle of its being written.
Reset ==
    /\ ram.at \notin {"stored", "asleep"}
    /\ ram' = Booted
    /\ \/ ram.at = "store" /\ rtc' = [rtc EXCEPT !.valid = FALSE]
       \/ UNCHANGED rtc
    /\ published' = <<>>
    /\ uncounted' = (uncounted + ram.clock) % Wrap
    /\ UNCHANGED elapsed

\* A reset afterwards: the sleep that was counted does not come.
ResetStored ==
    /\ ram.at = "stored"
    /\ ram' = Booted
    /\ uncounted' = (uncounted - ram.deepSleep) % Wrap
    /\ UNCHANGED <<rtc, published, elapsed>>

PowerOn ==
    /\ ram' = Booted
    /\ rtc' = [valid |-> FALSE, millis |-> 0]
    /\ published' = <<>> /\ elapsed' = 0 /\ uncounted' = 0

\* The connection breaks.
ConnectionLost ==
    /\ ram.connected
    /\ ram' = [ram EXCEPT !.connected = FALSE]
    /\ UNCHANGED <<rtc, published, observed>>

Publishes == \E level \in Levels, d \in 0..MaxAwake : Publish(level, d)

\* The steps of the sketch that send nothing.
Silent == \E d \in 0..MaxAwake :
    \/ setup
    \/ WifiRetry(d) \/ WifiFails \/ WifiConnected
    \/ \E ok \in BOOLEAN : MqttRetry(ok, d) \/ MqttLastTry(ok, d)
    \/ MqttConnected
    \/ Close(d) \/ Store \/ FallAsleep(d)

Interrupted == Reset \/ ResetStored \/ PowerOn
Boots == Interrupted \/ \E slept \in 0..ram.deepSleep : WakeUp(slept)

Next == Silent \/ Publishes \/ Boots \/ ConnectionLost

Spec == Init /\ [][Next]_vars

\* The sketch runs while the station is awake.
FairSpec == Spec /\ WF_vars(Silent \/ Publishes)

-----------------------------------------------------------------------------
Sleeps == {Base} \cup {DeepSleep(l) : l \in Levels}
RamType == [at : Stages, millis : 0..Wrap - 1, deepSleep : Sleeps, clock : 0..MaxAwake,
            retry : 0..11, server : {"name", "ip"}, connected : BOOLEAN, next : DOMAIN Topics]
PublishedType == {<<>>} \cup {<<n>> : n \in -(Wrap \div 2)..Wrap \div 2 - 1}
TypeOK == /\ ram \in RamType
          /\ rtc \in [valid : BOOLEAN, millis : 0..Wrap - 1]
          /\ published \in PublishedType
          /\ elapsed \in 0..MaxElapsed
          /\ uncounted \in 0..Wrap - 1

\* The uptime that goes from wake-up to wake-up through the RTC memory is the time since
\* the last power-on, modulo the width of the counter: it misses only the time awake of
\* wake-ups that were reset before they stored it, what came after the store, and
\* everything when a reset tore the write; it is ahead by sleeps that were cut short.
UptimeIsTime ==
    /\ ram.at \in {"wifi", "mqtt", "publish", "close", "store"} =>
          ram.millis = (elapsed - ram.clock - uncounted) % Wrap
    /\ ram.at \in {"stored", "asleep"} => rtc = [valid |-> TRUE, millis |-> ram.millis]

\* The uptime published never falls, reckoned modulo the width of the counter, whether
\* the sleep that it includes was long or short and was slept or cut short, unless RAM is
\* lost before it was stored.
UptimeGrows == [][published # <<>> /\ published' # <<>> =>
                     (published'[1] - published[1]) % Wrap < Wrap \div 2]_vars

\* Without WiFi and without broker, and whatever breaks meanwhile, the station goes back
\* to sleep, unless it is reset again and again: it does not drain its battery.
GoesToSleep == []<>(ram.at = "asleep") \/ []<><<Interrupted>>_vars
=============================================================================
