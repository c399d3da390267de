---------------------------- MODULE WeatherProofs ----------------------------
(***************************************************************************)
(* The stations, for every width of their counters, every length of the    *)
(* sleep, any levels of the battery and wake-ups of any length, resets of  *)
(* either station at any point and any messages lost.  The outdoor station *)
(* keeps its types; the uptime that it carries from wake-up to wake-up is  *)
(* the time since the last power-on, and never falls; and the age on the   *)
(* indoor station's display is the age of the newest value on it.          *)
(***************************************************************************)
EXTENDS WeatherStation, IndoorProofs

USE WrapAssumption, BaseAssumption, LevelsAssumption, BoundsAssumption, MaxWakesAssumption

-----------------------------------------------------------------------------
(* Arithmetic *)

LEMMA ModType ==
    ASSUME NEW n \in Int
    PROVE  n % Wrap \in 0..Wrap - 1
OBVIOUS

LEMMA ModQuotient ==
    ASSUME NEW n \in Int
    PROVE  \E q \in Int : n = Wrap * q + (n % Wrap)
<1>1. n \div Wrap \in Int /\ n = Wrap * (n \div Wrap) + (n % Wrap)
    OBVIOUS
<1> QED BY <1>1

LEMMA ModUnique ==
    ASSUME NEW q \in Int, NEW r \in 0..Wrap - 1
    PROVE  ((Wrap * q) + r) % Wrap = r
OBVIOUS

\* What is a multiple apart has the same remainder.
LEMMA ModShift ==
    ASSUME NEW m \in Int, NEW n \in Int, NEW q \in Int, m = n + q * Wrap
    PROVE  m % Wrap = n % Wrap
<1>1. PICK p \in Int : n = Wrap * p + (n % Wrap)
    BY ModQuotient
<1>2. PICK r \in 0..Wrap - 1 : r = n % Wrap
    BY ModType
<1>3. PICK s \in Int : s = p + q
    OBVIOUS
<1>4. m = Wrap * s + r
    BY <1>1, <1>2, <1>3
<1> QED BY <1>2, <1>4, ModUnique

\* A summand may be reduced first.
LEMMA ModSum ==
    ASSUME NEW m \in Int, NEW n \in Int
    PROVE  (m + (n % Wrap)) % Wrap = (m + n) % Wrap
<1>1. PICK q \in Int : n = Wrap * q + (n % Wrap)
    BY ModQuotient
<1>2. PICK r \in Int : r = n % Wrap
    BY ModType
<1>3. m + n \in Int /\ m + r \in Int /\ m + n = (m + r) + q * Wrap
    BY <1>1, <1>2
<1>4. (m + n) % Wrap = (m + r) % Wrap
    BY <1>3, ModShift
<1> QED BY <1>2, <1>4

\* So may what is subtracted.
LEMMA ModCancels ==
    ASSUME NEW m \in Int, NEW n \in Int, NEW k \in Int, m - n = k
    PROVE  (m - (n % Wrap)) % Wrap = k % Wrap
<1>1. PICK q \in Int : n = Wrap * q + (n % Wrap)
    BY ModQuotient
<1>2. PICK r \in Int : r = n % Wrap
    BY ModType
<1>3. m - r \in Int /\ m - r = k + q * Wrap
    BY <1>1, <1>2
<1>4. k % Wrap = (m - r) % Wrap
    BY <1>3, ModShift
<1> QED BY <1>2, <1>4

\* What the steps do to the sum, for the time e, the clock c, the sleep z and what the
\* uptime misses, u.
LEMMA AllMissed ==
    ASSUME NEW e \in Int
    PROVE  (e - 0 - (e % Wrap)) % Wrap = 0
<1>1. (e - (e % Wrap)) % Wrap = 0 % Wrap
    <2>1. e - e = 0 /\ 0 \in Int
        OBVIOUS
    <2> HIDE WrapAssumption
    <2> QED BY <2>1, ModCancels
<1>2. e - 0 - (e % Wrap) = e - (e % Wrap)
    BY ModType
<1> QED BY <1>1, <1>2

LEMMA NotStored ==
    ASSUME NEW e \in Int, NEW c \in Int, NEW u \in Int
    PROVE  (e - ((u + c) % Wrap)) % Wrap = (e - c - u) % Wrap
<1>1. PICK m \in Int : m = e
    OBVIOUS
<1>2. PICK n \in Int : n = u + c
    OBVIOUS
<1>3. PICK k \in Int : k = e - c - u
    OBVIOUS
<1>4. m - n = k
    BY <1>1, <1>2, <1>3
<1>5. (m - (n % Wrap)) % Wrap = k % Wrap
    BY <1>4, ModCancels
<1> QED BY <1>1, <1>2, <1>3, <1>5

LEMMA NotSlept ==
    ASSUME NEW e \in Int, NEW u \in Int, NEW z \in Int
    PROVE  (e - ((u - z) % Wrap)) % Wrap = (e + z - u) % Wrap
<1>1. PICK m \in Int : m = e
    OBVIOUS
<1>2. PICK n \in Int : n = u - z
    OBVIOUS
<1>3. PICK k \in Int : k = e + z - u
    OBVIOUS
<1>4. m - n = k
    BY <1>1, <1>2, <1>3
<1>5. (m - (n % Wrap)) % Wrap = k % Wrap
    BY <1>4, ModCancels
<1> QED BY <1>1, <1>2, <1>3, <1>5

-----------------------------------------------------------------------------
(* Types *)

LEMMA SleepType ==
    /\ Sleeps \subseteq Nat
    /\ Base \in Sleeps
    /\ \A level \in Levels : DeepSleep(level) \in Sleeps
<1>1. \A level : DeepSleep(level) \in Nat
    BY DEF DeepSleep
<1> QED BY <1>1 DEF Sleeps

LEMMA TopicsDomain == Len(Topics) = 10 /\ DOMAIN Topics = 1..10
BY DEF Topics

LEMMA Published ==
    ASSUME NEW n \in 0..Wrap - 1
    PROVE  <<>> \in PublishedType /\ <<Signed(n)>> \in PublishedType
<1>1. Signed(n) \in -(Wrap \div 2)..Wrap \div 2 - 1
    BY DEF Signed
<1> QED BY <1>1, Zenon DEF PublishedType

\* The fields of the sketch's memory, and of what it stores.
LEMMA Fields ==
    ASSUME TypeOK
    PROVE  /\ ram.millis \in 0..Wrap - 1 /\ ram.deepSleep \in Nat
           /\ ram.clock \in 0..MaxAwake /\ ram.retry \in 0..11 /\ ram.next \in 1..10
           /\ rtc.millis \in 0..Wrap - 1 /\ rtc.valid \in BOOLEAN
           /\ elapsed \in 0..MaxElapsed /\ uncounted \in 0..Wrap - 1
BY SleepType, TopicsDomain DEF TypeOK, RamType

LEMMA Numbers ==
    ASSUME TypeOK
    PROVE  /\ ram.millis \in Int /\ ram.deepSleep \in Int /\ ram.clock \in Int
           /\ rtc.millis \in Int /\ elapsed \in Int /\ uncounted \in Int
BY Fields

LEMMA UptimeType ==
    ASSUME TypeOK
    PROVE  Uptime \in 0..Wrap - 1
<1>1. ram.millis + ram.deepSleep + ram.clock \in Int
    BY Fields
<1> QED BY <1>1, ModType DEF Uptime

\* What a boot loads.
LEMMA BootedType == Booted \in RamType /\ Booted.at = "setup" /\ Booted.clock = 0
BY SleepType, TopicsDomain DEF Booted, Stages, RamType

LEMMA InitType == Init => TypeOK
<1> SUFFICES ASSUME Init PROVE TypeOK
    OBVIOUS
<1>1. ram \in RamType /\ published \in PublishedType
    <2>1. 0 \in 0..Wrap - 1
        OBVIOUS
    <2> QED BY <2>1, BootedType, Published DEF Init
<1>2. rtc \in [valid : BOOLEAN, millis : 0..Wrap - 1]
    BY DEF Init
<1>3. elapsed \in 0..MaxElapsed /\ uncounted \in 0..Wrap - 1
    BY DEF Init
<1> QED BY <1>1, <1>2, <1>3 DEF TypeOK

\* What the steps of a wake-up make of the memory.
LEMMA SilentType ==
    ASSUME TypeOK, NEW d \in 0..MaxAwake, NEW ok \in BOOLEAN,
           \/ setup \/ WifiRetry(d) \/ WifiFails \/ WifiConnected \/ MqttConnected
           \/ MqttRetry(ok, d) \/ MqttLastTry(ok, d) \/ Close(d) \/ Store \/ FallAsleep(d)
    PROVE  ram' \in RamType
<1> USE DEF TypeOK, RamType, Stages
<1>1. CASE setup
    <2> DEFINE n == IF rtc.valid THEN rtc.millis ELSE 0
    <2>1. n \in 0..Wrap - 1
        BY Fields
    <2>2. ram' = [ram EXCEPT !.millis = n, !.at = "wifi"]
        BY <1>1 DEF setup
    <2> HIDE DEF n
    <2> QED BY <2>1, <2>2
<1>2. CASE WifiFails \/ MqttConnected
    BY <1>2 DEF WifiFails, MqttConnected
<1>10. CASE WifiConnected
    <2>1. ram' = [ram EXCEPT !.at = "mqtt", !.retry = 0]
        BY <1>10 DEF WifiConnected
    <2>2. 0 \in 0..11 /\ "mqtt" \in Stages
        OBVIOUS
    <2> QED BY <2>1, <2>2
<1>3. CASE Store
    <2>1. ram' = [ram EXCEPT !.millis = Uptime, !.at = "stored"]
        BY <1>3 DEF Store
    <2> QED BY <2>1, UptimeType
<1>4. ASSUME Passes(d) PROVE ram.clock + d \in 0..MaxAwake
    BY <1>4, Fields DEF Passes
<1>5. CASE WifiRetry(d)
    <2>1. ram.retry + 1 \in 0..11
        BY <1>5, Fields DEF WifiRetry
    <2> QED BY <1>4, <1>5, <2>1 DEF WifiRetry
<1>6. CASE MqttRetry(ok, d)
    <2>1. ram.retry + 1 \in 0..11
        BY <1>6, Fields DEF MqttRetry
    <2> DEFINE b == ok /\ ram.retry # 2
               v == IF ram.retry = 2 THEN "ip" ELSE ram.server
    <2>2. b \in BOOLEAN /\ v \in {"name", "ip"}
        BY Fields
    <2>3. ram' = [ram EXCEPT !.connected = b, !.server = v, !.retry = ram.retry + 1,
                             !.clock = ram.clock + d]
        BY <1>6 DEF MqttRetry
    <2>4. ram.clock + d \in 0..MaxAwake
        BY <1>4, <1>6 DEF MqttRetry
    <2> HIDE DEF b, v
    <2> DEFINE r == [ram EXCEPT !.connected = b, !.server = v]
    <2>5. r \in RamType
        BY <2>2
    <2>6. ram' = [r EXCEPT !.retry = ram.retry + 1, !.clock = ram.clock + d]
        BY <2>3
    <2> HIDE DEF r
    <2> QED BY <2>1, <2>4, <2>5, <2>6
<1>7. CASE MqttLastTry(ok, d)
    BY <1>4, <1>7 DEF MqttLastTry
<1>8. CASE Close(d)
    BY <1>4, <1>8 DEF Close
<1>9. CASE FallAsleep(d)
    BY <1>4, <1>9 DEF FallAsleep
<1> QED BY <1>1, <1>2, <1>3, <1>5, <1>6, <1>7, <1>8, <1>9, <1>10

LEMMA PublishType ==
    ASSUME TypeOK, NEW d \in 0..MaxAwake, NEW level \in Levels, Publish(level, d)
    PROVE  ram' \in RamType /\ published' \in PublishedType
<1> DEFINE z == IF Topics[ram.next] = "raw" THEN DeepSleep(level) ELSE ram.deepSleep
           x == IF ram.next < Len(Topics) THEN ram.next + 1 ELSE 1
           s == IF ram.next = Len(Topics) THEN "close" ELSE ram.at
           c == ram.clock + d
<1>1. z \in Sleeps /\ x \in DOMAIN Topics /\ s \in Stages /\ c \in 0..MaxAwake
    <2>1. ram.deepSleep \in Sleeps /\ ram.at \in Stages
        BY DEF TypeOK, RamType
    <2>2. c \in 0..MaxAwake
        BY Fields DEF Publish, Passes
    <2> QED BY <2>1, <2>2, SleepType, TopicsDomain, Fields DEF Stages
<1>2. ram' = [ram EXCEPT !.deepSleep = z, !.next = x, !.at = s, !.clock = c]
    BY DEF Publish
<1>3. published' \in PublishedType
    BY UptimeType, Published DEF Publish, TypeOK
<1> HIDE DEF z, x, s, c
<1> QED BY <1>1, <1>2, <1>3 DEF TypeOK, RamType

\* What the steps make of the other variables.
LEMMA Others ==
    ASSUME TypeOK, [Next]_vars
    PROVE  /\ rtc' \in [valid : BOOLEAN, millis : 0..Wrap - 1]
           /\ elapsed' \in 0..MaxElapsed
           /\ uncounted' \in 0..Wrap - 1
<1> USE Fields
<1>1. CASE Silent
    <2>1. PICK d \in 0..MaxAwake : Silent!(d)
        BY <1>1 DEF Silent
    <2>2. CASE setup
        BY <2>2, ModType DEF setup, TypeOK
    <2>3. CASE Store
        BY <2>3, UptimeType DEF Store, observed, TypeOK
    <2>4. CASE FallAsleep(d)
        BY <2>4, ModType DEF FallAsleep, Passes, TypeOK
    <2>5. CASE WifiFails \/ WifiConnected \/ MqttConnected
        BY <2>5 DEF WifiFails, WifiConnected, MqttConnected, observed, TypeOK
    <2>6. CASE WifiRetry(d) \/ Close(d)
        BY <2>6 DEF WifiRetry, Close, Passes, TypeOK
    <2>7. ASSUME NEW ok \in BOOLEAN, MqttRetry(ok, d) \/ MqttLastTry(ok, d)
          PROVE  rtc' = rtc /\ elapsed' \in 0..MaxElapsed /\ uncounted' = uncounted
        BY <2>7 DEF MqttRetry, MqttLastTry, Passes
    <2> QED BY <2>1, <2>2, <2>3, <2>4, <2>5, <2>6, <2>7 DEF TypeOK
<1>2. CASE Publishes
    BY <1>2 DEF Publishes, Publish, Passes, TypeOK
<1>3. CASE Reset
    <2>1. rtc' \in [valid : BOOLEAN, millis : 0..Wrap - 1]
        BY <1>3 DEF Reset, TypeOK
    <2>2. uncounted + ram.clock \in Int
        OBVIOUS
    <2> QED BY <1>3, <2>1, <2>2, ModType DEF Reset
<1>4. CASE ResetStored
    BY <1>4, ModType DEF ResetStored, TypeOK
<1>5. CASE PowerOn
    BY <1>5 DEF PowerOn
<1>6. ASSUME NEW slept \in 0..ram.deepSleep, WakeUp(slept)
      PROVE  /\ rtc' \in [valid : BOOLEAN, millis : 0..Wrap - 1]
             /\ elapsed' \in 0..MaxElapsed
             /\ uncounted' \in 0..Wrap - 1
    <2>1. uncounted + slept - ram.deepSleep \in Int
        BY <1>6
    <2> QED BY <1>6, <2>1, ModType DEF WakeUp, TypeOK
<1>7. CASE ConnectionLost \/ UNCHANGED vars
    BY <1>7 DEF ConnectionLost, observed, vars, TypeOK
<1> QED BY <1>1, <1>2, <1>3, <1>4, <1>5, <1>6, <1>7 DEF Next, Boots, Interrupted

LEMMA NextType == TypeOK /\ [Next]_vars => TypeOK'
<1> SUFFICES ASSUME TypeOK, [Next]_vars PROVE ram' \in RamType /\ published' \in PublishedType
    BY Others DEF TypeOK
<1>1. CASE Silent
    <2>1. published' = published
        BY <1>1 DEF Silent, setup, WifiRetry, WifiFails, WifiConnected, MqttRetry,
                    MqttLastTry, MqttConnected, Close, Store, FallAsleep
    <2> QED BY <1>1, <2>1, SilentType DEF Silent, TypeOK
<1>2. CASE Publishes
    BY <1>2, PublishType DEF Publishes
<1>3. CASE Boots
    BY <1>3, BootedType, Published
       DEF TypeOK, Boots, Interrupted, Reset, ResetStored, PowerOn, WakeUp
<1>4. CASE ConnectionLost
    BY <1>4 DEF ConnectionLost, TypeOK, RamType
<1>5. CASE UNCHANGED vars
    BY <1>5 DEF vars, TypeOK
<1> QED BY <1>1, <1>2, <1>3, <1>4, <1>5 DEF Next

\* Every step keeps the types, the counters within their width and the retries within
\* their bounds (main.cpp of the outdoor station).
THEOREM TypeCorrect == Spec => []TypeOK
BY InitType, NextType, PTL DEF Spec

-----------------------------------------------------------------------------
(* The uptime *)

Awake == {"wifi", "mqtt", "publish", "close", "store"}

\* UptimeIsTime, with what a wake-up finds: a stored uptime that is right, and that stays
\* as it was loaded until the next one is stored.
Counts ==
    /\ ram.at = "setup" =>
          /\ ram.clock = 0
          /\ rtc.valid => rtc.millis = (elapsed - uncounted) % Wrap
    /\ ram.at \in Awake =>
          /\ ram.millis = (elapsed - ram.clock - uncounted) % Wrap
          /\ rtc.valid => rtc.millis = (elapsed - ram.clock - uncounted) % Wrap
    /\ ram.at \in {"stored", "asleep"} =>
          /\ ram.millis = (elapsed + ram.deepSleep - uncounted) % Wrap
          /\ rtc = [valid |-> TRUE, millis |-> ram.millis]

LEMMA CountsImply == Counts => UptimeIsTime
BY DEF Counts, UptimeIsTime, Awake

\* The steps that let time pass and count it in the clock.
LEMMA ClockCounts ==
    ASSUME TypeOK, Counts, NEW d \in 0..MaxAwake,
           ram.at \in Awake, ram'.at \in Awake,
           ram'.millis = ram.millis, ram'.clock = ram.clock + d, elapsed' = elapsed + d,
           rtc' = rtc, uncounted' = uncounted
    PROVE  Counts'
<1>1. elapsed' - ram'.clock - uncounted' = elapsed - ram.clock - uncounted
    BY Fields
<1> QED BY <1>1 DEF Counts, Awake

\* A boot that finds what the time asks for.
LEMMA BootCounts ==
    ASSUME ram' = Booted, rtc'.valid => rtc'.millis = (elapsed' - uncounted') % Wrap
    PROVE  Counts'
BY BootedType DEF Counts, Awake

LEMMA SilentCounts ==
    ASSUME TypeOK, Counts, NEW d \in 0..MaxAwake, NEW ok \in BOOLEAN,
           \/ setup \/ WifiRetry(d) \/ WifiFails \/ WifiConnected \/ MqttConnected
           \/ MqttRetry(ok, d) \/ MqttLastTry(ok, d) \/ Close(d) \/ Store \/ FallAsleep(d)
    PROVE  Counts'
<1> USE Numbers
<1>1. ram \in RamType
    BY DEF TypeOK
<1>2. CASE setup
    <2>1. ram'.at = "wifi" /\ ram'.clock = 0 /\ rtc' = rtc /\ elapsed' = elapsed
          /\ ram'.millis = (IF rtc.valid THEN rtc.millis ELSE 0)
          /\ uncounted' = (IF rtc.valid THEN uncounted ELSE elapsed % Wrap)
        BY <1>1, <1>2 DEF setup, Counts, RamType
    <2>2. CASE rtc.valid
        BY <1>2, <2>1, <2>2 DEF Counts, Awake, setup
    <2>3. CASE ~rtc.valid
        <3>1. (elapsed - 0 - (elapsed % Wrap)) % Wrap = 0
            BY Numbers, AllMissed, Zenon
        <3> QED BY <2>1, <2>3, <3>1 DEF Counts, Awake
    <2> QED BY <2>2, <2>3
<1>3. CASE WifiFails \/ WifiConnected \/ MqttConnected
    <2>1. /\ ram.at \in Awake /\ ram'.at \in Awake /\ ram'.millis = ram.millis
          /\ ram'.clock = ram.clock /\ UNCHANGED <<rtc, elapsed, uncounted>>
        BY <1>1, <1>3 DEF WifiFails, WifiConnected, MqttConnected, RamType, Awake, observed
    <2> QED BY <2>1 DEF Counts, Awake
<1>4. CASE WifiRetry(d) \/ MqttRetry(ok, d) \/ MqttLastTry(ok, d) \/ Close(d)
    <2>1. /\ ram.at \in Awake /\ ram'.at \in Awake /\ ram'.millis = ram.millis
          /\ ram'.clock = ram.clock + d
        <3>1. CASE WifiRetry(d)
            BY SMTT(30), <1>1, <3>1 DEF WifiRetry, RamType, Awake
        <3>2. CASE MqttRetry(ok, d)
            BY SMTT(30), <1>1, <3>2 DEF MqttRetry, RamType, Awake
        <3>3. CASE MqttLastTry(ok, d)
            BY SMTT(30), <1>1, <3>3 DEF MqttLastTry, RamType, Awake
        <3>4. CASE Close(d)
            BY SMTT(30), <1>1, <3>4 DEF Close, RamType, Awake
        <3> QED BY <1>4, <3>1, <3>2, <3>3, <3>4
    <2>2. elapsed' = elapsed + d /\ UNCHANGED <<rtc, uncounted>>
        BY <1>4 DEF WifiRetry, MqttRetry, MqttLastTry, Close, Passes
    <2> QED BY <2>1, <2>2, ClockCounts
<1>5. CASE Store
    <2>1. /\ ram'.at = "stored" /\ ram'.millis = Uptime /\ ram'.deepSleep = ram.deepSleep
          /\ rtc' = [valid |-> TRUE, millis |-> Uptime] /\ UNCHANGED <<elapsed, uncounted>>
        BY <1>1, <1>5 DEF Store, RamType, observed
    <2>2. ram.millis = (elapsed - ram.clock - uncounted) % Wrap
        BY <1>5 DEF Counts, Awake, Store
    <2>3. (((elapsed - ram.clock - uncounted) % Wrap) + ram.deepSleep + ram.clock) % Wrap
            = (elapsed + ram.deepSleep - uncounted) % Wrap
        <3>1. PICK m \in Int : m = ram.deepSleep + ram.clock
            OBVIOUS
        <3>2. PICK n \in Int : n = elapsed - ram.clock - uncounted
            OBVIOUS
        <3>3. PICK r \in Int : r = n % Wrap
            BY ModType
        <3>4. (m + r) % Wrap = (m + n) % Wrap
            BY <3>3, ModSum
        <3>5. r + ram.deepSleep + ram.clock = m + r /\ m + n = elapsed + ram.deepSleep - uncounted
            BY <3>1, <3>2
        <3> QED BY <3>2, <3>3, <3>4, <3>5
    <2>7. Uptime = (elapsed + ram.deepSleep - uncounted) % Wrap
        BY <2>2, <2>3 DEF Uptime
    <2> QED BY <2>1, <2>7 DEF Counts, Awake
<1>6. CASE FallAsleep(d)
    <2>0. /\ d \in Int /\ elapsed \in Int /\ uncounted \in Int /\ ram.deepSleep \in Int
        OBVIOUS
    <2>1. /\ ram'.at = "asleep" /\ ram'.millis = ram.millis /\ ram'.deepSleep = ram.deepSleep
          /\ rtc' = rtc /\ elapsed' = elapsed + d /\ uncounted' = (uncounted + d) % Wrap
        BY <1>1, <1>6 DEF FallAsleep, RamType, Passes
    <2>2. /\ ram.millis = (elapsed + ram.deepSleep - uncounted) % Wrap
          /\ rtc = [valid |-> TRUE, millis |-> ram.millis]
        BY <1>6 DEF FallAsleep, Counts
    <2>3. (elapsed + d + ram.deepSleep - ((uncounted + d) % Wrap)) % Wrap
            = (elapsed + ram.deepSleep - uncounted) % Wrap
        <3>1. PICK m \in Int : m = elapsed + d + ram.deepSleep
            BY <2>0
        <3>2. PICK n \in Int : n = uncounted + d
            BY <2>0
        <3>3. PICK k \in Int : k = elapsed + ram.deepSleep - uncounted
            BY <2>0
        <3>4. m - n = k
            BY <2>0, <3>1, <3>2, <3>3
        <3>5. (m - (n % Wrap)) % Wrap = k % Wrap
            BY <3>4, ModCancels
        <3> QED BY <3>1, <3>2, <3>3, <3>5
    <2> QED BY <2>1, <2>2, <2>3 DEF Counts, Awake
<1> QED BY <1>2, <1>3, <1>4, <1>5, <1>6

LEMMA BootsCounts ==
    ASSUME TypeOK, Counts, Boots
    PROVE  Counts'
<1> USE Numbers
<1>1. CASE Reset
    <2>1. ram' = Booted /\ elapsed' = elapsed /\ uncounted' = (uncounted + ram.clock) % Wrap
        BY <1>1 DEF Reset
    <2>2. rtc'.valid => rtc.valid /\ rtc'.millis = rtc.millis
        BY <1>1 DEF Reset, TypeOK
    <2>3. rtc.valid => rtc.millis = (elapsed - ram.clock - uncounted) % Wrap
        BY <1>1 DEF Reset, Counts, Awake, TypeOK, RamType, Stages
    <2>4. (elapsed - ((uncounted + ram.clock) % Wrap)) % Wrap
            = (elapsed - ram.clock - uncounted) % Wrap
        BY Numbers, NotStored, ZenonT(60)
    <2> QED BY <2>1, <2>2, <2>3, <2>4, BootCounts
<1>2. CASE PowerOn
    BY <1>2, BootCounts DEF PowerOn
<1>3. CASE ResetStored
    <2>1. /\ ram' = Booted /\ elapsed' = elapsed /\ rtc' = rtc
          /\ uncounted' = (uncounted - ram.deepSleep) % Wrap
        BY <1>3 DEF ResetStored
    <2>2. rtc.millis = (elapsed + ram.deepSleep - uncounted) % Wrap
        BY <1>3 DEF ResetStored, Counts
    <2>3. (elapsed - ((uncounted - ram.deepSleep) % Wrap)) % Wrap
            = (elapsed + ram.deepSleep - uncounted) % Wrap
        BY Numbers, NotSlept, Zenon
    <2> QED BY <2>1, <2>2, <2>3, BootCounts
<1>4. ASSUME NEW slept \in 0..ram.deepSleep, WakeUp(slept) PROVE Counts'
    <2>0. /\ slept \in Int /\ elapsed \in Int /\ uncounted \in Int /\ ram.deepSleep \in Int
        BY <1>4
    <2>1. /\ ram' = Booted /\ elapsed' = elapsed + slept /\ rtc' = rtc
          /\ uncounted' = (uncounted + slept - ram.deepSleep) % Wrap
        BY <1>4 DEF WakeUp
    <2>2. rtc.millis = (elapsed + ram.deepSleep - uncounted) % Wrap
        BY <1>4 DEF WakeUp, Counts
    <2>3. (elapsed + slept - ((uncounted + slept - ram.deepSleep) % Wrap)) % Wrap
            = (elapsed + ram.deepSleep - uncounted) % Wrap
        <3>1. PICK m \in Int : m = elapsed + slept
            BY <2>0
        <3>2. PICK n \in Int : n = uncounted + slept - ram.deepSleep
            BY <2>0
        <3>3. PICK k \in Int : k = elapsed + ram.deepSleep - uncounted
            BY <2>0
        <3>4. m - n = k
            BY <2>0, <3>1, <3>2, <3>3
        <3>5. (m - (n % Wrap)) % Wrap = k % Wrap
            BY <3>4, ModCancels
        <3> QED BY <3>1, <3>2, <3>3, <3>5
    <2> QED BY <2>1, <2>2, <2>3, BootCounts
<1> QED BY <1>1, <1>2, <1>3, <1>4 DEF Boots, Interrupted

LEMMA NextCounts == TypeOK /\ Counts /\ [Next]_vars => Counts'
<1> SUFFICES ASSUME TypeOK, Counts, [Next]_vars PROVE Counts'
    OBVIOUS
<1>1. ram \in RamType
    BY DEF TypeOK
<1>2. CASE Silent
    BY <1>2, SilentCounts DEF Silent
<1>3. ASSUME NEW level \in Levels, NEW d \in 0..MaxAwake, Publish(level, d) PROVE Counts'
    <2>1. /\ ram.at \in Awake /\ ram'.at \in Awake /\ ram'.millis = ram.millis
          /\ ram'.clock = ram.clock + d
        BY <1>1, <1>3 DEF Publish, RamType, Awake
    <2>2. elapsed' = elapsed + d /\ UNCHANGED <<rtc, uncounted>>
        BY <1>3 DEF Publish, Passes
    <2> QED BY <2>1, <2>2, ClockCounts
<1>4. CASE Boots
    BY <1>4, BootsCounts
<1>5. CASE ConnectionLost
    <2>1. /\ ram'.at = ram.at /\ ram'.millis = ram.millis /\ ram'.clock = ram.clock
          /\ ram'.deepSleep = ram.deepSleep /\ UNCHANGED <<rtc, elapsed, uncounted>>
        BY <1>1, <1>5 DEF ConnectionLost, RamType, observed
    <2> QED BY <2>1 DEF Counts
<1>6. CASE UNCHANGED vars
    BY <1>6 DEF vars, Counts
<1> QED BY <1>2, <1>3, <1>4, <1>5, <1>6 DEF Next, Publishes

\* The uptime that goes through the RTC memory from wake-up to wake-up is the time since the
\* last power-on, but for what UptimeIsTime names: through resets at any point, torn writes
\* of the RTC memory and the end of the counter.
THEOREM UptimeCorrect == Spec => []UptimeIsTime
<1>1. Init => Counts
    BY BootedType DEF Init, Counts, Awake
<1> QED BY <1>1, InitType, NextType, NextCounts, CountsImply, PTL DEF Spec

-----------------------------------------------------------------------------
(* The uptime that is published *)

\* A wake-up begins at the first topic, the rssi.
Underway ==
    /\ ram \in RamType
    /\ ram.at \in {"setup", "wifi", "mqtt"} => ram.next = 1

\* The steps of a wake-up that send nothing begin to publish at the first topic.
LEMMA SilentUnderway ==
    ASSUME TypeOK, Underway, Silent
    PROVE  /\ Underway'
           /\ ~(ram'.at = "publish" /\ ram'.next > 1) \/ ram' = ram
<1>1. PICK d \in 0..MaxAwake : Silent!(d)
    BY DEF Silent
<1>2. ram' \in RamType
    BY <1>1, SilentType DEF Silent
<1>3. ram' = ram \/ (ram'.next = ram.next /\ (ram'.at = "publish" => ram.at \in {"wifi", "mqtt"})
                     /\ (ram'.at \in {"setup", "wifi", "mqtt"} => ram.at \in {"setup", "wifi", "mqtt"}))
    <2> USE DEF RamType, Stages, Underway
    <2>1. CASE setup \/ WifiRetry(d) \/ WifiFails \/ WifiConnected \/ MqttConnected
        BY <2>1 DEF setup, WifiRetry, WifiFails, WifiConnected, MqttConnected
    <2>2. ASSUME NEW ok \in BOOLEAN, MqttRetry(ok, d) \/ MqttLastTry(ok, d)
          PROVE  /\ ram'.next = ram.next /\ (ram'.at = "publish" => ram.at \in {"wifi", "mqtt"})
                 /\ ram'.at \in {"setup", "wifi", "mqtt"} => ram.at \in {"setup", "wifi", "mqtt"}
        BY <2>2 DEF MqttRetry, MqttLastTry
    <2>3. CASE Close(d) \/ Store \/ FallAsleep(d)
        BY <2>3 DEF Close, Store, FallAsleep
    <2> QED BY <1>1, <2>1, <2>2, <2>3
<1> QED BY <1>2, <1>3 DEF Underway

LEMMA OtherUnderway ==
    ASSUME TypeOK', Underway, Publishes \/ Boots \/ ConnectionLost
    PROVE  Underway'
<1>1. ram' \in RamType
    BY DEF TypeOK
<1>2. CASE Publishes
    <2>1. PICK level \in Levels, d \in 0..MaxAwake : Publish(level, d)
        BY <1>2 DEF Publishes
    <2>2. ram'.at \in {"publish", "close"}
        BY <1>1, <2>1 DEF Publish, Underway, RamType
    <2> QED BY <1>1, <2>2 DEF Underway
<1>3. CASE Boots
    <2>1. ram' = Booted
        BY <1>3 DEF Boots, Interrupted, Reset, ResetStored, PowerOn, WakeUp
    <2> QED BY <1>1, <2>1 DEF Underway, Booted
<1>4. CASE ConnectionLost
    <2>1. ram'.at = ram.at /\ ram'.next = ram.next
        BY <1>4 DEF ConnectionLost, Underway, RamType
    <2> QED BY <1>1, <2>1 DEF Underway
<1> QED BY <1>2, <1>3, <1>4

\* A long is an unsigned long modulo the width.
LEMMA SignedMod ==
    ASSUME NEW n \in 0..Wrap - 1
    PROVE  Signed(n) \in Int /\ Signed(n) % Wrap = n
<1>1. CASE n < Wrap \div 2
    <2>1. Signed(n) = n /\ n % Wrap = n
        BY <1>1 DEF Signed
    <2> QED BY <2>1
<1>2. CASE ~(n < Wrap \div 2)
    <2>1. Signed(n) = n + (-1) * Wrap /\ Signed(n) \in Int
        BY <1>2 DEF Signed
    <2>2. Signed(n) % Wrap = n % Wrap
        BY <2>1, ModShift
    <2> QED BY <2>1, <2>2
<1> QED BY <1>1, <1>2

\* The uptime published is the one loaded or stored, or less by the time it took to store it.
Follows(n) == \E a \in 0..MaxAwake : (published[1] + a) % Wrap = n

\* How the uptime last published stands to the one in memory, before it is published again,
\* afterwards, and when it has been stored.
Grows == published # <<>> =>
    /\ published[1] \in Int
    /\ ram.at = "setup" => rtc.valid /\ Follows(rtc.millis)
    /\ ram.at \in {"wifi", "mqtt"} \/ (ram.at = "publish" /\ ram.next <= 5) => Follows(ram.millis)
    /\ (ram.at = "publish" /\ ram.next > 5) \/ ram.at \in {"close", "store"} =>
          \E a \in 0..ram.clock : published[1] % Wrap = (ram.millis + ram.deepSleep + a) % Wrap
    /\ ram.at \in {"stored", "asleep"} =>
          Follows(ram.millis) /\ rtc = [valid |-> TRUE, millis |-> ram.millis]

\* The next one includes the time awake of two wake-ups, each in part, and one sleep.
LongCounter == \A s \in Sleeps : 2 * MaxAwake + s < Wrap \div 2

LEMMA SilentGrows ==
    ASSUME TypeOK, TypeOK', Underway, Grows, Silent
    PROVE  Grows' /\ published' = published
<1>1. PICK d \in 0..MaxAwake : Silent!(d)
    BY DEF Silent
<1>2. published' = published
    BY <1>1 DEF setup, WifiRetry, WifiFails, WifiConnected, MqttRetry,
                MqttLastTry, MqttConnected, Close, Store, FallAsleep
<1>3. SUFFICES ASSUME published # <<>> PROVE Grows'
    BY <1>2 DEF Grows
<1>4. ram \in RamType /\ published[1] \in Int
    BY <1>3 DEF TypeOK, Grows
<1>5. ASSUME Follows(rtc.millis) PROVE (\A n : n = rtc.millis => \E a \in 0..MaxAwake : (published'[1] + a) % Wrap = n)
    BY <1>2, <1>5 DEF Follows
<1>6. CASE setup
    <2>1. ram'.at = "wifi" /\ ram'.millis = (IF rtc.valid THEN rtc.millis ELSE 0) /\ ram.at = "setup"
        BY <1>4, <1>6 DEF setup, RamType
    <2>2. ram'.millis = rtc.millis /\ Follows(rtc.millis)
        BY <1>3, <2>1 DEF Grows
    <2> QED BY <1>2, <1>4, <2>1, <2>2 DEF Grows, Follows
<1>7. CASE WifiRetry(d) \/ WifiFails \/ WifiConnected \/ MqttConnected
    <2>1. /\ ram.at \in {"wifi", "mqtt"} /\ ram.next = 1
          /\ ram'.at \in {"wifi", "mqtt", "publish"} /\ ram'.next = 1 /\ ram'.millis = ram.millis
        BY <1>4, <1>7 DEF WifiRetry, WifiFails, WifiConnected, MqttConnected, RamType, Underway
    <2> QED BY <1>2, <1>3, <2>1 DEF Grows, Follows
<1>8. ASSUME NEW ok \in BOOLEAN, MqttRetry(ok, d) \/ MqttLastTry(ok, d) PROVE Grows'
    <2>1. /\ ram.at = "mqtt" /\ ram.next = 1
          /\ ram'.at \in {"mqtt", "publish"} /\ ram'.next = 1 /\ ram'.millis = ram.millis
        BY <1>4, <1>8 DEF MqttRetry, MqttLastTry, RamType, Underway
    <2> QED BY <1>2, <1>3, <2>1 DEF Grows, Follows
<1>9. CASE Close(d)
    <2>1. /\ ram.at = "close" /\ ram'.at = "store" /\ ram'.millis = ram.millis
          /\ ram'.deepSleep = ram.deepSleep /\ ram'.clock = ram.clock + d
        BY <1>4, <1>9 DEF Close, RamType
    <2>2. PICK a \in 0..ram.clock : published[1] % Wrap = (ram.millis + ram.deepSleep + a) % Wrap
        BY <1>3, <2>1 DEF Grows
    <2>3. a \in 0..ram'.clock
        BY <2>1, Fields
    <2> QED BY <1>2, <1>4, <2>1, <2>2, <2>3 DEF Grows
<1>10. CASE Store
    <2>1. /\ ram.at = "store" /\ ram'.at = "stored" /\ ram'.millis = Uptime
          /\ rtc' = [valid |-> TRUE, millis |-> ram'.millis]
        BY <1>4, <1>10 DEF Store, RamType
    <2>2. PICK a \in 0..ram.clock : published[1] % Wrap = (ram.millis + ram.deepSleep + a) % Wrap
        BY <1>3, <2>1 DEF Grows
    <2>3. (published[1] + (ram.clock - a)) % Wrap = Uptime
        <3>1. PICK b \in Int : b = ram.clock - a
            BY Numbers
        <3>2. PICK n \in Int : n = ram.millis + ram.deepSleep + a
            BY Numbers
        <3>3. PICK p \in Int : p = published[1]
            BY <1>4
        <3>4. (b + (p % Wrap)) % Wrap = (b + p) % Wrap /\ (b + (n % Wrap)) % Wrap = (b + n) % Wrap
            BY ModSum
        <3>5. b + n = ram.millis + ram.deepSleep + ram.clock /\ b + p = p + b
            BY <3>1, <3>2, Numbers
        <3> QED BY <2>2, <3>1, <3>2, <3>3, <3>4, <3>5 DEF Uptime
    <2>4. ram.clock - a \in 0..MaxAwake
        BY Fields
    <2>5. Follows(ram'.millis)
        BY <2>1, <2>3, <2>4 DEF Follows
    <2> QED BY <1>2, <1>4, <2>1, <2>5 DEF Grows, Follows
<1>11. CASE FallAsleep(d)
    <2>1. ram.at = "stored" /\ ram'.at = "asleep" /\ ram'.millis = ram.millis /\ rtc' = rtc
        BY <1>4, <1>11 DEF FallAsleep, RamType
    <2> QED BY <1>2, <1>3, <2>1 DEF Grows, Follows
<1> QED BY <1>1, <1>6, <1>7, <1>8, <1>9, <1>10, <1>11

LEMMA PublishGrows ==
    ASSUME LongCounter, TypeOK, TypeOK', Grows,
           NEW level \in Levels, NEW d \in 0..MaxAwake, Publish(level, d)
    PROVE  /\ Grows'
           /\ published # <<>> /\ published' # <<>> => (published'[1] - published[1]) % Wrap < Wrap \div 2
<1> USE DEF Follows
<1>1. /\ ram \in RamType /\ ram.next \in 1..10 /\ ram.clock \in 0..MaxAwake
      /\ ram.deepSleep \in Sleeps /\ ram.deepSleep \in Nat
    BY Fields DEF TypeOK, RamType
<1>2. /\ ram.at = "publish" /\ ram'.millis = ram.millis /\ ram'.clock = ram.clock + d
      /\ ram'.at = (IF ram.next = 10 THEN "close" ELSE "publish")
      /\ ram'.next = (IF ram.next < 10 THEN ram.next + 1 ELSE 1)
      /\ ram'.deepSleep = (IF Topics[ram.next] = "raw" THEN DeepSleep(level) ELSE ram.deepSleep)
      /\ published' = (IF Topics[ram.next] = "uptime" THEN <<Signed(Uptime)>> ELSE published)
    BY <1>1, TopicsDomain DEF Publish, RamType
<1>3. (Topics[ram.next] = "uptime" <=> ram.next = 5) /\ (Topics[ram.next] = "raw" <=> ram.next = 2)
    BY <1>1 DEF Topics
<1>4. ASSUME published # <<>>
      PROVE  published[1] \in Int /\ (published[1] - published[1]) % Wrap < Wrap \div 2
    <2>1. PICK p \in Int : p = published[1]
        BY <1>4 DEF Grows
    <2>2. p - p = 0 /\ 0 % Wrap = 0 /\ 0 < Wrap \div 2
        OBVIOUS
    <2> QED BY <2>1, <2>2
<1>5. CASE ram.next < 5
    <2>1. published' = published /\ ram'.at = "publish" /\ ram'.next <= 5
        BY <1>1, <1>2, <1>3, <1>5
    <2>2. ASSUME published # <<>> PROVE Grows'
        <3>1. PICK a \in 0..MaxAwake : (published[1] + a) % Wrap = ram.millis
            <4>1. ram.at = "publish" /\ ram.next <= 5
                BY <1>1, <1>2, <1>5
            <4> QED BY <2>2, <4>1 DEF Grows
        <3>2. /\ (published'[1] + a) % Wrap = ram'.millis /\ published'[1] \in Int
              /\ ram'.at = "publish"
            BY <1>2, <1>4, <2>1, <2>2, <3>1
        <3>3. ~(ram'.next > 5)
            BY <1>1, <1>2, <1>5
        <3>4. \E b \in 0..MaxAwake : (published'[1] + b) % Wrap = ram'.millis
            BY <3>2
        <3> QED BY <3>2, <3>3, <3>4 DEF Grows
    <2>3. Grows'
        BY <2>1, <2>2 DEF Grows
    <2> QED BY <1>4, <2>1, <2>3
<1>6. CASE ram.next = 5
    <2>1. published' = <<Signed(Uptime)>> /\ ram'.at = "publish" /\ ram'.next = 6
          /\ ram'.deepSleep = ram.deepSleep
        BY <1>2, <1>3, <1>6
    <2>2. Uptime \in 0..Wrap - 1
        BY UptimeType
    <2>3. PICK p \in Int : p = published'[1] /\ p % Wrap = Uptime
        BY <2>1, <2>2, SignedMod
    <2>4. p % Wrap = (ram'.millis + ram'.deepSleep + ram.clock) % Wrap /\ ram.clock \in 0..ram'.clock
        BY <1>1, <1>2, <2>1, <2>3 DEF Uptime
    <2>5. Grows'
        BY <2>1, <2>3, <2>4 DEF Grows
    <2>6. ASSUME published # <<>> PROVE (p - published[1]) % Wrap < Wrap \div 2
        <3>1. PICK o \in Int : o = published[1]
            BY <2>6 DEF Grows
        <3>2. PICK a \in 0..MaxAwake : (o + a) % Wrap = ram.millis
            BY <1>2, <1>6, <2>6, <3>1 DEF Grows
        <3>3. PICK b \in Nat : b = ram.deepSleep + ram.clock
            BY <1>1
        <3>4. PICK m \in Int : m = ram.millis
            BY Numbers
        <3>5. (b + m) % Wrap = p % Wrap
            <4>1. b + m = ram.millis + ram.deepSleep + ram.clock
                BY <1>1, <3>3, <3>4
            <4> QED BY <2>3, <4>1 DEF Uptime
        <3>6. PICK k \in Nat : k = a + b
            BY BoundsAssumption
        <3>7. p % Wrap = (o + k) % Wrap
            <4>1. PICK n \in Int : n = o + a
                BY BoundsAssumption
            <4>2. (b + (n % Wrap)) % Wrap = (b + n) % Wrap
                BY ModSum
            <4>3. b + n = o + k
                BY <3>6, <4>1
            <4> QED BY <3>2, <3>4, <3>5, <4>1, <4>2, <4>3
        <3>8. (p - o) % Wrap = k % Wrap
            <4>1. PICK q \in Int : p = Wrap * q + (p % Wrap)
                BY ModQuotient
            <4>2. PICK s \in Int : o + k = Wrap * s + ((o + k) % Wrap)
                BY ModQuotient
            <4>3. PICK r \in Int : r = p % Wrap
                BY ModType
            <4>4. PICK t \in Int : t = q - s
                OBVIOUS
            <4>5. p - o = k + t * Wrap
                BY <3>7, <4>1, <4>2, <4>3, <4>4
            <4>6. p - o \in Int
                OBVIOUS
            <4> QED BY <4>5, <4>6, ModShift
        <3>9. k < Wrap \div 2
            BY <1>1, <3>3, <3>6 DEF LongCounter
        <3>10. k % Wrap = k
            BY <3>9
        <3> QED BY <3>1, <3>8, <3>9, <3>10
    <2> QED BY <2>3, <2>5, <2>6
<1>7. CASE ram.next > 5
    <2>1. published' = published /\ ram'.deepSleep = ram.deepSleep
          /\ (ram'.at = "close" \/ (ram'.at = "publish" /\ ram'.next > 5))
        BY <1>1, <1>2, <1>3, <1>7
    <2>2. ASSUME published # <<>> PROVE Grows'
        <3>1. PICK a \in 0..ram.clock : published[1] % Wrap = (ram.millis + ram.deepSleep + a) % Wrap
            BY <1>2, <1>7, <2>2 DEF Grows
        <3>2. a \in 0..ram'.clock
            BY <1>1, <1>2
        <3>3. /\ published'[1] % Wrap = (ram'.millis + ram'.deepSleep + a) % Wrap
              /\ published'[1] \in Int
              /\ ram'.at = "close" \/ (ram'.at = "publish" /\ ram'.next > 5)
            BY <1>2, <1>4, <2>1, <2>2, <3>1
        <3>4. ~(ram'.at = "publish" /\ ram'.next <= 5)
            BY <1>1, <1>2, <3>3
        <3> QED BY <3>2, <3>3, <3>4 DEF Grows
    <2>3. Grows'
        BY <2>1, <2>2 DEF Grows
    <2> QED BY <1>4, <2>1, <2>3
<1> QED BY <1>1, <1>5, <1>6, <1>7, SMTT(60)

LEMMA BootsGrows ==
    ASSUME TypeOK, Grows, Boots
    PROVE  Grows' /\ (published' = published \/ published' = <<>>)
<1>1. CASE Reset \/ PowerOn
    BY <1>1 DEF Reset, PowerOn, Grows
<1>2. ASSUME NEW slept \in 0..ram.deepSleep, WakeUp(slept) \/ ResetStored
      PROVE  Grows' /\ published' = published
    <2>1. /\ ram.at \in {"stored", "asleep"} /\ ram'.at = "setup"
          /\ rtc' = rtc /\ published' = published
        BY <1>2 DEF WakeUp, ResetStored, Booted
    <2> QED BY <2>1 DEF Grows, Follows
<1>3. ram.deepSleep \in 0..ram.deepSleep
    BY Fields
<1> QED BY <1>1, <1>2, <1>3 DEF Boots, Interrupted

LEMMA NextGrows ==
    ASSUME LongCounter, TypeOK, TypeOK', Underway, Grows, [Next]_vars
    PROVE  /\ Underway' /\ Grows'
           /\ published # <<>> /\ published' # <<>> => (published'[1] - published[1]) % Wrap < Wrap \div 2
<1>1. published' = published /\ published # <<>> => (published'[1] - published[1]) % Wrap < Wrap \div 2
    <2> SUFFICES ASSUME published' = published, published # <<>>
                 PROVE  (published[1] - published[1]) % Wrap < Wrap \div 2
        OBVIOUS
    <2>1. PICK p \in Int : p = published[1]
        BY DEF Grows
    <2>2. p - p = 0 /\ 0 % Wrap = 0 /\ 0 < Wrap \div 2
        OBVIOUS
    <2> QED BY <2>1, <2>2
<1>2. CASE Silent
    BY <1>1, <1>2, SilentGrows, SilentUnderway
<1>3. CASE Publishes
    BY <1>3, PublishGrows, OtherUnderway DEF Publishes
<1>4. CASE Boots
    BY <1>1, <1>4, BootsGrows, OtherUnderway
<1>5. CASE ConnectionLost
    <2>1. /\ ram'.at = ram.at /\ ram'.millis = ram.millis /\ ram'.clock = ram.clock
          /\ ram'.deepSleep = ram.deepSleep /\ ram'.next = ram.next /\ UNCHANGED <<rtc, published>>
        BY <1>5 DEF ConnectionLost, RamType, TypeOK
    <2>2. Grows'
        BY <2>1 DEF Grows, Follows
    <2> QED BY <1>1, <1>5, <2>1, <2>2, OtherUnderway
<1>6. CASE UNCHANGED vars
    BY <1>1, <1>6 DEF vars, Grows, Follows, Underway
<1> QED BY <1>2, <1>3, <1>4, <1>5, <1>6 DEF Next

\* The uptime published never falls, reckoned modulo the width of the counter, if that is
\* long enough for the time awake of two wake-ups and a sleep: whether the sleep that it
\* includes was long or short, was slept or cut short, and wherever resets come between.
THEOREM UptimeRises == LongCounter => (Spec => UptimeGrows)
<1> SUFFICES ASSUME LongCounter PROVE Spec => UptimeGrows
    OBVIOUS
<1>1. Init => TypeOK /\ Underway /\ Grows
    BY InitType, BootedType DEF Init, Underway, Grows, Booted
<1>2. TypeOK /\ Underway /\ Grows /\ [Next]_vars =>
        /\ TypeOK' /\ Underway' /\ Grows'
        /\ [published # <<>> /\ published' # <<>> =>
               (published'[1] - published[1]) % Wrap < Wrap \div 2]_vars
    BY NextType, NextGrows
<1> QED BY <1>1, <1>2, PTL DEF Spec, UptimeGrows

-----------------------------------------------------------------------------
(* The display *)

\* What is on the wire is of this wake-up, and either the indoor station has its rssi, or that
\* comes first.  As long as the connection is there, what was published is received or on it.
Ordered ==
    /\ wake \in 1..MaxWakes
    /\ wire \in Seq(Message)
    /\ \A i \in 1..Len(wire) : wire[i].wake = wake
    /\ value["rssi"] = wake \/ (wire # <<>> => Head(wire).topic = "rssi")
    /\ ram.connected /\ ram.at = "publish" /\ ram.next > 1
          => value["rssi"] = wake \/ wire # <<>>

\* No value is newer than the rssi, in memory as on the display.
Newest ==
    /\ value \in [Shown -> 0..MaxWakes]
    /\ \A t \in Shown : value[t] <= value["rssi"] /\ value[t] <= wake
    /\ SeenIsNewest

IInv == TypeOK /\ Underway /\ Ordered /\ Newest

LEMMA TopicsAre ==
    /\ Len(Topics) = 10 /\ Topics[1] = "rssi"
    /\ \A i \in 1..10 : Topics[i] \in {Topics[j] : j \in DOMAIN Topics}
BY DEF Topics

LEMMA RssiShown == "rssi" \in Shown
BY DEF Shown

\* An empty wire, a new wake-up, and the same values.
LEMMA Cleared ==
    ASSUME IInv, TypeOK', Underway',
           wire' = <<>>, wake' \in 1..MaxWakes, wake <= wake',
           ~(ram'.connected /\ ram'.at = "publish" /\ ram'.next > 1),
           UNCHANGED <<value, screen>>
    PROVE  IInv'
<1>1. Ordered'
    BY DEF Ordered
<1>2. Newest'
    BY DEF IInv, Newest, SeenIsNewest, Ordered
<1> QED BY <1>1, <1>2 DEF IInv

\* Nothing on the wire changes, and nothing is published.
LEMMA Same ==
    ASSUME IInv, TypeOK', Underway', UNCHANGED <<wire, wake, value, screen>>,
           ram'.connected /\ ram'.at = "publish" /\ ram'.next > 1
              => ram.connected /\ ram.at = "publish" /\ ram.next > 1
    PROVE  IInv'
BY DEF IInv, Ordered, Newest, SeenIsNewest

LEMMA InitInv == StationsInit => IInv
<1> SUFFICES ASSUME StationsInit PROVE IInv
    OBVIOUS
<1>1. Underway
    BY BootedType DEF StationsInit, Init, Booted, Underway
<1>2. Ordered
    BY DEF StationsInit, Init, Booted, Ordered
<1>3. Newest
    <2>1. value = [t \in Shown |-> 0] /\ wire = <<>> /\ wake = 1 /\ screen = [text |-> "Booting..."]
        BY DEF StationsInit, IndoorInit, Booting
    <2>3. screen.text # "Seen"
        BY <2>1
    <2>4. \A t \in Shown : value[t] = 0
        BY <2>1
    <2>5. 0 \in 0..MaxWakes /\ 0 <= 0 /\ 0 <= 1
        OBVIOUS
    <2>6. value \in [Shown -> 0..MaxWakes]
        BY <2>1, <2>5, Zenon
    <2>7. \A t \in Shown : value[t] <= value["rssi"] /\ value[t] <= wake
        BY <2>1, <2>4, <2>5, RssiShown, Zenon
    <2>8. SeenIsNewest
        BY <2>3 DEF SeenIsNewest
    <2> QED BY <2>6, <2>7, <2>8 DEF Newest
<1> QED BY <1>1, <1>2, <1>3, InitType DEF IInv, StationsInit

-----------------------------------------------------------------------------
(* The steps *)

\* A message is sent.
LEMMA SentOrdered ==
    ASSUME IInv, NEW level \in Levels, NEW d \in 0..MaxAwake,
           Publish(level, d), OutdoorPublishes
    PROVE  IInv'
<1> DEFINE m == [topic |-> Topics[ram.next], wake |-> wake]
<1>1. ram.at = "publish" /\ ram.next \in 1..10 /\ ram' \in RamType /\ published' \in PublishedType
    BY PublishType, TopicsDomain DEF Publish, IInv, TypeOK, RamType
<1>2. ram'.connected = ram.connected /\ ram'.at \in {"publish", "close"}
    BY <1>1 DEF Publish, IInv, TypeOK, RamType
<1>3. Underway'
    BY <1>1, <1>2 DEF Underway
<1>4. m \in Message
    BY <1>1, TopicsAre DEF Message, IInv, Ordered
<1>5. UNCHANGED <<wake, value, screen>>
    BY DEF OutdoorPublishes, indoor
<1>6. Ordered'
    <2>1. CASE Sends
        <3>1. wire' = Append(wire, m)
            BY <2>1 DEF OutdoorPublishes
        <3>2. wire \in Seq(Message) /\ \A i \in 1..Len(wire) : wire[i].wake = wake
            BY DEF IInv, Ordered
        <3>3. /\ wire' \in Seq(Message) /\ wire' # <<>> /\ Len(wire') = Len(wire) + 1
              /\ \A i \in 1..Len(wire) : wire'[i] = wire[i]
              /\ wire'[Len(wire) + 1] = m
              /\ Head(wire') = IF wire = <<>> THEN m ELSE Head(wire)
            BY <1>4, <3>1, <3>2
        <3>4. \A i \in 1..Len(wire') : wire'[i].wake = wake'
            BY <1>5, <3>2, <3>3
        <3>5. value["rssi"] = wake \/ Head(wire').topic = "rssi"
            <4>1. CASE wire = <<>> /\ ram.next = 1
                BY <3>3, <4>1, TopicsAre
            <4>2. CASE wire = <<>> /\ ram.next # 1
                BY <1>1, <2>1, <4>2 DEF Sends, IInv, Ordered
            <4>3. CASE wire # <<>>
                BY <3>3, <4>3 DEF IInv, Ordered
            <4> QED BY <4>1, <4>2, <4>3
        <3> QED BY <1>5, <3>3, <3>4, <3>5 DEF IInv, Ordered
    <2>2. CASE ~Sends
        BY <1>1, <1>2, <1>5, <2>2 DEF OutdoorPublishes, Sends, IInv, Ordered
    <2> QED BY <2>1, <2>2
<1>7. TypeOK'
    BY NextType DEF OutdoorPublishes, IInv, Next
<1>8. Newest'
    BY <1>5 DEF IInv, Newest, SeenIsNewest
<1> QED BY <1>3, <1>6, <1>7, <1>8 DEF IInv

\* The message at the head of the wire reaches onData.
LEMMA ArrivesNewest ==
    ASSUME IInv, Arrives
    PROVE  IInv'
<1> DEFINE m == Head(wire)
<1>1. /\ wire # <<>> /\ wire \in Seq(Message) /\ wire' = Tail(wire)
      /\ UNCHANGED <<vars, wake, screen>>
      /\ value' = [t \in Shown |-> IF t = m.topic THEN m.wake ELSE value[t]]
    BY DEF Arrives, onData, IInv, Ordered
<1>2. /\ wire' \in Seq(Message) /\ Len(wire') = Len(wire) - 1
      /\ \A i \in 1..Len(wire') : wire'[i] = wire[i + 1]
      /\ m = wire[1] /\ m \in Message
      /\ wire' # <<>> => Head(wire') = wire[2]
    BY <1>1
<1>3. m.wake = wake /\ wake \in 1..MaxWakes
    BY <1>1, <1>2 DEF IInv, Ordered
<1>4. value'["rssi"] = wake
    BY <1>1, <1>3, RssiShown DEF IInv, Ordered
<1>5. Ordered'
    <2>1. \A i \in 1..Len(wire') : wire'[i].wake = wake'
        BY <1>1, <1>2 DEF IInv, Ordered
    <2> QED BY <1>1, <1>2, <1>3, <1>4, <2>1 DEF Ordered
<1>6. Newest'
    <2>1. value' \in [Shown -> 0..MaxWakes]
        BY <1>1, <1>3 DEF IInv, Newest
    <2>2. \A t \in Shown : value'[t] <= wake
        BY <1>1, <1>3 DEF IInv, Newest
    <2> QED BY <1>1, <1>4, <2>1, <2>2 DEF IInv, Newest, SeenIsNewest
<1>7. TypeOK' /\ Underway'
    BY <1>1 DEF IInv, TypeOK, Underway, vars
<1> QED BY <1>5, <1>6, <1>7 DEF IInv

\* The display shows what onData has left.
LEMMA DrawnNewest ==
    ASSUME IInv, IndoorRuns
    PROVE  IInv'
<1>1. screen' = Text /\ UNCHANGED <<vars, wake, wire, value>>
    BY DEF IndoorRuns, loop
<1>2. SeenIsNewest'
    BY <1>1 DEF Text, SeenIsNewest, IInv, Newest
<1> QED BY <1>1, <1>2 DEF IInv, TypeOK, Underway, Ordered, Newest, vars

LEMMA IndoorResets ==
    ASSUME IInv, IndoorReset
    PROVE  IInv'
<1>1. /\ ram' = [ram EXCEPT !.connected = FALSE] /\ wire' = <<>>
      /\ UNCHANGED <<rtc, published, observed, wake>>
      /\ value' = [t \in Shown |-> 0] /\ screen' = Booting
    BY DEF IndoorReset, Reboot
<1>2. ram' \in RamType /\ ram'.connected = FALSE /\ ram'.at = ram.at /\ ram'.next = ram.next
    BY <1>1 DEF IInv, TypeOK, RamType
<1>3. TypeOK' /\ Underway'
    BY <1>1, <1>2 DEF IInv, TypeOK, Underway, observed
<1>4. Ordered'
    BY <1>1, <1>2 DEF IInv, Ordered
<1>5. Newest'
    BY <1>1, RssiShown DEF IInv, Newest, SeenIsNewest, Booting, Ordered
<1> QED BY <1>3, <1>4, <1>5 DEF IInv

LEMMA StationsStep ==
    ASSUME IInv, [StationsNext]_all
    PROVE  IInv'
<1>1. TypeOK /\ Underway /\ wake \in 1..MaxWakes
    BY DEF IInv, Ordered
<1>2. CASE OutdoorSilent
    <2>1. TypeOK'
        BY <1>1, <1>2, NextType DEF OutdoorSilent, Next
    <2>2. Underway' /\ (~(ram'.at = "publish" /\ ram'.next > 1) \/ ram' = ram)
        BY <1>1, <1>2, SilentUnderway DEF OutdoorSilent
    <2> QED BY <1>2, <2>1, <2>2, Same DEF OutdoorSilent, indoor
<1>3. CASE OutdoorPublishes
    BY <1>3, SentOrdered DEF OutdoorPublishes, Publishes
<1>4. CASE OutdoorBoots
    <2>1. TypeOK' /\ ram' = Booted
        BY <1>1, <1>4, NextType
           DEF OutdoorBoots, Next, Boots, Interrupted, Reset, ResetStored, PowerOn, WakeUp
    <2>2. Underway' /\ ram'.at = "setup"
        BY <2>1, BootedType DEF Underway, Booted
    <2>3. wake' \in 1..MaxWakes /\ wake <= wake'
        BY <1>1, <1>4 DEF OutdoorBoots
    <2> QED BY <1>4, <2>1, <2>2, <2>3, Cleared DEF OutdoorBoots, indoor
<1>5. CASE Breaks
    <2>1. TypeOK'
        BY <1>1, <1>5, NextType DEF Breaks, Next
    <2>2. ram' = [ram EXCEPT !.connected = FALSE]
        BY <1>5 DEF Breaks, ConnectionLost
    <2>3. ram' \in RamType /\ ram'.connected = FALSE /\ ram'.at = ram.at /\ ram'.next = ram.next
        BY <1>1, <2>2 DEF TypeOK, RamType
    <2>4. Underway'
        BY <1>1, <2>3 DEF Underway
    <2>5. wake' = wake /\ wake <= wake
        BY <1>1, <1>5 DEF Breaks
    <2> QED BY <1>1, <1>5, <2>1, <2>3, <2>4, <2>5, Cleared DEF Breaks, indoor
<1>6. CASE UNCHANGED all
    BY <1>6, <1>1, Same DEF all, vars, indoor, TypeOK, Underway
<1> QED BY <1>2, <1>3, <1>4, <1>5, <1>6, ArrivesNewest, DrawnNewest, IndoorResets
        DEF StationsNext

\* The age behind "Seen" on the indoor station's display is the age of the newest value that
\* is on it, whatever messages of a wake-up are lost and whenever the display is drawn.
THEOREM DisplayCorrect == StationsSpec => []SeenIsNewest
<1>1. StationsInit => IInv
    BY InitInv
<1>2. IInv /\ [StationsNext]_all => IInv'
    BY StationsStep
<1>3. IInv => SeenIsNewest
    BY DEF IInv, Newest
<1> QED BY <1>1, <1>2, <1>3, PTL DEF StationsSpec

-----------------------------------------------------------------------------
(* The stations together are the stations by themselves *)

\* A step of both is one of the outdoor station: a reset of the other only breaks the connection.
LEMMA StepIsOutdoor ==
    ASSUME TypeOK, [StationsNext]_all
    PROVE  [Next]_vars
<1>1. CASE OutdoorSilent \/ OutdoorPublishes \/ OutdoorBoots \/ Breaks
    BY <1>1 DEF OutdoorSilent, OutdoorPublishes, OutdoorBoots, Breaks, Next
<1>2. CASE IndoorReset
    <2>1. ram' = [ram EXCEPT !.connected = FALSE] /\ UNCHANGED <<rtc, published, observed>>
        BY <1>2 DEF IndoorReset
    <2>2. ram.connected \in BOOLEAN
        BY DEF TypeOK, RamType
    <2>3. CASE ram.connected = TRUE
        BY <2>1, <2>3 DEF Next, ConnectionLost
    <2>4. CASE ram.connected = FALSE
        <3>1. ram' = ram
            BY <2>1, <2>4 DEF TypeOK, RamType
        <3> QED BY <2>1, <3>1 DEF vars, observed
    <2> QED BY <2>2, <2>3, <2>4
<1>3. CASE Arrives \/ IndoorRuns \/ UNCHANGED all
    BY <1>3 DEF Arrives, IndoorRuns, all, vars
<1> QED BY <1>1, <1>2, <1>3 DEF StationsNext

\* A step of both is one of the indoor station: what arrives is a message.
LEMMA StepIsIndoor ==
    ASSUME wire \in Seq(Message), [StationsNext]_all
    PROVE  [IndoorNext]_indoor
<1>1. CASE OutdoorSilent \/ OutdoorPublishes \/ OutdoorBoots \/ Breaks \/ UNCHANGED all
    BY <1>1 DEF OutdoorSilent, OutdoorPublishes, OutdoorBoots, Breaks, all, indoor
<1>2. CASE Arrives
    <2>1. Head(wire) \in Message
        BY <1>2 DEF Arrives
    <2> QED BY <1>2, <2>1 DEF Arrives, IndoorNext
<1>3. CASE IndoorRuns \/ IndoorReset
    BY <1>3 DEF IndoorRuns, IndoorReset, IndoorNext
<1> QED BY <1>1, <1>2, <1>3 DEF StationsNext

\* Whatever happens between the stations, each does what its sketch does by itself, so that
\* what holds of a station alone holds of it here: the connection, its breaks and the resets of
\* the other station are nothing that a single station could not meet.
THEOREM StationsAreStations == StationsSpec => Spec /\ IndoorSpec
<1>1. StationsInit => IInv /\ Init /\ IndoorInit
    BY InitInv DEF StationsInit
<1>2. IInv /\ [StationsNext]_all => IInv'
    BY StationsStep
<1>3. IInv /\ [StationsNext]_all => [Next]_vars
    BY StepIsOutdoor DEF IInv
<1>4. IInv /\ [StationsNext]_all => [IndoorNext]_indoor
    BY StepIsIndoor DEF IInv, Ordered, indoor, indoor
<1> QED BY <1>1, <1>2, <1>3, <1>4, PTL DEF StationsSpec, Spec, IndoorSpec

-----------------------------------------------------------------------------
(* The types of both *)

\* Both stations keep their types, and only messages are on the wire: each station does since
\* it is the station by itself.
THEOREM StationsTypeCorrect == StationsSpec => []StationsTypeOK
<1>1. StationsInit => IInv
    BY InitInv
<1>2. IInv /\ [StationsNext]_all => IInv'
    BY StationsStep
<1>3. IInv /\ IndoorTypeOK => StationsTypeOK
    BY DEF IInv, Ordered, StationsTypeOK
<1>4. StationsSpec => []IndoorTypeOK
    BY StationsAreStations, IndoorTypeCorrect
<1> QED BY <1>1, <1>2, <1>3, <1>4, PTL DEF StationsSpec
=============================================================================
