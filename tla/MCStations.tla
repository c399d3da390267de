----------------------------- MODULE MCStations -----------------------------
(***************************************************************************)
(* The stations: the outdoor station by itself, with its clock and its     *)
(* sleeps; the indoor station by itself, with its clock and messages of    *)
(* one wake-up in any order; and both with the messages between them.  A   *)
(* behaviour is one of part's alone.                                       *)
(***************************************************************************)
EXTENDS WeatherStation

VARIABLE part

MCIncoming == [topic : {Topics[i] : i \in DOMAIN Topics}, wake : 1..3]

parts == <<all, part>>

\* The indoor station by itself is told of two topics that it shows, and of one wake-up.
OneWakeUp == \A t \in Shown : value'[t] \in IF t \in {"rssi", "hPa"} THEN {0, 1} ELSE {0}

\* Both together: no time passes, the battery is full when it is measured, and the last of
\* MaxWakes wake-ups is not followed by another.
NoTime == elapsed' = 0
Full == ram'.deepSleep \in {Base, DeepSleep(100)}
LastWakeUp == Boots => wake < MaxWakes

PartsInit == part \in {"outdoor", "indoor", "both"} /\ StationsInit

PartsNext ==
    \/ part = "outdoor" /\ Next /\ UNCHANGED <<wake, wire, indoor, part>>
    \/ part = "indoor" /\ IndoorNext /\ OneWakeUp /\ UNCHANGED <<vars, wake, wire, part>>
    \/ part = "both" /\ StationsNext /\ NoTime /\ Full /\ LastWakeUp /\ UNCHANGED part

\* The fairness of OutdoorStation's FairSpec.
PartsSpec ==
    /\ PartsInit /\ [][PartsNext]_parts
    /\ WF_parts(part = "outdoor" /\ (Silent \/ Publishes) /\ UNCHANGED <<wake, wire, indoor, part>>)

\* The outdoor station's liveness, where it is the one that runs.
BatteryIsSaved == part = "outdoor" => GoesToSleep
=============================================================================
