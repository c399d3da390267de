--------------------------- MODULE WeatherStation ---------------------------
(***************************************************************************)
(* Both stations: the messages of the outdoor station's wake-ups reach     *)
(* onData over one connection, in order, and what is on the wire when the  *)
(* connection breaks, or either station is reset, is lost.  The broker     *)
(* passes a message on to the local subscription as it receives it.        *)
(***************************************************************************)
EXTENDS OutdoorStation, IndoorStation

CONSTANT MaxWakes    \* the number from which on wake-ups are not told apart

Message == [topic : {Topics[i] : i \in DOMAIN Topics}, wake : 1..MaxWakes]

ASSUME MaxWakesAssumption == MaxWakes \in Nat \ {0} /\ Message \subseteq Incoming

VARIABLES
    wake,            \* observed: the number of the wake-up
    wire             \* the messages sent and not received, oldest first

all == <<vars, wake, wire, indoor>>

StationsInit == Init /\ wake = 1 /\ wire = <<>> /\ IndoorInit

OutdoorSilent == Silent /\ UNCHANGED <<wake, wire, indoor>>

OutdoorPublishes ==
    /\ Publishes
    /\ wire' = IF Sends
               THEN Append(wire, [topic |-> Topics[ram.next], wake |-> wake]) ELSE wire
    /\ UNCHANGED <<wake, indoor>>

OutdoorBoots ==
    /\ Boots
    /\ wake' = IF wake < MaxWakes THEN wake + 1 ELSE wake
    /\ wire' = <<>>
    /\ UNCHANGED indoor

Breaks == ConnectionLost /\ wire' = <<>> /\ UNCHANGED <<wake, indoor>>

Arrives ==
    /\ wire # <<>>
    /\ onData(Head(wire))
    /\ wire' = Tail(wire)
    /\ UNCHANGED <<vars, wake>>

\* The clock of the indoor station stands still here: what it does is IndoorStation's.
IndoorRuns == loop /\ UNCHANGED <<vars, wake, wire>>

IndoorReset ==
    /\ Reboot
    /\ ram' = [ram EXCEPT !.connected = FALSE]
    /\ wire' = <<>>
    /\ UNCHANGED <<rtc, published, observed, wake>>

StationsNext == \/ OutdoorSilent \/ OutdoorPublishes \/ OutdoorBoots
                \/ Breaks \/ Arrives \/ IndoorRuns \/ IndoorReset

StationsSpec == StationsInit /\ [][StationsNext]_all

-----------------------------------------------------------------------------
\* The parts of the composition keep their types.
StationsTypeOK == /\ TypeOK /\ IndoorTypeOK
                  /\ wake \in 1..MaxWakes /\ wire \in Seq(Message)

\* Whatever is lost, and whenever the display is drawn: the age behind "Seen", which is
\* that of the rssi, is the age of the newest value on it; the others may be of an
\* earlier wake-up, never of a later one.
SeenIsNewest == screen.text = "Seen" =>
    \A t \in Shown : screen.value["rssi"] >= screen.value[t]
=============================================================================
