---------------------------- MODULE MCMqttClient ----------------------------
(***************************************************************************)
(* Instances of the client library.  Timeouts of no tick or one let every  *)
(* timer expire before and after anything else.                            *)
(***************************************************************************)
EXTENDS MqttClient

CONSTANTS c1, c2     \* clients

\* The replies differ in their type only: those of PUBLISH1, PUBREL and PINGREQ are enough.
SomePackets == PacketType \ {"PUBLISH2", "PUBREC"}

=============================================================================
