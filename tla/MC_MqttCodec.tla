------------------------------ MODULE MC_MqttCodec ------------------------------
(* Small instances of the v3 frame decoder for TLC.                         *)
EXTENDS MqttCodec

\* 2-bit "bytes": lengths 2 and 3 already take two varint bytes
MCRadix == 2
\* PUBLISH (0x30) and the reserved packet type 15 that decode_packet rejects;
\* neither is a 2-bit length byte, so a misaligned header shows up in TypeOK
MCFirstBytes == {48, 240}
MCBadTypes == {240}
====
