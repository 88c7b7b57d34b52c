------------------------------ MODULE MCSx1276 ------------------------------
(* The instances of Sx1276 that TLC checks. *)
EXTENDS Sx1276

\* Both modems, single and continuous reception, with and without CRC.
AllConfigs == [modem : {"LORA", "FSK"}, cont : BOOLEAN, crcOn : BOOLEAN]
=============================================================================
