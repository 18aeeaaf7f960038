-------------------------------- MODULE Int16 --------------------------------
(***************************************************************************)
(* How a 16 bit setpoint travels: packed into two bytes, most significant  *)
(* first, by the joystick client, unpacked and packed again by the CAN     *)
(* bridge, unpacked by the rover.                                          *)
(***************************************************************************)
EXTENDS Integers

Int16s == -32768 .. 32767

\* "(uint8_t)(v >> 8)" and "(uint8_t)(v)" of a signed 16 bit value.
Unsigned(v) == IF v < 0 THEN v + 65536 ELSE v
HighByte(v) == Unsigned(v) \div 256
LowByte(v) == Unsigned(v) % 256

\* "(int16_t)(((uint16_t)(hi << 8)) | (uint16_t)lo)"
Int16(hi, lo) ==
    IF hi >= 128 THEN hi * 256 + lo - 65536 ELSE hi * 256 + lo

=============================================================================
