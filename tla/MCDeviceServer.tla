--------------------------- MODULE MCDeviceServer ---------------------------
(* Lines for the configuration of DeviceServer; the second is what the     *)
(* server stores when more follows the newline in the same piece.          *)
EXTENDS DeviceServer

CONSTANTS a, z, nl

SomeLines == {<<nl>>, <<nl, z>>, <<a, nl>>}
=============================================================================
