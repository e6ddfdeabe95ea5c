------------------------- MODULE MCUDPSessionRelay --------------------------
(* Model values and bounds for checking UDPSessionRelay with TLC.          *)
EXTENDS UDPSessionRelay

=============================================================================
