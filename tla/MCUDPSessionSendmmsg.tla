------------------------ MODULE MCUDPSessionSendmmsg ------------------------
EXTENDS UDPSessionSendmmsg
=============================================================================
