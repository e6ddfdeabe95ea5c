----------------------------- MODULE MCResolveAddr ----------------------------
(* Model values for checking ResolveAddr with TLC.                         *)
EXTENDS ResolveAddr

=============================================================================
