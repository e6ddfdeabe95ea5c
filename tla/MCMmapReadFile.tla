---------------------------- MODULE MCMmapReadFile ---------------------------
(* Bounds for checking MmapReadFile with TLC.                              *)
EXTENDS MmapReadFile

=============================================================================
