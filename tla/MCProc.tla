------------------------------- MODULE MCProc -------------------------------
(* The process table for TLC.                                              *)
EXTENDS FrameScan
=============================================================================
