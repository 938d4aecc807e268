---------------------------- MODULE MCAddrSpace ----------------------------
(* The memory of processes for TLC.                                        *)
EXTENDS AddrSpace
=============================================================================
