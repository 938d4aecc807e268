------------------------------ MODULE MCBalloc ------------------------------
(* The block allocator for TLC.                                            *)
EXTENDS Balloc
=============================================================================
