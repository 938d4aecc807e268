------------------------------- MODULE MCBmap -------------------------------
(* Two files and two open files for TLC.                                   *)
EXTENDS Bmap

MCInode == 1 .. 2
MCFile == 1 .. 2
=============================================================================
