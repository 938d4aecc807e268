------------------------------ MODULE MCCh375 ------------------------------
(* Blocks of two packets for TLC; callers write one value in both.         *)
EXTENDS Ch375

MCContent == {<<0, 0>>, <<1, 1>>}
MCZero == <<0, 0>>
=============================================================================
