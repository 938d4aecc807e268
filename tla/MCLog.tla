-------------------------------- MODULE MCLog --------------------------------
(***************************************************************************)
(* The log for TLC: a log of LOGSIZE blocks from block 2 on (only as many  *)
(* of them as a call can fill exist on the disk), and home blocks after it.*)
(***************************************************************************)
EXTENDS Log

MCHome == {20, 21}
MCHome3 == {20, 21, 22}
MCBlock == LogStart .. LogStart + MAXOPBLOCKS \cup Home
MCContent == {<<>>} \cup {<<h>> : h \in Home} \cup (Home \X Home)
             \cup ((1 .. MaxTx) \X Home)
MCZero == <<>>
=============================================================================
