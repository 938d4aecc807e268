------------------------------- MODULE MCPipe -------------------------------
(* Pipes for TLC: who holds which end at the start.                        *)
EXTENDS Pipe

\* Any spread of the ends, as fork() and close() after pipe() can make it.
AnyEnds == [Slot -> SUBSET End]

\* Every process holds one end only, as the two sides of a shell pipeline.
OneEndEach == [Slot -> {{"r"}, {"w"}}]
=============================================================================
