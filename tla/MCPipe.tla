------------------------------- MODULE MCPipe -------------------------------
(* Packets of two lengths: three fit a read, four do not, or not whole.    *)
EXTENDS Pipe

MCPackets == 1 .. 5
MCLength  == [p \in Packets |-> IF p % 2 = 0 THEN 2 ELSE 1]
=============================================================================
