----------------------------- MODULE MCSockets -----------------------------
(* Two digits of base 2: lengths 0 to 3, and a packet of MaxPacketSize.     *)
EXTENDS Sockets, TLC

CONSTANTS a, b

MCPeer(s) == IF s = a THEN b ELSE a
MCPackets == {<<1, 0, 1>>, <<0, 1, 1, 0>>}
MCSymmetry == Permutations(Sockets)
=============================================================================
