--------------------------- MODULE MCNetworkDevice --------------------------
(***************************************************************************)
(* A node of two devices on a host of two interfaces, with one descriptor  *)
(* more than the node needs at once.                                       *)
(***************************************************************************)
EXTENDS NetworkDevice, TLC

CONSTANTS eth0, eth1

TwoLinks   == {eth0, eth1}
BothLinks  == <<eth0, eth1>>
FdSymmetry == Permutations(Fds)
=============================================================================
