--------------------------- MODULE MCInetChecksum ---------------------------
(***************************************************************************)
(* An instance of InetChecksum for TLC: two-bit bytes, every message of up *)
(* to six of them, so that sums carry, wrap to all ones and have a byte   *)
(* left over; addresses that add nothing, a carry and all ones.            *)
(***************************************************************************)
EXTENDS InetChecksum

SomeAddresses == {<<0, 0>>, <<9, 15>>, <<15, 15>>}
SomeProtos    == {0, 3}
=============================================================================
